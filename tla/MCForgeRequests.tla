-------------------------- MODULE MCForgeRequests --------------------------
(* ForgeRequests for TLC: requests and contents are interchangeable.       *)
EXTENDS ForgeRequests, TLC

Interchangeable == Permutations(Tasks) \cup Permutations(Texts)
=============================================================================
