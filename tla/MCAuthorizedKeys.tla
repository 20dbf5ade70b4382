-------------------------- MODULE MCAuthorizedKeys --------------------------
(* AuthorizedKeys for TLC: calls and keys are interchangeable. *)
EXTENDS AuthorizedKeys, TLC

CallsAndKeys == Permutations(Tasks) \cup Permutations(Keys)
=============================================================================
