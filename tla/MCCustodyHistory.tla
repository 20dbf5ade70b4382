-------------------------- MODULE MCCustodyHistory --------------------------
(* CustodyHistory for TLC: connections are interchangeable. *)
EXTENDS CustodyHistory, TLC

Connections == Permutations(Tasks)
=============================================================================
