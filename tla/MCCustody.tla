----------------------------- MODULE MCCustody -----------------------------
(* Custody for TLC: connections are interchangeable.                     *)
EXTENDS Custody, TLC

Connections == Permutations(Tasks)
=============================================================================
