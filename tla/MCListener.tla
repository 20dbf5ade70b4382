----------------------------- MODULE MCListener -----------------------------
(* Listener for TLC: requests shorter than their head, of head only, with a *)
(* body that comes in one read or in two, and beyond the limit.             *)
EXTENDS Listener

MCSizes == {3, 4, 6, 10}
=============================================================================
