------------------------------ MODULE KeyStore ------------------------------
(***************************************************************************)
(* What add-key promises: a key that was acknowledged is in the store, and *)
(* a key in the store stays there.                                         *)
(***************************************************************************)
CONSTANT Keys
VARIABLES keys, acked

Init == keys \in SUBSET Keys /\ acked = {}

Add(k) == keys' = keys \cup {k} /\ UNCHANGED acked
Ack(k) == k \in keys /\ acked' = acked \cup {k} /\ UNCHANGED keys

Next == \E k \in Keys : Add(k) \/ Ack(k)
Spec == Init /\ [][Next]_<<keys, acked>>
=============================================================================
