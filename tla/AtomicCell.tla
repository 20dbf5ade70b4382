----------------------------- MODULE AtomicCell -----------------------------
(***************************************************************************)
(* What the mutex around the creds promises its users (dispatch.rs): the   *)
(* cell is one value.  It is loaded whole when the process comes up, it is *)
(* dropped in one step, and whoever clones it or lists its names sees the  *)
(* value of one moment, whatever the scrub does to its bytes meanwhile.    *)
(***************************************************************************)
CONSTANTS
  Clients,   (* who reads and drops the cell                               *)
  Nothing,   (* the value of a cell that was dropped, or never loaded      *)
  Names      (* the names that are listed of each value                    *)

VARIABLES
  up,        (* a process serves                                           *)
  origin,    (* the value it loaded                                        *)
  view,      (* the value a client would see now                           *)
  clone,     (* per client: the value it has cloned                        *)
  named      (* per client: the names it has listed                        *)

avars == <<up, origin, view, clone, named>>

Empty ==
  /\ up = FALSE /\ origin = Nothing /\ view = Nothing
  /\ clone = [c \in Clients |-> Nothing] /\ named = [c \in Clients |-> {}]

Init == Empty

Load ==
  /\ ~up /\ up' = TRUE
  /\ origin' \in DOMAIN Names /\ view' = origin'
  /\ UNCHANGED <<clone, named>>

Drop == up /\ view' = Nothing /\ UNCHANGED <<up, origin, clone, named>>

Clone(c) ==
  up /\ clone' = [clone EXCEPT ![c] = view] /\ UNCHANGED <<up, origin, view, named>>
Release(c) ==
  clone' = [clone EXCEPT ![c] = Nothing] /\ UNCHANGED <<up, origin, view, named>>

List(c) ==
  up /\ named' = [named EXCEPT ![c] = Names[view]] /\ UNCHANGED <<up, origin, view, clone>>
Forget(c) ==
  named' = [named EXCEPT ![c] = {}] /\ UNCHANGED <<up, origin, view, clone>>

Die == Empty'

Next ==
  \/ Load \/ Drop \/ Die
  \/ \E c \in Clients : Clone(c) \/ Release(c) \/ List(c) \/ Forget(c)

Spec == Init /\ [][Next]_avars

(* What is seen of the cell is what was loaded, all of it, or nothing, and *)
(* before anything was loaded nothing.                                     *)
WholeOrNothing ==
  /\ ~up => origin = Nothing
  /\ view \in {Nothing, origin}
  /\ clone \in [Clients -> {Nothing, origin}]

(* A process that was dropped from never has anything to see again.        *)
DropIsForGood == [][up /\ up' /\ view = Nothing => view' = Nothing]_avars
=============================================================================
