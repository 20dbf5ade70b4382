--------------------------- MODULE ScrubContract ---------------------------
(***************************************************************************)
(* What the pre-snapshot scrub promises the snapshot runner, with every    *)
(* detail of the broker left out: the runner asks, is granted the snapshot *)
(* only when neither the broker's shared credentials nor the caps          *)
(* directory holds a secret, and nothing brings one back before the        *)
(* machine is frozen (http_ctrl.rs, creds.rs, main.rs).  Where a file      *)
(* cannot be removed, the promise is for the credentials in RAM only.      *)
(***************************************************************************)
CONSTANT
  Reliable  (* the files of the caps directory can be listed and removed  *)

VARIABLES
  ram,     (* the credentials every later request would see hold a secret *)
  disk,    (* some file of the caps directory holds a secret              *)
  phase    (* where the runner's snapshot protocol stands                 *)

cvars == <<ram, disk, phase>>

Init == ram = FALSE /\ disk \in BOOLEAN /\ phase = "open"

(* The supervisor writes cap files only while no snapshot is under way. *)
Provision == phase = "open" /\ disk' \in BOOLEAN /\ UNCHANGED <<ram, phase>>

(* A broker learns secrets from the files, and from nowhere else. *)
Learn  == phase # "frozen" /\ disk /\ ram' = TRUE /\ UNCHANGED <<disk, phase>>
Forget == phase # "frozen" /\ ram' = FALSE /\ UNCHANGED <<disk, phase>>
Erase  == phase # "frozen" /\ disk' = FALSE /\ UNCHANGED <<ram, phase>>

(* The broker process dies; a scrub it was serving fails. *)
Crash ==
  /\ phase # "frozen"
  /\ ram' = FALSE
  /\ phase' = IF phase = "requested" THEN "open" ELSE phase
  /\ UNCHANGED disk

Request == phase = "open" /\ phase' = "requested" /\ UNCHANGED <<ram, disk>>
Grant ==
  /\ phase = "requested" /\ ~ram /\ (Reliable => ~disk)
  /\ phase' = "granted"
  /\ UNCHANGED <<ram, disk>>
GiveUp ==
  /\ phase \in {"requested", "granted"}
  /\ phase' = "open"
  /\ UNCHANGED <<ram, disk>>
Freeze == phase = "granted" /\ phase' = "frozen" /\ UNCHANGED <<ram, disk>>
Thaw   == phase = "frozen" /\ phase' = "open" /\ UNCHANGED <<ram, disk>>

Next ==
  \/ Provision \/ Learn \/ Forget \/ Erase \/ Crash
  \/ Request \/ Grant \/ GiveUp \/ Freeze \/ Thaw

Spec == Init /\ [][Next]_cvars

(* Between the grant and the thaw there is no secret to be frozen: what    *)
(* handle_scrub's doc promises a snapshot taken after its reply.           *)
NothingToFreeze == Reliable /\ phase \in {"granted", "frozen"} => ~ram /\ ~disk
=============================================================================
