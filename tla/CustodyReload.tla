--------------------------- MODULE CustodyReload ---------------------------
(***************************************************************************)
(* Custody with the history that the comment on Creds::scrub is about: the *)
(* cap-URLs the supervisor has written since the machine was restored, and *)
(* what the ops that start afterwards get of them.  The history only       *)
(* watches; it constrains no step.                                         *)
(***************************************************************************)
EXTENDS Custody

VARIABLES
  warm,    (* the machine has been restored with this process in it        *)
  fresh    (* repositories whose cap-URL was written since, and is there   *)

InitR == Init /\ warm = FALSE /\ fresh = {}

Note ==
  /\ warm' = (proc' = "serving" /\ (warm \/ (runner = "paused" /\ runner' = "idle")))
  /\ fresh' = {r \in Repos : /\ warm /\ warm' /\ dir'.url[r] \in CapUrls
                             /\ r \in fresh \/ dir'.url[r] # dir.url[r]}

SpecR == InitR /\ [][Next /\ Note]_<<vars, warm, fresh>>

-----------------------------------------------------------------------------
(* What the repository says and the code does not do: a run finds it       *)
(* violated.                                                               *)

(* "the supervisor re-writes fresh cap files on warm restore and the       *)
(* broker reloads on the next op" (creds.rs, scrub): a git op that starts  *)
(* once a fresh cap-URL is there works with it.                            *)
NextOpReloads ==
  [][\A t \in Tasks :
       pc[t] = "arrived" /\ pc'[t] = "running" /\ req[t].repo \in fresh =>
         snap'[t].git_caps[req[t].repo] = dir.url[req[t].repo]]_<<vars, warm, fresh>>
=============================================================================
