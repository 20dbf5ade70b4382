-------------------------- MODULE CustodyFailures --------------------------
(***************************************************************************)
(* Custody with the history of what went wrong: the files on which the     *)
(* scrub that the runner waits for, or was answered, has failed.  The      *)
(* history only watches, as that of the boot does.                         *)
(***************************************************************************)
EXTENDS CustodyBoot

VARIABLE spared

NoneSpared == [url |-> {}, authkeys |-> FALSE, forge |-> FALSE]

(* The asked scrub's own steps: entries its listing left out, entries and  *)
(* files that are still there when it has dealt with them.                 *)
LeftOut    == IF pc[asked] = "open_dir" THEN UrlsPresent \ todo'[asked] ELSE {}
NotRemoved == {r \in Repos : r \in todo[asked] \ todo'[asked] /\ dir'.url[r] # None}
Passed(at, next) == pc[asked] = at /\ pc'[asked] = next

Notice ==
  spared' =
    IF runner' = "idle" THEN NoneSpared
    ELSE IF runner # "scrubbing" THEN spared
    ELSE [url      |-> spared.url \cup LeftOut \cup NotRemoved,
          authkeys |-> spared.authkeys \/ (Passed("urls", "forge") /\ dir'.authkeys # None),
          forge    |-> spared.forge \/ (Passed("forge", "replied") /\ dir'.forge # None)]

InitF     == InitB /\ spared = NoneSpared
SpecF     == InitF /\ [][Next /\ Watch /\ Notice]_<<vars, steady, spared>>
FairSpecF == SpecF /\ Fairness

-----------------------------------------------------------------------------
(* A file that cannot be removed, or a listing that stops, saves no other: *)
(* whatever is on disk once the runner is answered is what its own scrub   *)
(* failed on, for all that requests, other scrubs and crashes do meanwhile *)
(* (http_ctrl.rs, remove_cred_files: every error is ignored and the sweep  *)
(* goes on).                                                               *)
FailuresDoNotSpread ==
  runner \in {"granted", "paused"} =>
    /\ UrlsPresent \subseteq spared.url
    /\ dir.authkeys # None => spared.authkeys
    /\ dir.forge # None => spared.forge

-----------------------------------------------------------------------------
(* The inductive invariant of the proof, beside Custody's.                 *)

(* What the asked scrub has been through and is still there, it failed on. *)
SparedSoFar ==
  runner = "scrubbing" =>
    /\ pc[asked] = "urls" => UrlsPresent \subseteq todo[asked] \cup spared.url
    /\ pc[asked] \in {"forge", "replied"} =>
         UrlsPresent \subseteq spared.url /\ (dir.authkeys # None => spared.authkeys)
    /\ pc[asked] = "replied" /\ dir.forge # None => spared.forge

FailuresInv ==
  /\ spared \in [url : SUBSET Repos, authkeys : BOOLEAN, forge : BOOLEAN]
  /\ SparedSoFar /\ FailuresDoNotSpread
=============================================================================
