--------------------------- MODULE CustodyHistory ---------------------------
(***************************************************************************)
(* Custody with the history its scrub promises are about: what had been    *)
(* scrubbed, and over which channel, when a request arrived.  The history  *)
(* only watches, as that of the boot does; it constrains no step.          *)
(***************************************************************************)
EXTENDS CustodyBoot

VARIABLES
  dropped,   (* this process has completed a scrub, and no cap-URL or      *)
             (* forge token has been written since                         *)
  sealed,    (* scrubs completed since authkeys.cap was last written       *)
  after      (* per task: of the two above, when its request arrived, what *)
             (* a promise about such a request is about; and, for a scrub, *)
             (* whether authkeys.cap has been left alone since             *)

history  == <<dropped, sealed, after>>
NoAfter  == [ram |-> FALSE, cap |-> {}, clean |-> TRUE]

HistoryInit == dropped = FALSE /\ sealed = {} /\ after = [t \in Tasks |-> NoAfter]
InitH == InitB /\ HistoryInit

(* What the step under way does, read off the state it leads to. *)
Written   == dir'.authkeys \notin {dir.authkeys, None}
Refilled  == \/ \E r \in Repos : dir'.url[r] \notin {dir.url[r], None, Blank}
             \/ dir'.forge \notin {dir.forge, None, Blank}
Completed == {t \in Tasks : /\ pc[t] = "replied" /\ pc'[t] = "idle"
                            /\ req[t].op \in ScrubOps /\ proc' = "serving"}

Noted(op) == [ram   |-> dropped /\ op \notin HttpOps,
              cap   |-> IF op = "add_key" THEN sealed ELSE {},
              clean |-> TRUE]

Record ==
  /\ dropped' = (proc' = "serving" /\ ~Refilled /\ (dropped \/ Completed # {}))
  /\ sealed' = IF Written THEN {}
               ELSE sealed \cup {req[t].op : t \in {u \in Completed : after[u].clean}}
  /\ after' = [t \in Tasks |->
       IF pc'[t] = "idle" THEN NoAfter
       ELSE IF pc[t] = "idle" THEN Noted(req'[t].op)
       ELSE [ram   |-> after[t].ram /\ ~Refilled,
             cap   |-> IF Written THEN {} ELSE after[t].cap,
             clean |-> after[t].clean /\ ~(Written /\ req[t].op \in ScrubOps)]]

SpecH ==
  /\ InitH
  /\ [][Next /\ Watch /\ Record]_<<vars, steady, history>>

-----------------------------------------------------------------------------
(* Once a scrub has been acknowledged, over either channel, every request  *)
(* that arrives at this process sees no credential until the supervisor    *)
(* writes a fresh one: its clone is empty and list_caps names nothing,     *)
(* whatever files the scrub left (http_ctrl.rs, serve: dropping here is    *)
(* process-wide, the socket's next git op sees nothing).  What a request   *)
(* sees after fresh files is the subject of CustodyReload.                 *)
ScrubIsProcessWide ==
  /\ dropped => cell = NoCreds
  /\ \A t \in Tasks : after[t].ram => snap[t] = NoCreds /\ listed[t] = {}

(* After an acknowledged HTTP scrub add-key fails closed: a request that   *)
(* arrives later is refused, whatever token it carries, across restarts    *)
(* too, until the supervisor writes authkeys.cap again (http_ctrl.rs,      *)
(* handle_scrub and AUTHKEYS_CAP_FILE).                                    *)
FailsClosedAfterHttpScrub ==
  \A t \in Tasks :
    req[t].op = "add_key" /\ "http_scrub" \in after[t].cap => reply[t] # "ok"

-----------------------------------------------------------------------------
(* The inductive invariant of the proofs, beside Custody's.                *)

(* A task has locals only where its handler uses them. *)
LocalsAtPc ==
  \A t \in Tasks :
    /\ pc[t] # "running" => snap[t] = NoCreds
    /\ pc[t] # "authz" => held[t] = None
    /\ pc[t] # "replied" => reply[t] = "none" /\ listed[t] = {}
    /\ pc[t] = "zeroed" => req[t].op \in ScrubOps
    /\ pc[t] \in {"open_dir", "urls", "forge"} => req[t].op = "http_scrub"

HistoryType ==
  /\ dropped \in BOOLEAN /\ sealed \subseteq ScrubOps
  /\ after \in [Tasks -> [ram : BOOLEAN, cap : SUBSET ScrubOps, clean : BOOLEAN]]

DroppedStaysDropped ==
  /\ dropped => proc = "serving" /\ cell = NoCreds
  /\ \A t \in Tasks :
       after[t].ram => dropped /\ snap[t] = NoCreds /\ listed[t] = {}

(* No authkeys.cap since the HTTP scrub, none in a later request's hands.  *)
SealedStaysSealed ==
  /\ "http_scrub" \in sealed => dir.authkeys = None
  /\ \A t \in Tasks :
       /\ pc[t] \in {"forge", "replied"} /\ req[t].op = "http_scrub" /\ after[t].clean
            => dir.authkeys = None
       /\ "http_scrub" \in after[t].cap =>
            /\ dir.authkeys = None /\ held[t] = None
            /\ req[t].op = "add_key" => reply[t] # "ok"

HInv ==
  /\ IInv /\ BootInv /\ LocalsAtPc /\ HistoryType /\ DroppedStaysDropped
  /\ ~IoFails => SealedStaysSealed
=============================================================================
