------------------------------ MODULE Custody ------------------------------
(***************************************************************************)
(* The life of the broker's credentials: the caps directory the supervisor *)
(* writes, the broker process that loads it once (main.rs, creds.rs), the  *)
(* requests that read or drop the shared cell (dispatch.rs, http_ctrl.rs)  *)
(* and the runner that asks for a scrub before it freezes the machine.     *)
(*                                                                         *)
(* A task is one accepted connection.  Between two awaits it holds a       *)
(* worker thread of the runtime, and threads interleave at every access to *)
(* shared state: the mutex around the cell, and each file operation.       *)
(***************************************************************************)
EXTENDS Creds, Naturals, FiniteSets

CONSTANTS
  Tasks,            (* connections that can be open at the same time       *)
  Workers,          (* worker threads of the runtime                       *)
  ForgeConfigured,  (* TABBIFY_FORGE_URL and TABBIFY_FORGE_ORG are set     *)
  IoFails           (* listing the caps directory, or removing a file of   *)
                    (* it, may fail                                        *)

ASSUME CustodyAssumption ==
  /\ Workers \in Nat \ {0}
  /\ ForgeConfigured \in BOOLEAN /\ IoFails \in BOOLEAN
  /\ None \notin Tasks

ScrubOps    == {"socket_scrub", "http_scrub"}
HttpOps     == {"http_scrub", "add_key"}
ForgeOps    == {"forge_provision", "forge_call"}
UpstreamOps == {"git_op"} \cup ForgeOps

NoRequest == [op |-> "none", repo |-> None, token |-> None]
Requests ==
  [op : {"list_caps"} \cup ForgeOps \cup ScrubOps, repo : {None}, token : {None}]
    \cup [op : {"git_op"}, repo : Repos, token : {None}]
    \cup [op : {"add_key"}, repo : {None}, token : AuthCaps \cup {None}]
ScrubRequest == [op |-> "http_scrub", repo |-> None, token |-> None]

PcValues == {"idle", "arrived", "running", "zeroed", "open_dir", "urls", "forge",
             "authz", "replied"}

VARIABLES
  dir,        (* the caps directory                                        *)
  proc,       (* the process: "down", "opening", "scanning", "serving"     *)
  http,       (* the :8732 listener accepts                                *)
  boot,       (* locals of Creds::load                                     *)
  cell,       (* the creds behind the mutex                                *)
  holder,     (* the task that holds the mutex across a step               *)
  pc, req,    (* per task: where its handler stands, and what it was asked *)
  snap,       (* its clone of the creds                                    *)
  held,       (* the authkeys cap it read                                  *)
  todo,       (* the `.url` entries it has still to remove                 *)
  listed,     (* the capability names it is about to reply                 *)
  reply,      (* the outcome it is about to reply                          *)
  runner,     (* the snapshot runner on the host                           *)
  asked,      (* the task that serves the runner's scrub                   *)
  loaded      (* history: what this process loaded                         *)

taskVars == <<pc, req, snap, held, todo, listed, reply>>
procVars == <<proc, http, boot, loaded>>
hostVars == <<runner, asked>>
vars == <<dir, procVars, cell, holder, taskVars, hostVars>>

NoBoot == [forge |-> FALSE, entries |-> {}, got |-> NoUrls]

Init ==
  /\ dir = NoFiles
  /\ proc = "down" /\ http = FALSE /\ boot = NoBoot /\ loaded = NoCreds
  /\ cell = NoCreds /\ holder = None
  /\ pc = [t \in Tasks |-> "idle"] /\ req = [t \in Tasks |-> NoRequest]
  /\ snap = [t \in Tasks |-> NoCreds] /\ held = [t \in Tasks |-> None]
  /\ todo = [t \in Tasks |-> {}] /\ listed = [t \in Tasks |-> {}]
  /\ reply = [t \in Tasks |-> "none"]
  /\ runner = "idle" /\ asked = None

(* Nothing inside the machine moves while it is paused. *)
Alive   == runner # "paused"
Serving == Alive /\ proc = "serving"

UrlsPresent == {r \in Repos : dir.url[r] # None}

(* read_dir yields every entry that was there when the directory was       *)
(* opened, and one created later may or may not be seen; when it fails the *)
(* code goes on with the entries it got.                                   *)
MutantListings == SUBSET UrlsPresent
Listings == {S \in SUBSET Repos : IoFails \/ UrlsPresent \subseteq S}

-----------------------------------------------------------------------------
(* The supervisor writes a cap file, or creates it empty, while no         *)
(* snapshot is under way.  Bound: the forge file is written only where the *)
(* constants have a token for it.                                          *)
WriteUrl(r, content) ==
  /\ runner = "idle"
  /\ dir' = [dir EXCEPT !.url[r] = content]
  /\ UNCHANGED <<procVars, cell, holder, taskVars, hostVars>>

WriteForge(content) ==
  /\ runner = "idle"
  /\ dir' = [dir EXCEPT !.forge = content]
  /\ UNCHANGED <<procVars, cell, holder, taskVars, hostVars>>

WriteAuthkeys(content) ==
  /\ runner = "idle"
  /\ dir' = [dir EXCEPT !.authkeys = content]
  /\ UNCHANGED <<procVars, cell, holder, taskVars, hostVars>>

-----------------------------------------------------------------------------
(* main and Creds::load: the forge file's existence is tested first, then  *)
(* the directory is listed, each entry read, and the forge file read last. *)
MutantStart ==
  /\ Alive /\ proc = "down"
  /\ proc' = "opening"
  /\ boot' = NoBoot
  /\ UNCHANGED <<dir, http, loaded, cell, holder, taskVars, hostVars>>
Start ==
  /\ Alive /\ proc = "down"
  /\ proc' = "opening"
  /\ boot' = [NoBoot EXCEPT !.forge = dir.forge # None]
  /\ UNCHANGED <<dir, http, loaded, cell, holder, taskVars, hostVars>>

OpenCapsDir ==
  /\ Alive /\ proc = "opening"
  /\ proc' = "scanning"
  /\ \E S \in Listings : boot' = [boot EXCEPT !.entries = S]
  /\ UNCHANGED <<dir, http, loaded, cell, holder, taskVars, hostVars>>

ScanEntry(r) ==
  /\ Alive /\ proc = "scanning" /\ r \in boot.entries
  /\ boot' = [boot EXCEPT !.entries = @ \ {r}, !.got[r] = Trimmed(dir.url[r])]
  /\ UNCHANGED <<dir, proc, http, loaded, cell, holder, taskVars, hostVars>>

(* The listener of :8732 may fail to bind; the socket serves all the same. *)
Serve ==
  /\ Alive /\ proc = "scanning" /\ boot.entries = {}
  /\ proc' = "serving"
  /\ http' \in BOOLEAN
  /\ loaded' = Loaded(boot.got, IF boot.forge THEN dir.forge ELSE None)
  /\ cell' = loaded'
  /\ boot' = NoBoot
  /\ UNCHANGED <<dir, holder, taskVars, hostVars>>

(* An accept error ends the HTTP listener, not the process. *)
HttpExit ==
  /\ Serving /\ http
  /\ http' = FALSE
  /\ UNCHANGED <<dir, proc, boot, loaded, cell, holder, taskVars, hostVars>>

(* The process dies, or its socket server returns: every connection and    *)
(* all of its RAM go with it, the files stay.                              *)
Exit ==
  /\ Alive /\ proc # "down"
  /\ proc' = "down" /\ http' = FALSE /\ boot' = NoBoot /\ loaded' = NoCreds
  /\ cell' = NoCreds /\ holder' = None
  /\ pc' = [t \in Tasks |-> "idle"] /\ req' = [t \in Tasks |-> NoRequest]
  /\ snap' = [t \in Tasks |-> NoCreds] /\ held' = [t \in Tasks |-> None]
  /\ todo' = [t \in Tasks |-> {}] /\ listed' = [t \in Tasks |-> {}]
  /\ reply' = [t \in Tasks |-> "none"]
  /\ asked' = None
  /\ runner' = IF runner = "scrubbing" THEN "idle" ELSE runner
  /\ UNCHANGED dir

-----------------------------------------------------------------------------
(* A connection is accepted and its request read completely. *)
Accept(t, q) ==
  /\ Serving /\ pc[t] = "idle"
  /\ q.op \in HttpOps => http
  /\ pc' = [pc EXCEPT ![t] = "arrived"]
  /\ req' = [req EXCEPT ![t] = q]
  /\ UNCHANGED <<dir, procVars, cell, holder, snap, held, todo, listed, reply>>

Arrive(t, q) == Accept(t, q) /\ UNCHANGED hostVars

(* The tasks that occupy a worker thread.  A git op runs its subprocess    *)
(* synchronously on one; a forge op awaits and occupies none.              *)
MutantBusy ==
  {t \in Tasks : pc[t] \notin {"idle", "arrived", "replied"}}
Busy ==
  {t \in Tasks : \/ pc[t] \in {"zeroed", "open_dir", "urls", "forge", "authz"}
                 \/ pc[t] = "running" /\ req[t].op = "git_op"}
WorkerFree == Cardinality(Busy) < Workers

Picked(t, ops) ==
  Serving /\ pc[t] = "arrived" /\ req[t].op \in ops /\ WorkerFree

Goto(t, next)    == pc' = [pc EXCEPT ![t] = next]
Answer(t, value) == Goto(t, "replied") /\ reply' = [reply EXCEPT ![t] = value]

MutantListCaps(t) ==
  /\ Picked(t, {"list_caps"})
  /\ listed' = [listed EXCEPT ![t] = CapNames(cell)]
  /\ Answer(t, "ok")
  /\ UNCHANGED <<dir, procVars, cell, holder, req, snap, held, todo, hostVars>>
ListCaps(t) ==
  /\ Picked(t, {"list_caps"}) /\ holder = None
  /\ listed' = [listed EXCEPT ![t] = CapNames(cell)]
  /\ Answer(t, "ok")
  /\ UNCHANGED <<dir, procVars, cell, holder, req, snap, held, todo, hostVars>>

(* What an op needs of its clone before it calls out.  A git op without a  *)
(* cap-URL falls back to the remote `origin`.                              *)
Provisioned(op, c) ==
  \/ op = "git_op"
  \/ op = "forge_provision" /\ ForgeConfigured /\ c.forge_admin_token # None
  \/ op = "forge_call" /\ ForgeConfigured /\ c.forge_owner # None

(* The op clones the creds under the mutex and calls out with the clone.   *)
MutantStartOp(t) ==
  /\ Picked(t, UpstreamOps)
  /\ Provisioned(req[t].op, cell)
  /\ snap' = [snap EXCEPT ![t] = cell]
  /\ Goto(t, "running")
  /\ UNCHANGED <<dir, procVars, cell, holder, req, held, todo, listed, reply, hostVars>>
StartOp(t) ==
  /\ Picked(t, UpstreamOps) /\ holder = None
  /\ Provisioned(req[t].op, cell)
  /\ snap' = [snap EXCEPT ![t] = cell]
  /\ Goto(t, "running")
  /\ UNCHANGED <<dir, procVars, cell, holder, req, held, todo, listed, reply, hostVars>>

RefuseOp(t) ==
  /\ Picked(t, UpstreamOps) /\ holder = None
  /\ ~Provisioned(req[t].op, cell)
  /\ Answer(t, "needs_credential")
  /\ UNCHANGED <<dir, procVars, cell, holder, req, snap, held, todo, listed, hostVars>>

(* The subprocess ends, or the forge answers; the clone is dropped.  A     *)
(* forge op needs a worker again to go on.                                 *)
FinishOp(t) ==
  /\ Serving /\ pc[t] = "running"
  /\ req[t].op \in ForgeOps => WorkerFree
  /\ snap' = [snap EXCEPT ![t] = NoCreds]
  /\ \E value \in {"ok", "error"} : Answer(t, value)
  /\ UNCHANGED <<dir, procVars, cell, holder, req, held, todo, listed, hostVars>>

-----------------------------------------------------------------------------
(* Creds::scrub under the mutex, in its two halves.  The socket op then    *)
(* replies; the HTTP op goes on to remove_cred_files.                      *)
ScrubCell(t) ==
  /\ Picked(t, ScrubOps) /\ holder = None
  /\ holder' = t
  /\ cell' = Overwritten(cell)
  /\ Goto(t, "zeroed")
  /\ UNCHANGED <<dir, procVars, req, snap, held, todo, listed, reply, hostVars>>

ScrubClear(t) ==
  /\ Serving /\ pc[t] = "zeroed"
  /\ holder' = None
  /\ cell' = Cleared(cell)
  /\ \/ req[t].op = "socket_scrub" /\ Answer(t, "ok")
     \/ req[t].op = "http_scrub" /\ Goto(t, "open_dir") /\ UNCHANGED reply
  /\ UNCHANGED <<dir, procVars, req, snap, held, todo, listed, hostVars>>

ListUrls(t) ==
  /\ Serving /\ pc[t] = "open_dir"
  /\ \E S \in Listings : todo' = [todo EXCEPT ![t] = S]
  /\ Goto(t, "urls")
  /\ UNCHANGED <<dir, procVars, cell, holder, req, snap, held, listed, reply, hostVars>>

(* Nobody looks at the outcome of a removal. *)
Remove(without) == dir' = without \/ (IoFails /\ UNCHANGED dir)

RemoveUrl(t, r) ==
  /\ Serving /\ pc[t] = "urls" /\ r \in todo[t]
  /\ Remove([dir EXCEPT !.url[r] = None])
  /\ todo' = [todo EXCEPT ![t] = @ \ {r}]
  /\ UNCHANGED <<procVars, cell, holder, pc, req, snap, held, listed, reply, hostVars>>

(* The two reserved files follow, in the order of SCRUBBED_CAP_FILES. *)
MutantRemoveAuthkeys(t) ==
  /\ Serving /\ pc[t] = "urls" /\ todo[t] = {}
  /\ Goto(t, "forge")
  /\ UNCHANGED <<dir, procVars, cell, holder, req, snap, held, todo, listed, reply, hostVars>>
RemoveAuthkeys(t) ==
  /\ Serving /\ pc[t] = "urls" /\ todo[t] = {}
  /\ Remove([dir EXCEPT !.authkeys = None])
  /\ Goto(t, "forge")
  /\ UNCHANGED <<procVars, cell, holder, req, snap, held, todo, listed, reply, hostVars>>

MutantRemoveForge(t) ==
  /\ Serving /\ pc[t] = "forge"
  /\ Remove([dir EXCEPT !.forge = None])
  /\ IF dir' = NoFiles THEN Answer(t, "ok") ELSE Goto(t, "open_dir") /\ UNCHANGED reply
  /\ UNCHANGED <<procVars, cell, holder, req, snap, held, todo, listed, hostVars>>
RemoveForge(t) ==
  /\ Serving /\ pc[t] = "forge"
  /\ Remove([dir EXCEPT !.forge = None])
  /\ Answer(t, "ok")
  /\ UNCHANGED <<procVars, cell, holder, req, snap, held, todo, listed, hostVars>>

-----------------------------------------------------------------------------
(* add-key reads the cap afresh, then compares.  "ok" stands for everything *)
(* past the authorization.                                                  *)
ReadCap(t) ==
  /\ Picked(t, {"add_key"})
  /\ held' = [held EXCEPT ![t] = Trimmed(dir.authkeys)]
  /\ Goto(t, "authz")
  /\ UNCHANGED <<dir, procVars, cell, holder, req, snap, todo, listed, reply, hostVars>>

MutantAuthorized(cap, token) == cap = token
Authorized(cap, token) == cap # None /\ token # None /\ cap = token

Authorize(t) ==
  /\ Serving /\ pc[t] = "authz"
  /\ held' = [held EXCEPT ![t] = None]
  /\ Answer(t, IF Authorized(held[t], req[t].token) THEN "ok" ELSE "unauthorized")
  /\ UNCHANGED <<dir, procVars, cell, holder, req, snap, todo, listed, hostVars>>

-----------------------------------------------------------------------------
(* The reply is written, or its client is gone; the connection ends.       *)
Hangup(t) ==
  /\ Serving /\ pc[t] = "replied" /\ WorkerFree
  /\ Goto(t, "idle")
  /\ req' = [req EXCEPT ![t] = NoRequest]
  /\ listed' = [listed EXCEPT ![t] = {}]
  /\ reply' = [reply EXCEPT ![t] = "none"]
  /\ UNCHANGED <<dir, procVars, cell, holder, snap, held, todo>>

Deliver(t) ==
  /\ Hangup(t)
  /\ IF asked = t THEN asked' = None /\ runner' = "granted" ELSE UNCHANGED hostVars

LoseReply(t) ==
  /\ Hangup(t)
  /\ IF asked = t THEN asked' = None /\ runner' = "idle" ELSE UNCHANGED hostVars

-----------------------------------------------------------------------------
(* The runner posts the scrub, and pauses the machine once it is answered. *)
AskScrub(t) ==
  /\ runner = "idle"
  /\ Accept(t, ScrubRequest)
  /\ runner' = "scrubbing" /\ asked' = t

GiveUp ==
  /\ runner \in {"scrubbing", "granted"}
  /\ runner' = "idle" /\ asked' = None
  /\ UNCHANGED <<dir, procVars, cell, holder, taskVars>>

Pause ==
  /\ runner = "granted"
  /\ runner' = "paused"
  /\ UNCHANGED <<dir, procVars, cell, holder, taskVars, asked>>

(* The warm restore resumes exactly what was frozen. *)
Restore ==
  /\ runner = "paused"
  /\ runner' = "idle"
  /\ UNCHANGED <<dir, procVars, cell, holder, taskVars, asked>>

-----------------------------------------------------------------------------
Supervisor ==
  \/ \E r \in Repos, content \in CapUrls \cup {Blank} : WriteUrl(r, content)
  \/ ForgeSecrets # {} /\ (\E content \in ForgeSecrets \cup {Blank} : WriteForge(content))
  \/ \E content \in AuthCaps \cup {Blank} : WriteAuthkeys(content)

Process ==
  \/ Start \/ OpenCapsDir \/ (\E r \in Repos : ScanEntry(r)) \/ Serve
  \/ HttpExit \/ Exit

(* What the broker itself does for a request, upstream calls left out. *)
Handle(t) ==
  \/ ListCaps(t) \/ StartOp(t) \/ RefuseOp(t)
  \/ ScrubCell(t) \/ ScrubClear(t) \/ ListUrls(t)
  \/ (\E r \in Repos : RemoveUrl(t, r)) \/ RemoveAuthkeys(t) \/ RemoveForge(t)
  \/ ReadCap(t) \/ Authorize(t) \/ Deliver(t) \/ LoseReply(t)

Runner == (\E t \in Tasks : AskScrub(t)) \/ GiveUp \/ Pause \/ Restore

Next ==
  \/ Supervisor \/ Process \/ Runner
  \/ \E t \in Tasks :
       Handle(t) \/ FinishOp(t) \/ \E q \in Requests : Arrive(t, q)

Spec == Init /\ [][Next]_vars

(* The runtime's queues and the mutex let every task that can go on again  *)
(* and again go on at last; git subprocesses end.  Forge calls have no     *)
(* timeout and may hang for ever.                                          *)
GitFinishes(t) == req[t].op = "git_op" /\ FinishOp(t)
Fairness == \A t \in Tasks : SF_vars(Handle(t)) /\ WF_vars(GitFinishes(t))
FairSpec == Spec /\ Fairness

-----------------------------------------------------------------------------
(* Every variable has the shape the code gives it; the mutex is held by    *)
(* nobody or by a task, and Creds::load assembles well-formed creds.       *)
TypeOK ==
  /\ dir \in CapFiles
  /\ proc \in {"down", "opening", "scanning", "serving"}
  /\ http \in BOOLEAN
  /\ boot \in [forge : BOOLEAN, entries : SUBSET Repos,
              got : [Repos -> CapUrls \cup {None}]]
  /\ cell \in CredsType /\ loaded \in CredsType
  /\ holder \in Tasks \cup {None}
  /\ pc \in [Tasks -> PcValues]
  /\ req \in [Tasks -> Requests \cup {NoRequest}]
  /\ snap \in [Tasks -> CredsType]
  /\ held \in [Tasks -> AuthCaps \cup {None}]
  /\ todo \in [Tasks -> SUBSET Repos]
  /\ listed \in [Tasks -> SUBSET ({<<"git", r>> : r \in Repos} \cup {<<"forge">>})]
  /\ reply \in [Tasks -> {"none", "ok", "error", "needs_credential", "unauthorized"}]
  /\ runner \in {"idle", "scrubbing", "granted", "paused"}
  /\ asked \in Tasks \cup {None}

(* The clone an op works with is either everything this process loaded or  *)
(* nothing at all: no op ever calls out with a half-scrubbed mixture of    *)
(* overwritten and live strings (dispatch.rs clones under the mutex).      *)
AtomicView == \A t \in Tasks : snap[t] \in {NoCreds, loaded}

(* When the runner has its answer, and for as long as the machine is       *)
(* frozen, nothing a later request or a restarted broker would load or see *)
(* is a secret: not the cell, not the caps directory, not a boot that is   *)
(* half way through Creds::load (http_ctrl.rs, handle_scrub).              *)
GrantedMeansGone ==
  runner \in {"granted", "paused"} =>
    /\ SecretsIn(cell) = {}
    /\ SecretsOnDisk(dir) = {}
    /\ boot.got = NoUrls

(* From the answer to the runner's scrub until the machine resumes nobody  *)
(* gets hold of a secret any more: no op that starts, no add-key, no       *)
(* restarted broker.  All that a frozen machine can hold is what ops in    *)
(* flight held already when the scrub was answered (handle_scrub,          *)
(* dispatch, read_authkeys_cap).                                           *)
NothingNewOnceGranted ==
  [][{runner, runner'} \subseteq {"granted", "paused"} =>
       \A t \in Tasks : /\ SecretsIn(snap'[t]) \subseteq SecretsIn(snap[t])
                        /\ held'[t] \in {held[t], None}]_vars

(* A request that was read is answered, or its process dies, or the        *)
(* machine is paused: only a forge call may keep it for ever, and then it  *)
(* keeps nobody else (dispatch.rs: the mutex is not held across an await). *)
RequestServed ==
  \A t \in Tasks :
    pc[t] = "arrived" ~> \/ pc[t] = "idle"
                         \/ pc[t] = "running" /\ req[t].op \in ForgeOps
                         \/ runner = "paused"

(* Whose handler can go on at once: those that have a worker, and those    *)
(* that find one, and the mutex free if they need it.                      *)
Ready(t) ==
  \/ pc[t] \in {"zeroed", "open_dir", "urls", "forge", "authz"}
  \/ pc[t] = "replied" /\ WorkerFree
  \/ pc[t] = "arrived" /\ WorkerFree /\ (holder = None \/ req[t].op = "add_key")

(* No deadlock: whenever a request or a reply waits, some handler can go   *)
(* on, or git is running.  Nobody waits for the mutex of a task that waits *)
(* for a worker, and a hanging forge keeps neither (dispatch.rs: no guard  *)
(* lives across an await; http_ctrl.rs, handle_scrub).                     *)
NobodyWaitsInVain ==
  Serving /\ (\E t \in Tasks : pc[t] \notin {"idle", "running"}) =>
    \E u \in Tasks : Ready(u) \/ (pc[u] = "running" /\ req[u].op = "git_op")

(* How many steps a handler has left before its connection ends: where it  *)
(* stands, and which `.url` entries it has still to remove.                *)
StepsLeft(at, urls) ==
  CASE at = "idle"                         -> 0
    [] at = "replied"                      -> 1
    [] at \in {"forge", "running", "authz"} -> 2
    [] at = "urls"                         -> 3 + Cardinality(urls)
    [] at = "open_dir"                     -> 4 + Cardinality(Repos)
    [] at = "zeroed"                       -> 5 + Cardinality(Repos)
    [] at = "arrived"                      -> 6 + Cardinality(Repos)
Left(t) == StepsLeft(pc[t], todo[t])

(* No handler goes round: whatever fails and whoever interferes, wherever  *)
(* it moves it has fewer steps left, so that a request is answered within  *)
(* a number of steps that depends on the caps directory only, the scrub of *)
(* a directory that will not be emptied included (dispatch.rs;             *)
(* http_ctrl.rs, remove_cred_files).                                       *)
HandlersAdvance ==
  [][\A t \in Tasks :
       \/ UNCHANGED <<pc[t], todo[t]>>
       \/ pc[t] = "idle"
       \/ Left(t)' < Left(t)]_vars

(* The contract's view of the broker: what a later request would see, or a *)
(* boot under way has read; what is on disk; and the runner's protocol.    *)
RamHolds  == SecretsIn(cell) # {} \/ boot.got # NoUrls
DiskHolds == SecretsOnDisk(dir) # {}
Phase == CASE runner = "idle"      -> "open"
           [] runner = "scrubbing" -> "requested"
           [] runner = "granted"   -> "granted"
           [] runner = "paused"    -> "frozen"

Contract == INSTANCE ScrubContract
  WITH ram <- RamHolds, disk <- DiskHolds, phase <- Phase, Reliable <- ~IoFails

(* The broker keeps the contract with the snapshot runner, step by step:   *)
(* secrets come from the directory only, the grant finds none in RAM and,  *)
(* where files can be removed, none on disk, and nothing moves while the   *)
(* machine is frozen (http_ctrl.rs, creds.rs, main.rs).                    *)
ImplementsContract == Contract!Spec

(* To the requests a scrub is over when its first half has the mutex: the  *)
(* second half is never seen.                                              *)
SeenOfCell == IF holder = None THEN cell ELSE NoCreds

Cell == INSTANCE AtomicCell
  WITH Clients <- Tasks, Nothing <- NoCreds, Names <- [c \in CredsType |-> CapNames(c)],
       up <- (proc = "serving"), origin <- loaded, view <- SeenOfCell,
       clone <- snap, named <- listed

(* The creds behind the mutex are linearizable: every clone, every list of *)
(* names and every scrub, overlapping as they may, takes effect as if at   *)
(* one moment (dispatch.rs; creds.rs, scrub; main.rs).                     *)
ImplementsAtomicCell == Cell!Spec

-----------------------------------------------------------------------------
(* The inductive invariant behind AtomicView and GrantedMeansGone.         *)

(* The mutex is held across a step only between the two halves of a scrub. *)
MutexHeld == \A t \in Tasks : holder = t <=> pc[t] = "zeroed"

(* A process that is not serving yet has no connection and no creds.       *)
NothingBeforeServing ==
  /\ proc # "serving" =>
       /\ cell = NoCreds /\ loaded = NoCreds /\ runner # "scrubbing"
       /\ \A t \in Tasks : pc[t] = "idle" /\ snap[t] = NoCreds
  /\ proc # "scanning" => boot.got = NoUrls

(* Whoever finds the mutex free finds the creds whole or gone. *)
CellAllOrNothing == holder = None => cell \in {NoCreds, loaded}

OpAtPc ==
  \A t \in Tasks : /\ pc[t] = "running" => req[t].op \in UpstreamOps
                   /\ pc[t] = "authz" => req[t].op = "add_key"

(* The cell of a process never fills again once a scrub went through it. *)
ClearedByScrub ==
  \A t \in Tasks :
    \/ pc[t] \in {"open_dir", "urls", "forge"}
    \/ pc[t] = "replied" /\ req[t].op \in ScrubOps
    => cell = NoCreds

(* How far the scrub the runner waits for has emptied the directory, if    *)
(* nothing fails; the supervisor refills nothing meanwhile.                *)
AskedScrub ==
  /\ runner = "scrubbing" =>
       /\ asked \in Tasks /\ req[asked].op = "http_scrub"
       /\ pc[asked] \in {"arrived", "zeroed", "open_dir", "urls", "forge", "replied"}
       /\ ~IoFails =>
            /\ pc[asked] = "urls" => UrlsPresent \subseteq todo[asked]
            /\ pc[asked] \in {"forge", "replied"} => dir.url = NoUrls /\ dir.authkeys = None
            /\ pc[asked] = "replied" => dir.forge = None
  /\ runner # "scrubbing" => asked = None

EmptyOnceGranted ==
  ~IoFails /\ runner \in {"granted", "paused"} =>
    dir = NoFiles /\ cell = NoCreds /\ boot.got = NoUrls

IInv ==
  /\ TypeOK /\ MutexHeld /\ NothingBeforeServing /\ CellAllOrNothing /\ AtomicView
  /\ OpAtPc /\ ClearedByScrub /\ AskedScrub /\ EmptyOnceGranted

-----------------------------------------------------------------------------
(* What the repository says and the code does not do: a run finds it       *)
(* violated.                                                               *)

(* "drop ALL in-RAM creds so the Full snapshot freezes no secret": the     *)
(* frozen machine holds none, clones of ops still in flight included       *)
(* (dispatch.rs, creds.rs, http_ctrl.rs).                                  *)
FrozenHoldsNothing ==
  runner = "paused" =>
    \A t \in Tasks : SecretsIn(snap[t]) = {} /\ held[t] = None
=============================================================================
