--------------------------- MODULE CustodyProofs ---------------------------
(***************************************************************************)
(* Machine-checked proofs about Custody, for every set of repositories,    *)
(* secrets, connections and every number of workers.                       *)
(***************************************************************************)
EXTENDS Custody, FiniteSetTheorems, TLAPS

-----------------------------------------------------------------------------
(* Lemmas about the credential data.                                       *)

(* The empty creds are well formed (Creds::default).                       *)
LEMMA NoCredsTyped == NoCreds \in CredsType
  BY DEF NoCreds, CredsType, NoUrls

(* So is an empty caps directory.                                          *)
LEMMA NoFilesTyped == NoFiles \in CapFiles
  BY DEF NoFiles, CapFiles, NoUrls

(* Reading a file yields a secret of that file's kind, or nothing. *)
LEMMA TrimmedUrl ==
  ASSUME NEW content \in CapUrls \cup {None, Blank}
  PROVE  Trimmed(content) \in CapUrls \cup {None}
  BY CredsAssumption DEF Trimmed, Secrets

(* The same of the add-key cap (read_authkeys_cap).                        *)
LEMMA TrimmedAuthkeys ==
  ASSUME NEW content \in AuthCaps \cup {None, Blank}
  PROVE  Trimmed(content) \in AuthCaps \cup {None}
  BY CredsAssumption DEF Trimmed, Secrets

(* The same of the forge secret.                                           *)
LEMMA TrimmedForge ==
  ASSUME NEW content \in ForgeSecrets \cup {None, Blank}
  PROVE  Trimmed(content) \in ForgeSecrets \cup {None}
  BY CredsAssumption DEF Trimmed, Secrets

(* Creds::load assembles well-formed creds, and none from an empty         *)
(* directory.                                                              *)
LEMMA LoadedTyped ==
  ASSUME NEW caps \in [Repos -> CapUrls \cup {None}],
         NEW content \in ForgeSecrets \cup {None, Blank}
  PROVE  Loaded(caps, content) \in CredsType
<1>1. Trimmed(content) \in ForgeSecrets \cup {None}
  BY TrimmedForge
<1>2. OwnerOf(Trimmed(content)) \in OwnerBlobs \cup {None}
  BY DEF OwnerOf
<1>3. caps \in [Repos -> CapUrls \cup {None, Zeroed}]
  OBVIOUS
<1> QED
  BY <1>1, <1>2, <1>3 DEF Loaded, CredsType

(* From an empty directory nothing is loaded (Creds::load).                *)
LEMMA LoadedNothing == Loaded(NoUrls, None) = NoCreds
<1>1. None \notin Secrets /\ None \notin OwnerBlobs
  BY CredsAssumption DEF Secrets, ForgeSecrets
<1> QED
  BY <1>1 DEF Loaded, Trimmed, OwnerOf, NoCreds

(* Both halves of the scrub keep the creds well formed; the second leaves  *)
(* nothing.                                                                *)
LEMMA OverwrittenTyped ==
  ASSUME NEW c \in CredsType
  PROVE  Overwritten(c) \in CredsType
  BY DEF CredsType, Overwritten, OverwrittenString

(* The second half of a scrub leaves the empty creds (Creds::scrub).       *)
LEMMA ClearedIsNothing ==
  ASSUME NEW c \in CredsType
  PROVE  Cleared(c) = NoCreds
<1>1. Cleared(c) \in CredsType
  BY DEF Cleared, CredsType, NoUrls
<1>2. /\ Cleared(c).git_caps = NoUrls
      /\ Cleared(c).forge_admin_token = None
      /\ Cleared(c).forge_owner = None
  BY DEF Cleared, CredsType
<1>3. \A d \in CredsType :
        d = [git_caps |-> d.git_caps, forge_admin_token |-> d.forge_admin_token,
             forge_owner |-> d.forge_owner]
  BY DEF CredsType
<1> QED
  BY <1>1, <1>2, <1>3 DEF NoCreds

(* Scrubbing what is scrubbed already changes nothing. *)
LEMMA OverwrittenNothing == Overwritten(NoCreds) = NoCreds
  BY DEF Overwritten, OverwrittenString, NoCreds, NoUrls

(* Empty creds and an empty directory hold no secret. *)
LEMMA NothingSecret == SecretsIn(NoCreds) = {} /\ SecretsOnDisk(NoFiles) = {}
  BY CredsAssumption DEF SecretsIn, SecretsOnDisk, NoCreds, NoFiles, NoUrls

-----------------------------------------------------------------------------
(* Type correctness.                                                       *)

USE DEF taskVars, procVars, hostVars

(* The machine starts well formed.                                         *)
LEMMA TypeInit == Init => TypeOK
<1> SUFFICES ASSUME Init PROVE TypeOK
  OBVIOUS
<1> USE DEF Init
<1>1. dir \in CapFiles /\ cell \in CredsType /\ loaded \in CredsType
  BY NoCredsTyped, NoFilesTyped
<1>2. snap \in [Tasks -> CredsType]
  BY NoCredsTyped
<1>3. boot \in [forge : BOOLEAN, entries : SUBSET Repos,
                got : [Repos -> CapUrls \cup {None}]]
  BY DEF NoBoot, NoUrls
<1> QED
  BY <1>1, <1>2, <1>3 DEF TypeOK, PcValues

(* One step of a request handler, stated apart: the actions are many.      *)
LEMMA TypeHandle ==
  ASSUME TypeOK, NEW t \in Tasks, Handle(t)
  PROVE  TypeOK'
<1> USE DEF TypeOK, Goto, Answer, Picked, PcValues
<1>1. CASE ListCaps(t)
  BY <1>1 DEF ListCaps, CapNames
<1>2. CASE StartOp(t)
  BY <1>2 DEF StartOp
<1>3. CASE RefuseOp(t)
  BY <1>3 DEF RefuseOp
<1>4. CASE ScrubCell(t)
  BY <1>4, OverwrittenTyped DEF ScrubCell
<1>5. CASE ScrubClear(t)
  <2>1. cell' = NoCreds
    BY <1>5, ClearedIsNothing DEF ScrubClear
  <2> QED
    BY <1>5, <2>1, NoCredsTyped DEF ScrubClear
<1>6. CASE ListUrls(t)
  BY <1>6 DEF ListUrls, Listings
<1>7. ASSUME NEW r \in Repos, RemoveUrl(t, r) PROVE TypeOK'
  BY <1>7 DEF Remove, RemoveUrl, CapFiles
<1>8. CASE RemoveAuthkeys(t)
  BY <1>8 DEF Remove, RemoveAuthkeys, CapFiles
<1>9. CASE RemoveForge(t)
  BY <1>9 DEF Remove, RemoveForge, CapFiles
<1>10. CASE ReadCap(t)
  <2>1. Trimmed(dir.authkeys) \in AuthCaps \cup {None}
    BY TrimmedAuthkeys DEF CapFiles
  <2> QED
    BY <1>10, <2>1 DEF ReadCap
<1>11. CASE Authorize(t)
  BY <1>11 DEF Authorize
<1>12. ASSUME Hangup(t), \/ UNCHANGED hostVars
                         \/ asked' = None /\ runner' \in {"idle", "granted"}
       PROVE  TypeOK'
  BY <1>12 DEF Hangup
<1> QED
  BY <1>1, <1>2, <1>3, <1>4, <1>5, <1>6, <1>7, <1>8, <1>9, <1>10, <1>11, <1>12
  DEF Handle, Deliver, LoseReply

(* A request that is accepted keeps the types (serve, handle_conn).        *)
LEMMA TypeAccept ==
  ASSUME TypeOK, NEW t \in Tasks, NEW q \in Requests, Accept(t, q),
         \/ UNCHANGED hostVars
         \/ runner' = "scrubbing" /\ asked' = t
  PROVE  TypeOK'
  BY DEF TypeOK, Accept, PcValues

(* Start, load and end of the process keep the types (main).               *)
LEMMA TypeProcess ==
  ASSUME TypeOK, Process
  PROVE  TypeOK'
<1> USE DEF TypeOK
<1>1. CASE Start
  BY <1>1 DEF Start, NoBoot, NoUrls
<1>2. CASE OpenCapsDir
  BY <1>2 DEF OpenCapsDir, Listings
<1>3. ASSUME NEW r \in Repos, ScanEntry(r) PROVE TypeOK'
  <2>1. Trimmed(dir.url[r]) \in CapUrls \cup {None}
    BY TrimmedUrl DEF CapFiles
  <2> QED
    BY <1>3, <2>1 DEF ScanEntry
<1>4. CASE Serve
  <2>1. loaded' \in CredsType
    BY <1>4, LoadedTyped DEF Serve, CapFiles
  <2> QED
    BY <1>4, <2>1 DEF Serve, NoBoot, NoUrls
<1>5. CASE HttpExit
  BY <1>5 DEF HttpExit
<1>6. CASE Exit
  BY <1>6, NoCredsTyped DEF Exit, NoBoot, NoUrls, PcValues
<1> QED
  BY <1>1, <1>2, <1>3, <1>4, <1>5, <1>6 DEF Process

(* Every step keeps the types.                                             *)
LEMMA TypeNext == TypeOK /\ [Next]_vars => TypeOK'
<1> SUFFICES ASSUME TypeOK, [Next]_vars PROVE TypeOK'
  OBVIOUS
<1>1. CASE Supervisor
  BY <1>1 DEF Supervisor, WriteUrl, WriteForge, WriteAuthkeys, TypeOK, CapFiles
<1>2. CASE Process
  BY <1>2, TypeProcess
<1>3. CASE Runner
  <2>1. ScrubRequest \in Requests
    BY DEF ScrubRequest, Requests, ScrubOps
  <2>2. ASSUME NEW t \in Tasks, AskScrub(t) PROVE TypeOK'
    BY <2>1, <2>2, TypeAccept DEF AskScrub
  <2>3. CASE GiveUp \/ Pause \/ Restore
    BY <2>3 DEF GiveUp, Pause, Restore, TypeOK
  <2> QED
    BY <1>3, <2>2, <2>3 DEF Runner
<1>4. ASSUME NEW t \in Tasks, Handle(t) PROVE TypeOK'
  BY <1>4, TypeHandle
<1>5. ASSUME NEW t \in Tasks, FinishOp(t) PROVE TypeOK'
  BY <1>5, NoCredsTyped DEF FinishOp, Goto, Answer, TypeOK, PcValues
<1>6. ASSUME NEW t \in Tasks, NEW q \in Requests, Arrive(t, q) PROVE TypeOK'
  BY <1>6, TypeAccept DEF Arrive
<1>7. CASE UNCHANGED vars
  BY <1>7 DEF vars, TypeOK
<1> QED
  BY <1>1, <1>2, <1>3, <1>4, <1>5, <1>6, <1>7 DEF Next

(* Every reachable state of the broker and its surroundings is well typed. *)
THEOREM TypeCorrect == Spec => []TypeOK
  BY TypeInit, TypeNext, PTL DEF Spec

-----------------------------------------------------------------------------
(* The inductive invariant, one lemma per part.                            *)

(* The mutex stays with the task between the two halves of its scrub.      *)
LEMMA MutexHeldNext == IInv /\ [Next]_vars => MutexHeld'
<1> SUFFICES ASSUME IInv, [Next]_vars PROVE MutexHeld'
  OBVIOUS
<1> USE DEF IInv, TypeOK, MutexHeld
<1>1. CASE Supervisor
  BY <1>1 DEF Supervisor, WriteUrl, WriteForge, WriteAuthkeys
<1>2. CASE Process
  BY <1>2, CustodyAssumption
  DEF Process, Start, OpenCapsDir, ScanEntry, Serve, HttpExit, Exit
<1>3. CASE Runner
  BY <1>3 DEF Runner, AskScrub, Accept, GiveUp, Pause, Restore
<1>4. ASSUME NEW t \in Tasks, Handle(t) PROVE MutexHeld'
  BY <1>4, CustodyAssumption DEF Handle, ListCaps, StartOp, RefuseOp, ScrubCell, ScrubClear,
     ListUrls, Remove, RemoveUrl, RemoveAuthkeys, RemoveForge, ReadCap, Authorize, Deliver, LoseReply,
     Hangup, Goto, Answer, Picked
<1>5. ASSUME NEW t \in Tasks, FinishOp(t) PROVE MutexHeld'
  BY <1>5 DEF FinishOp, Goto, Answer
<1>6. ASSUME NEW t \in Tasks, NEW q \in Requests, Arrive(t, q) PROVE MutexHeld'
  BY <1>6 DEF Arrive, Accept
<1>7. CASE UNCHANGED vars
  BY <1>7 DEF vars
<1> QED
  BY <1>1, <1>2, <1>3, <1>4, <1>5, <1>6, <1>7 DEF Next

(* Until it serves, a process has neither connections nor creds.           *)
LEMMA NothingBeforeServingNext == IInv /\ [Next]_vars => NothingBeforeServing'
<1> SUFFICES ASSUME IInv, [Next]_vars PROVE NothingBeforeServing'
  OBVIOUS
<1> USE DEF IInv, TypeOK, NothingBeforeServing
<1>1. CASE Supervisor
  BY <1>1 DEF Supervisor, WriteUrl, WriteForge, WriteAuthkeys
<1>2. CASE Process
  <2>1. CASE Start \/ OpenCapsDir
    BY <2>1 DEF Start, OpenCapsDir, NoBoot
  <2>2. ASSUME NEW r \in Repos, ScanEntry(r) PROVE NothingBeforeServing'
    BY <2>2 DEF ScanEntry
  <2>3. CASE Serve \/ HttpExit
    BY <2>3 DEF Serve, HttpExit, Serving, NoBoot
  <2>4. CASE Exit
    BY <2>4 DEF Exit, NoBoot
  <2> QED
    BY <1>2, <2>1, <2>2, <2>3, <2>4 DEF Process
<1>3. CASE Runner
  BY <1>3 DEF Runner, AskScrub, Accept, Serving, GiveUp, Pause, Restore
<1>4. ASSUME NEW t \in Tasks, Handle(t) PROVE NothingBeforeServing'
  BY <1>4 DEF Handle, ListCaps, StartOp, RefuseOp, ScrubCell, ScrubClear,
     ListUrls, Remove, RemoveUrl, RemoveAuthkeys, RemoveForge, ReadCap, Authorize, Deliver, LoseReply,
     Hangup, Goto, Answer, Picked, Serving
<1>5. ASSUME NEW t \in Tasks, FinishOp(t) PROVE NothingBeforeServing'
  BY <1>5 DEF FinishOp, Goto, Answer, Serving
<1>6. ASSUME NEW t \in Tasks, NEW q \in Requests, Arrive(t, q) PROVE NothingBeforeServing'
  BY <1>6 DEF Arrive, Accept, Serving
<1>7. CASE UNCHANGED vars
  BY <1>7 DEF vars
<1> QED
  BY <1>1, <1>2, <1>3, <1>4, <1>5, <1>6, <1>7 DEF Next

(* Whoever frees the mutex leaves the creds whole or gone.                 *)
LEMMA CellAllOrNothingNext == IInv /\ [Next]_vars => CellAllOrNothing'
<1> SUFFICES ASSUME IInv, [Next]_vars PROVE CellAllOrNothing'
  OBVIOUS
<1> USE DEF IInv, TypeOK, CellAllOrNothing
<1>1. CASE Supervisor
  BY <1>1 DEF Supervisor, WriteUrl, WriteForge, WriteAuthkeys
<1>2. CASE Process
  BY <1>2 DEF Process, Start, OpenCapsDir, ScanEntry, Serve, HttpExit, Exit
<1>3. CASE Runner
  BY <1>3 DEF Runner, AskScrub, Accept, GiveUp, Pause, Restore
<1>4. ASSUME NEW t \in Tasks, Handle(t) PROVE CellAllOrNothing'
  <2>1. CASE ScrubClear(t)
    BY <2>1, ClearedIsNothing DEF ScrubClear
  <2>2. CASE ScrubCell(t)
    BY <2>2, CustodyAssumption DEF ScrubCell
  <2> QED
    BY <1>4, <2>1, <2>2 DEF Handle, ListCaps, StartOp, RefuseOp, ScrubCell, ScrubClear,
     ListUrls, Remove, RemoveUrl, RemoveAuthkeys, RemoveForge, ReadCap, Authorize, Deliver, LoseReply,
     Hangup, Goto, Answer, Picked
<1>5. ASSUME NEW t \in Tasks, FinishOp(t) PROVE CellAllOrNothing'
  BY <1>5 DEF FinishOp, Goto, Answer
<1>6. ASSUME NEW t \in Tasks, NEW q \in Requests, Arrive(t, q) PROVE CellAllOrNothing'
  BY <1>6 DEF Arrive, Accept
<1>7. CASE UNCHANGED vars
  BY <1>7 DEF vars
<1> QED
  BY <1>1, <1>2, <1>3, <1>4, <1>5, <1>6, <1>7 DEF Next

(* A clone is made under the free mutex, so it is whole or empty.          *)
LEMMA AtomicViewNext == IInv /\ [Next]_vars => AtomicView'
<1> SUFFICES ASSUME IInv, [Next]_vars PROVE AtomicView'
  OBVIOUS
<1> USE DEF IInv, TypeOK, AtomicView
<1>1. CASE Supervisor
  BY <1>1 DEF Supervisor, WriteUrl, WriteForge, WriteAuthkeys
<1>2. CASE Process
  BY <1>2 DEF Process, Start, OpenCapsDir, ScanEntry, Serve, HttpExit, Exit, NothingBeforeServing, Serving
<1>3. CASE Runner
  BY <1>3 DEF Runner, AskScrub, Accept, GiveUp, Pause, Restore
<1>4. ASSUME NEW t \in Tasks, Handle(t) PROVE AtomicView'
  BY <1>4 DEF CellAllOrNothing, Handle, ListCaps, StartOp, RefuseOp, ScrubCell, ScrubClear,
     ListUrls, Remove, RemoveUrl, RemoveAuthkeys, RemoveForge, ReadCap, Authorize, Deliver, LoseReply,
     Hangup, Goto, Answer, Picked
<1>5. ASSUME NEW t \in Tasks, FinishOp(t) PROVE AtomicView'
  BY <1>5 DEF FinishOp, Goto, Answer
<1>6. ASSUME NEW t \in Tasks, NEW q \in Requests, Arrive(t, q) PROVE AtomicView'
  BY <1>6 DEF Arrive, Accept
<1>7. CASE UNCHANGED vars
  BY <1>7 DEF vars
<1> QED
  BY <1>1, <1>2, <1>3, <1>4, <1>5, <1>6, <1>7 DEF Next

(* A handler's place in the code stays that of its request.                *)
LEMMA OpAtPcNext == IInv /\ [Next]_vars => OpAtPc'
<1> SUFFICES ASSUME IInv, [Next]_vars PROVE OpAtPc'
  OBVIOUS
<1> USE DEF IInv, TypeOK, OpAtPc
<1>1. CASE Supervisor
  BY <1>1 DEF Supervisor, WriteUrl, WriteForge, WriteAuthkeys
<1>2. CASE Process
  BY <1>2 DEF Process, Start, OpenCapsDir, ScanEntry, Serve, HttpExit, Exit
<1>3. CASE Runner
  BY <1>3 DEF Runner, AskScrub, Accept, GiveUp, Pause, Restore
<1>4. ASSUME NEW t \in Tasks, Handle(t) PROVE OpAtPc'
  BY <1>4 DEF Handle, ListCaps, StartOp, RefuseOp, ScrubCell, ScrubClear,
     ListUrls, Remove, RemoveUrl, RemoveAuthkeys, RemoveForge, ReadCap, Authorize, Deliver, LoseReply,
     Hangup, Goto, Answer, Picked
<1>5. ASSUME NEW t \in Tasks, FinishOp(t) PROVE OpAtPc'
  BY <1>5 DEF FinishOp, Goto, Answer
<1>6. ASSUME NEW t \in Tasks, NEW q \in Requests, Arrive(t, q) PROVE OpAtPc'
  BY <1>6 DEF Arrive, Accept
<1>7. CASE UNCHANGED vars
  BY <1>7 DEF vars
<1> QED
  BY <1>1, <1>2, <1>3, <1>4, <1>5, <1>6, <1>7 DEF Next

(* Behind the first half of a scrub the cell stays empty.                  *)
LEMMA ClearedByScrubNext == IInv /\ [Next]_vars => ClearedByScrub'
<1> SUFFICES ASSUME IInv, [Next]_vars PROVE ClearedByScrub'
  OBVIOUS
<1> USE DEF IInv, TypeOK, ClearedByScrub
<1>1. CASE Supervisor
  BY <1>1 DEF Supervisor, WriteUrl, WriteForge, WriteAuthkeys
<1>2. CASE Process
  BY <1>2 DEF Process, Start, OpenCapsDir, ScanEntry, Serve, HttpExit, Exit, NothingBeforeServing, Serving
<1>3. CASE Runner
  BY <1>3 DEF Runner, AskScrub, Accept, GiveUp, Pause, Restore
<1>4. ASSUME NEW t \in Tasks, Handle(t) PROVE ClearedByScrub'
  <2>1. CASE ScrubClear(t)
    BY <2>1, ClearedIsNothing DEF ScrubClear, Goto, Answer
  <2>2. CASE ScrubCell(t)
    BY <2>2, OverwrittenNothing DEF ScrubCell, Goto
  <2> QED
    BY <1>4, <2>1, <2>2 DEF OpAtPc, UpstreamOps, ForgeOps, ScrubOps, Handle, ListCaps, StartOp, RefuseOp, ScrubCell, ScrubClear,
     ListUrls, Remove, RemoveUrl, RemoveAuthkeys, RemoveForge, ReadCap, Authorize, Deliver, LoseReply,
     Hangup, Goto, Answer, Picked
<1>5. ASSUME NEW t \in Tasks, FinishOp(t) PROVE ClearedByScrub'
  BY <1>5 DEF FinishOp, Goto, Answer, OpAtPc, UpstreamOps, ForgeOps, ScrubOps
<1>6. ASSUME NEW t \in Tasks, NEW q \in Requests, Arrive(t, q) PROVE ClearedByScrub'
  BY <1>6 DEF Arrive, Accept
<1>7. CASE UNCHANGED vars
  BY <1>7 DEF vars
<1> QED
  BY <1>1, <1>2, <1>3, <1>4, <1>5, <1>6, <1>7 DEF Next

(* The runner's scrub empties the directory as far as it has come.         *)
LEMMA AskedScrubNext == IInv /\ [Next]_vars => AskedScrub'
<1> SUFFICES ASSUME IInv, [Next]_vars PROVE AskedScrub'
  OBVIOUS
<1> USE DEF IInv, TypeOK, AskedScrub
<1>1. CASE Supervisor
  BY <1>1 DEF Supervisor, WriteUrl, WriteForge, WriteAuthkeys
<1>2. CASE Process
  <2>1. CASE Start \/ OpenCapsDir \/ Serve \/ HttpExit
    BY <2>1 DEF Start, OpenCapsDir, Serve, HttpExit, UrlsPresent
  <2>2. ASSUME NEW r \in Repos, ScanEntry(r) PROVE AskedScrub'
    BY <2>2 DEF ScanEntry, UrlsPresent
  <2>3. CASE Exit
    BY <2>3 DEF Exit
  <2> QED
    BY <1>2, <2>1, <2>2, <2>3 DEF Process
<1>3. CASE Runner
  <2>1. ASSUME NEW t \in Tasks, AskScrub(t) PROVE AskedScrub'
    BY <2>1 DEF AskScrub, Accept, ScrubRequest
  <2>2. CASE GiveUp \/ Pause \/ Restore
    BY <2>2 DEF GiveUp, Pause, Restore
  <2> QED
    BY <1>3, <2>1, <2>2 DEF Runner
<1>4. ASSUME NEW t \in Tasks, Handle(t) PROVE AskedScrub'
  <2> USE DEF Goto, Answer, Picked, UrlsPresent
  <2>1. CASE ListCaps(t) \/ StartOp(t) \/ RefuseOp(t) \/ ReadCap(t)
    BY <2>1 DEF ListCaps, StartOp, RefuseOp, ReadCap, UpstreamOps, ForgeOps
  <2>2. CASE ScrubCell(t)
    BY <2>2 DEF ScrubCell
  <2>3. CASE ScrubClear(t)
    BY <2>3 DEF ScrubClear
  <2>4. CASE ListUrls(t)
    BY <2>4 DEF ListUrls, Listings
  <2>5. ASSUME NEW r \in Repos, RemoveUrl(t, r) PROVE AskedScrub'
    BY <2>5 DEF Remove, RemoveUrl, CapFiles, NoUrls
  <2>6. CASE RemoveAuthkeys(t)
    BY <2>6 DEF Remove, RemoveAuthkeys, CapFiles, NoUrls
  <2>7. CASE RemoveForge(t)
    BY <2>7 DEF Remove, RemoveForge, CapFiles
  <2>8. CASE Authorize(t)
    BY <2>8 DEF Authorize
  <2>9. CASE Deliver(t) \/ LoseReply(t)
    BY <2>9 DEF Deliver, LoseReply, Hangup
  <2> QED
    BY <1>4, <2>1, <2>2, <2>3, <2>4, <2>5, <2>6, <2>7, <2>8, <2>9 DEF Handle
<1>5. ASSUME NEW t \in Tasks, FinishOp(t) PROVE AskedScrub'
  BY <1>5 DEF FinishOp, Goto, Answer, UrlsPresent
<1>6. ASSUME NEW t \in Tasks, NEW q \in Requests, Arrive(t, q) PROVE AskedScrub'
  BY <1>6 DEF Arrive, Accept, UrlsPresent
<1>7. CASE UNCHANGED vars
  BY <1>7 DEF vars, UrlsPresent
<1> QED
  BY <1>1, <1>2, <1>3, <1>4, <1>5, <1>6, <1>7 DEF Next

(* The grant is the step that needs everything before it: the scrub has    *)
(* emptied cell and directory, and a serving process is not loading.       *)
LEMMA EmptyOnceGrantedNext == IInv /\ [Next]_vars => EmptyOnceGranted'
<1> SUFFICES ASSUME IInv, [Next]_vars PROVE EmptyOnceGranted'
  OBVIOUS
<1> USE DEF IInv, TypeOK, EmptyOnceGranted
<1>1. CASE Supervisor
  BY <1>1 DEF Supervisor, WriteUrl, WriteForge, WriteAuthkeys
<1>2. CASE Process
  <2>1. CASE Start \/ OpenCapsDir \/ HttpExit
    BY <2>1 DEF Start, OpenCapsDir, HttpExit, NoBoot
  <2>2. ASSUME NEW r \in Repos, ScanEntry(r) PROVE EmptyOnceGranted'
    <3> SUFFICES ASSUME ~IoFails, runner \in {"granted", "paused"}
                 PROVE  boot'.got = NoUrls
      BY <2>2 DEF ScanEntry
    <3>1. dir.url[r] = None /\ boot.got = NoUrls
      BY DEF NoFiles, NoUrls
    <3>2. Trimmed(dir.url[r]) = None
      BY <3>1, CredsAssumption DEF Trimmed
    <3> QED
      BY <2>2, <3>1, <3>2 DEF ScanEntry, NoUrls
  <2>3. CASE Serve
    <3> SUFFICES ASSUME ~IoFails, runner \in {"granted", "paused"} PROVE cell' = NoCreds
      BY <2>3 DEF Serve, NoBoot
    <3>1. dir.forge = None /\ boot.got = NoUrls
      BY DEF NoFiles
    <3> QED
      BY <2>3, <3>1, LoadedNothing DEF Serve
  <2>4. CASE Exit
    BY <2>4 DEF Exit, NoBoot
  <2> QED
    BY <1>2, <2>1, <2>2, <2>3, <2>4 DEF Process
<1>3. CASE Runner
  BY <1>3 DEF Runner, AskScrub, Accept, GiveUp, Pause, Restore
<1>4. ASSUME NEW t \in Tasks, Handle(t) PROVE EmptyOnceGranted'
  <2> USE DEF Goto, Answer, Picked
  <2>1. CASE \/ ListCaps(t) \/ StartOp(t) \/ RefuseOp(t) \/ ListUrls(t)
             \/ ReadCap(t) \/ Authorize(t)
    BY <2>1 DEF ListCaps, StartOp, RefuseOp, ListUrls, ReadCap, Authorize
  <2>2. CASE ScrubCell(t)
    BY <2>2, OverwrittenNothing DEF ScrubCell
  <2>3. CASE ScrubClear(t)
    BY <2>3, ClearedIsNothing DEF ScrubClear
  <2>4. ASSUME NEW r \in Repos, RemoveUrl(t, r) PROVE EmptyOnceGranted'
    BY <2>4 DEF Remove, RemoveUrl, NoFiles, NoUrls
  <2>5. CASE RemoveAuthkeys(t) \/ RemoveForge(t)
    BY <2>5 DEF Remove, RemoveAuthkeys, RemoveForge, NoFiles
  <2>6. CASE Deliver(t)
    <3>1. CASE asked = t
      <4>1. runner = "scrubbing"
        BY <3>1, CustodyAssumption DEF AskedScrub
      <4>2. ~IoFails => dir = NoFiles
        BY <2>6, <3>1, <4>1 DEF Deliver, Hangup, AskedScrub, CapFiles, NoFiles
      <4>3. cell = NoCreds
        BY <2>6, <3>1, <4>1 DEF Deliver, Hangup, AskedScrub, ClearedByScrub, ScrubOps
      <4>4. boot.got = NoUrls
        BY <2>6 DEF Deliver, Hangup, Serving, NothingBeforeServing
      <4> QED
        BY <2>6, <4>2, <4>3, <4>4 DEF Deliver, Hangup
    <3>2. CASE asked # t
      BY <2>6, <3>2 DEF Deliver, Hangup
    <3> QED
      BY <3>1, <3>2
  <2>7. CASE LoseReply(t)
    BY <2>7 DEF LoseReply, Hangup
  <2> QED
    BY <1>4, <2>1, <2>2, <2>3, <2>4, <2>5, <2>6, <2>7 DEF Handle
<1>5. ASSUME NEW t \in Tasks, FinishOp(t) PROVE EmptyOnceGranted'
  BY <1>5 DEF FinishOp
<1>6. ASSUME NEW t \in Tasks, NEW q \in Requests, Arrive(t, q) PROVE EmptyOnceGranted'
  BY <1>6 DEF Arrive, Accept
<1>7. CASE UNCHANGED vars
  BY <1>7 DEF vars
<1> QED
  BY <1>1, <1>2, <1>3, <1>4, <1>5, <1>6, <1>7 DEF Next

(* The invariant holds of the empty machine.                               *)
LEMMA InvInit == Init => IInv
<1> SUFFICES ASSUME Init PROVE IInv
  OBVIOUS
<1>1. TypeOK
  BY TypeInit
<1>2. NothingBeforeServing /\ CellAllOrNothing /\ AtomicView /\ MutexHeld
  BY CustodyAssumption
  DEF Init, NoBoot, NothingBeforeServing, CellAllOrNothing, AtomicView, MutexHeld
<1>3. OpAtPc /\ ClearedByScrub /\ AskedScrub /\ EmptyOnceGranted
  BY DEF Init, OpAtPc, ClearedByScrub, AskedScrub, EmptyOnceGranted
<1> QED
  BY <1>1, <1>2, <1>3 DEF IInv

(* And each step preserves its parts, one lemma for each.                  *)
LEMMA InvNext == IInv /\ [Next]_vars => IInv'
<1> SUFFICES ASSUME IInv, [Next]_vars PROVE IInv'
  OBVIOUS
<1>1. TypeOK'
  BY TypeNext DEF IInv
<1> QED
  BY <1>1, MutexHeldNext, NothingBeforeServingNext, CellAllOrNothingNext, AtomicViewNext,
     OpAtPcNext, ClearedByScrubNext, AskedScrubNext, EmptyOnceGrantedNext
  DEF IInv

(* Every step of every component keeps the inductive invariant.            *)
THEOREM Invariant == Spec => []IInv
  BY InvInit, InvNext, PTL DEF Spec

-----------------------------------------------------------------------------
(* The safety theorems.                                                    *)

(* Whatever the interleaving of connections, crashes and restarts, no op   *)
(* calls out with a clone that is neither all this process loaded nor      *)
(* empty.                                                                  *)
THEOREM OpsSeeWholeCreds == Spec => []AtomicView
<1>1. IInv => AtomicView
  BY DEF IInv
<1> QED
  BY <1>1, Invariant, PTL

(* From the answer to the runner's scrub until the machine resumes, no     *)
(* secret is left where a later request or a restarted broker would find   *)
(* it, provided that listing and removing the files work.                  *)
THEOREM ScrubLeavesNothing ==
  ASSUME ~IoFails
  PROVE  Spec => []GrantedMeansGone
<1>1. IInv => GrantedMeansGone
  BY NothingSecret DEF IInv, EmptyOnceGranted, GrantedMeansGone
<1> QED
  BY <1>1, Invariant, PTL

-----------------------------------------------------------------------------
(* Refinement: Custody implements ScrubContract.                           *)

(* Overwriting leaves no live secret, and an empty directory loads none.   *)
LEMMA OverwrittenHoldsNothing ==
  ASSUME NEW c \in CredsType
  PROVE  SecretsIn(Overwritten(c)) = {}
<1>1. \A s : OverwrittenString(s) \notin Secrets
  BY CredsAssumption DEF OverwrittenString
<1> QED
  BY <1>1 DEF SecretsIn, Overwritten

(* What Creds::load finds is a secret only if the directory holds one.     *)
LEMMA LoadedHoldsWhatDiskHolds ==
  ASSUME NEW content, SecretsIn(Loaded(NoUrls, content)) # {}
  PROVE  content \in Secrets
<1>1. None \notin Secrets
  BY CredsAssumption
<1> SUFFICES ASSUME content \notin Secrets PROVE FALSE
  OBVIOUS
<1>2. Loaded(NoUrls, content) = NoCreds
  BY LoadedNothing, CredsAssumption DEF Loaded, Trimmed
<1> QED
  BY <1>2, NothingSecret

(* The contract's view of the runner depends on the runner alone,          *)
LEMMA PhaseStays == runner' = runner => Phase' = Phase
  BY DEF Phase

(* that of the directory on the directory,                                 *)
LEMMA DiskStays == dir' = dir => DiskHolds' = DiskHolds
  BY DEF DiskHolds

(* and that of the creds on the cell and on what a boot has read.          *)
LEMMA RamStays == cell' = cell /\ boot'.got = boot.got => RamHolds' = RamHolds
  BY DEF RamHolds

(* Removing files cannot put a secret on disk. *)
LEMMA RemovalErases ==
  ASSUME dir \in CapFiles,
         \/ \E r \in Repos : dir' = [dir EXCEPT !.url[r] = None]
         \/ dir' = [dir EXCEPT !.authkeys = None]
         \/ dir' = [dir EXCEPT !.forge = None]
  PROVE  DiskHolds' => DiskHolds
<1>1. SecretsOnDisk(dir') \subseteq SecretsOnDisk(dir)
  BY CredsAssumption DEF SecretsOnDisk, CapFiles
<1> QED
  BY <1>1 DEF DiskHolds

(* A machine without cap files starts as the contract does.                *)
LEMMA RefinesInit == Init => Contract!Init
  BY NothingSecret DEF Init, Contract!Init, RamHolds, DiskHolds, Phase, NoBoot

(* Every step of a handler is a step of the contract, or unseen by it.     *)
LEMMA RefinesHandle ==
  ASSUME IInv, NEW t \in Tasks, Handle(t), IInv'
  PROVE  Contract!Next \/ UNCHANGED <<RamHolds, DiskHolds, Phase>>
<1> USE DEF IInv, TypeOK, Goto, Answer, Picked, Serving, Alive, Contract!Next
<1>1. Phase # "frozen"
  BY DEF Handle, ListCaps, StartOp, RefuseOp, ScrubCell, ScrubClear, ListUrls, Remove, RemoveUrl,
     RemoveAuthkeys, RemoveForge, ReadCap, Authorize, Deliver, LoseReply, Hangup, Phase
<1>2. CASE \/ ListCaps(t) \/ StartOp(t) \/ RefuseOp(t) \/ ListUrls(t)
           \/ ReadCap(t) \/ Authorize(t)
  <2>1. UNCHANGED <<dir, procVars, cell, hostVars>>
    BY <1>2 DEF ListCaps, StartOp, RefuseOp, ListUrls, ReadCap, Authorize
  <2> QED
    BY <2>1, PhaseStays, DiskStays, RamStays
<1>3. CASE ScrubCell(t) \/ ScrubClear(t)
  <2>1. UNCHANGED <<dir, procVars, hostVars>>
    BY <1>3 DEF ScrubCell, ScrubClear
  <2>2. boot.got = NoUrls
    BY <1>3 DEF ScrubCell, ScrubClear, NothingBeforeServing
  <2>3. SecretsIn(cell') = {}
    BY <1>3, OverwrittenHoldsNothing, ClearedIsNothing, NothingSecret DEF ScrubCell, ScrubClear
  <2>4. RamHolds' = FALSE
    BY <2>1, <2>2, <2>3 DEF RamHolds
  <2> QED
    BY <1>1, <2>1, <2>4, PhaseStays, DiskStays DEF Contract!Forget
<1>4. CASE (\E r \in Repos : RemoveUrl(t, r)) \/ RemoveAuthkeys(t) \/ RemoveForge(t)
  <2>1. UNCHANGED <<procVars, cell, hostVars>>
    BY <1>4 DEF Remove, RemoveUrl, RemoveAuthkeys, RemoveForge
  <2>2. DiskHolds' => DiskHolds
    BY <1>4, RemovalErases, DiskStays DEF Remove, RemoveUrl, RemoveAuthkeys, RemoveForge
  <2>3. DiskHolds \in BOOLEAN /\ DiskHolds' \in BOOLEAN
    BY DEF DiskHolds
  <2>4. UNCHANGED <<RamHolds, Phase>>
    BY <2>1, PhaseStays, RamStays
  <2> QED
    BY <1>1, <2>2, <2>3, <2>4 DEF Contract!Erase
<1>5. CASE Deliver(t) \/ LoseReply(t)
  <2>1. UNCHANGED <<dir, procVars, cell>>
    BY <1>5 DEF Deliver, LoseReply, Hangup
  <2>2. UNCHANGED <<RamHolds, DiskHolds>>
    BY <2>1, DiskStays, RamStays
  <2>3. CASE asked = t
    <3>1. Phase = "requested"
      BY <2>3, CustodyAssumption DEF AskedScrub, Phase
    <3>2. CASE runner' = "granted"
      <4>1. ~IoFails => ~DiskHolds'
        BY <3>2, NothingSecret DEF EmptyOnceGranted, DiskHolds
      <4>2. pc[t] = "replied" /\ req[t].op \in ScrubOps
        BY <1>5, <2>3, CustodyAssumption DEF AskedScrub, Deliver, LoseReply, Hangup, ScrubOps
      <4>3. cell = NoCreds /\ boot.got = NoUrls
        BY <1>5, <4>2 DEF Deliver, LoseReply, Hangup, ClearedByScrub, NothingBeforeServing
      <4>4. ~RamHolds
        BY <4>3, NothingSecret DEF RamHolds
      <4> QED
        BY <2>2, <3>1, <3>2, <4>1, <4>4 DEF Contract!Grant, Phase
    <3>3. CASE runner' = "idle"
      BY <2>2, <3>1, <3>3 DEF Contract!GiveUp, Phase
    <3> QED
      BY <1>5, <2>3, <3>2, <3>3 DEF Deliver, LoseReply
  <2>4. CASE asked # t
    BY <1>5, <2>2, <2>4, PhaseStays DEF Deliver, LoseReply
  <2> QED
    BY <2>3, <2>4
<1> QED
  BY <1>2, <1>3, <1>4, <1>5 DEF Handle

(* So is every step of the process (main, Creds::load).                    *)
LEMMA RefinesProcess ==
  ASSUME IInv, Process
  PROVE  Contract!Next \/ UNCHANGED <<RamHolds, DiskHolds, Phase>>
<1> USE DEF IInv, TypeOK, Serving, Alive, Contract!Next
<1>1. Phase # "frozen"
  BY DEF Process, Start, OpenCapsDir, ScanEntry, Serve, HttpExit, Exit, Phase
<1>2. CASE Start \/ OpenCapsDir \/ HttpExit
  <2>1. UNCHANGED <<dir, cell, hostVars>> /\ boot'.got = boot.got
    BY <1>2 DEF Start, OpenCapsDir, HttpExit, NoBoot, NothingBeforeServing
  <2> QED
    BY <2>1, PhaseStays, DiskStays, RamStays
<1>3. ASSUME NEW r \in Repos, ScanEntry(r)
      PROVE  Contract!Learn \/ Contract!Forget \/ UNCHANGED <<RamHolds, DiskHolds, Phase>>
  <2>1. UNCHANGED <<dir, cell, hostVars>>
    BY <1>3 DEF ScanEntry
  <2>2. CASE dir.url[r] \in Secrets
    <3>1. DiskHolds
      BY <2>2 DEF DiskHolds, SecretsOnDisk
    <3>2. RamHolds' \in BOOLEAN
      BY DEF RamHolds
    <3> QED
      BY <1>1, <2>1, <3>1, <3>2, PhaseStays, DiskStays DEF Contract!Learn, Contract!Forget
  <2>3. CASE dir.url[r] \notin Secrets
    <3>1. Trimmed(dir.url[r]) = None
      BY <2>3 DEF Trimmed
    <3>2. boot.got = NoUrls => boot'.got = NoUrls
      BY <1>3, <3>1 DEF ScanEntry, NoUrls
    <3>3. RamHolds' => RamHolds
      BY <2>1, <3>2 DEF RamHolds
    <3>4. RamHolds \in BOOLEAN /\ RamHolds' \in BOOLEAN
      BY DEF RamHolds
    <3> QED
      BY <1>1, <2>1, <3>3, <3>4, PhaseStays, DiskStays DEF Contract!Forget
  <2> QED
    BY <2>2, <2>3
<1>4. CASE Serve
  <2>1. UNCHANGED <<dir, hostVars>> /\ boot'.got = NoUrls
    BY <1>4 DEF Serve, NoBoot
  <2>2. CASE RamHolds' /\ ~RamHolds
    <3>1. SecretsIn(cell') # {} /\ boot.got = NoUrls
      BY <2>1, <2>2 DEF RamHolds
    <3>2. cell' = Loaded(boot.got, IF boot.forge THEN dir.forge ELSE None)
      BY <1>4 DEF Serve
    <3>3. (IF boot.forge THEN dir.forge ELSE None) \in Secrets
      BY <3>1, <3>2, LoadedHoldsWhatDiskHolds
    <3>4. dir.forge \in Secrets
      BY <3>3, CredsAssumption
    <3>5. DiskHolds
      BY <3>4 DEF DiskHolds, SecretsOnDisk
    <3> QED
      BY <1>1, <2>1, <2>2, <3>5, PhaseStays, DiskStays DEF Contract!Learn
  <2>3. CASE RamHolds' => RamHolds
    <3>1. RamHolds \in BOOLEAN /\ RamHolds' \in BOOLEAN
      BY DEF RamHolds
    <3> QED
      BY <1>1, <2>1, <2>3, <3>1, PhaseStays, DiskStays DEF Contract!Forget
  <2> QED
    BY <2>2, <2>3
<1>5. CASE Exit
  <2>1. RamHolds' = FALSE
    BY <1>5, NothingSecret DEF Exit, NoBoot, RamHolds
  <2>2. DiskHolds' = DiskHolds
    BY <1>5, DiskStays DEF Exit
  <2>3. Phase' = IF Phase = "requested" THEN "open" ELSE Phase
    BY <1>5 DEF Exit, Phase
  <2> QED
    BY <1>1, <2>1, <2>2, <2>3 DEF Contract!Crash
<1> QED
  BY <1>2, <1>3, <1>4, <1>5 DEF Process

(* So is every step at all: the supervisor, the runner and git are left.   *)
LEMMA RefinesNext ==
  IInv /\ IInv' /\ [Next]_vars => [Contract!Next]_(Contract!cvars)
<1> SUFFICES ASSUME IInv, IInv', [Next]_vars
             PROVE  Contract!Next \/ UNCHANGED <<RamHolds, DiskHolds, Phase>>
  BY DEF Contract!cvars
<1> USE DEF IInv, TypeOK, Contract!Next
<1>1. CASE Supervisor
  <2>1. UNCHANGED <<cell, boot, hostVars>> /\ runner = "idle"
    BY <1>1 DEF Supervisor, WriteUrl, WriteForge, WriteAuthkeys
  <2>2. UNCHANGED <<RamHolds, Phase>> /\ Phase = "open"
    BY <2>1, RamStays, PhaseStays DEF Phase
  <2>3. DiskHolds' \in BOOLEAN
    BY DEF DiskHolds
  <2> QED
    BY <2>2, <2>3 DEF Contract!Provision
<1>2. CASE Process
  BY <1>2, RefinesProcess
<1>3. CASE Runner
  <2>1. UNCHANGED <<dir, cell, boot>>
    BY <1>3 DEF Runner, AskScrub, Accept, GiveUp, Pause, Restore
  <2>2. UNCHANGED <<RamHolds, DiskHolds>>
    BY <2>1, RamStays, DiskStays
  <2>3. \/ Phase = "open" /\ Phase' = "requested"
        \/ Phase \in {"requested", "granted"} /\ Phase' = "open"
        \/ Phase = "granted" /\ Phase' = "frozen"
        \/ Phase = "frozen" /\ Phase' = "open"
    BY <1>3 DEF Runner, AskScrub, GiveUp, Pause, Restore, Phase
  <2> QED
    BY <2>2, <2>3 DEF Contract!Request, Contract!GiveUp, Contract!Freeze, Contract!Thaw
<1>4. ASSUME NEW t \in Tasks, Handle(t)
      PROVE  Contract!Next \/ UNCHANGED <<RamHolds, DiskHolds, Phase>>
  BY <1>4, RefinesHandle
<1>5. ASSUME NEW t \in Tasks,
             FinishOp(t) \/ \E q \in Requests : Arrive(t, q)
      PROVE  UNCHANGED <<RamHolds, DiskHolds, Phase>>
  <2>1. UNCHANGED <<dir, cell, boot, hostVars>>
    BY <1>5 DEF FinishOp, Arrive, Accept
  <2> QED
    BY <2>1, RamStays, DiskStays, PhaseStays
<1>6. CASE UNCHANGED vars
  BY <1>6, RamStays, DiskStays, PhaseStays DEF vars
<1> QED
  BY <1>1, <1>2, <1>3, <1>4, <1>5, <1>6 DEF Next

(* The broker implements the contract it has with the snapshot runner,     *)
(* whatever fails: a file that cannot be removed weakens the promise by    *)
(* the files, and by nothing else.                                         *)
THEOREM KeepsContract == Spec => ImplementsContract
  BY RefinesInit, RefinesNext, Invariant, PTL DEF Spec, ImplementsContract, Contract!Spec

(* What the contract is for follows from it alone: there is nothing to     *)
(* freeze between the grant and the thaw.                                  *)
LEMMA ContractKept == Contract!Spec => []Contract!NothingToFreeze
<1> USE DEF Contract!NothingToFreeze
<1>1. Contract!Init => Contract!NothingToFreeze
  BY DEF Contract!Init
<1>2. Contract!NothingToFreeze /\ [Contract!Next]_(Contract!cvars) => Contract!NothingToFreeze'
  BY DEF Contract!Next, Contract!cvars, Contract!Provision, Contract!Learn, Contract!Forget,
         Contract!Erase, Contract!Crash, Contract!Request, Contract!Grant, Contract!GiveUp,
         Contract!Freeze, Contract!Thaw
<1> QED
  BY <1>1, <1>2, PTL DEF Contract!Spec

(* So the broker leaves nothing to freeze, by the contract it implements.  *)
THEOREM NothingIsFrozen == Spec => []Contract!NothingToFreeze
  BY KeepsContract, ContractKept DEF ImplementsContract

-----------------------------------------------------------------------------
(* Once the runner has its answer, cell and directory stay empty, and an   *)
(* op that starts or an add-key that reads its cap gets nothing.           *)
LEMMA NothingNewHandle ==
  ASSUME IInv, ~IoFails, runner \in {"granted", "paused"}, NEW u \in Tasks, Handle(u),
         NEW t \in Tasks
  PROVE  /\ SecretsIn(snap'[t]) \subseteq SecretsIn(snap[t])
         /\ held'[t] \in {held[t], None}
<1> USE DEF IInv, TypeOK, EmptyOnceGranted
<1>1. CASE StartOp(u)
  <2>1. snap' = [snap EXCEPT ![u] = NoCreds] /\ held' = held
    BY <1>1 DEF StartOp
  <2> QED
    BY <2>1, NothingSecret
<1>2. CASE ReadCap(u)
  <2>1. Trimmed(dir.authkeys) = None
    BY CredsAssumption DEF NoFiles, Trimmed
  <2>2. held' = [held EXCEPT ![u] = None] /\ snap' = snap
    BY <1>2, <2>1 DEF ReadCap
  <2> QED
    BY <2>2
<1>3. CASE Authorize(u)
  BY <1>3 DEF Authorize
<1>4. CASE ~(StartOp(u) \/ ReadCap(u) \/ Authorize(u))
  <2>1. UNCHANGED <<snap, held>>
    BY <1>4 DEF Handle, ListCaps, RefuseOp, ScrubCell, ScrubClear, ListUrls, RemoveUrl,
                RemoveAuthkeys, RemoveForge, Deliver, LoseReply, Hangup
  <2> QED
    BY <2>1
<1> QED
  BY <1>1, <1>2, <1>3, <1>4

(* What a snapshot can hold is what ops in flight held when the scrub was  *)
(* answered: nobody gets hold of a secret from then to the resume.         *)
THEOREM GrantEndsTheGathering ==
  ASSUME ~IoFails
  PROVE  Spec => NothingNewOnceGranted
<1> DEFINE A == {runner, runner'} \subseteq {"granted", "paused"} =>
                  \A t \in Tasks : /\ SecretsIn(snap'[t]) \subseteq SecretsIn(snap[t])
                                   /\ held'[t] \in {held[t], None}
<1>1. IInv /\ [Next]_vars => [A]_vars
  <2> SUFFICES ASSUME IInv, Next, {runner, runner'} \subseteq {"granted", "paused"},
                      NEW t \in Tasks
               PROVE  /\ SecretsIn(snap'[t]) \subseteq SecretsIn(snap[t])
                      /\ held'[t] \in {held[t], None}
    OBVIOUS
  <2>0. runner \in {"granted", "paused"}
    OBVIOUS
  <2>1. CASE \E u \in Tasks : Handle(u)
    BY <2>0, <2>1, NothingNewHandle
  <2>2. CASE Exit
    BY <2>2, NothingSecret DEF Exit, IInv, TypeOK
  <2>3. ASSUME NEW u \in Tasks, FinishOp(u)
        PROVE  /\ SecretsIn(snap'[t]) \subseteq SecretsIn(snap[t])
               /\ held'[t] \in {held[t], None}
    <3>1. snap' = [snap EXCEPT ![u] = NoCreds] /\ held' = held
      BY <2>3 DEF FinishOp
    <3> QED
      BY <3>1, NothingSecret DEF IInv, TypeOK
  <2>4. CASE ~Exit /\ ~\E u \in Tasks : Handle(u) \/ FinishOp(u)
    <3>1. UNCHANGED <<snap, held>>
      BY <2>4 DEF Next, Supervisor, WriteUrl, WriteForge, WriteAuthkeys, Process, Start,
                  OpenCapsDir, ScanEntry, Serve, HttpExit, Runner, AskScrub, GiveUp, Pause,
                  Restore, Arrive, Accept
    <3> QED
      BY <3>1
  <2> QED
    BY <2>1, <2>2, <2>3, <2>4
<1> HIDE DEF A
<1>2. Spec => [][A]_vars
  BY <1>1, Invariant, PTL DEF Spec
<1> QED
  BY <1>2 DEF A, NothingNewOnceGranted

-----------------------------------------------------------------------------
(* Refinement: the creds behind the mutex are an AtomicCell.               *)

(* What is seen of the cell depends on the cell and the mutex alone,       *)
LEMMA SeenStays == cell' = cell /\ holder' = holder => SeenOfCell' = SeenOfCell
  BY DEF SeenOfCell

(* and whoever has the mutex sees the cell.                                *)
LEMMA SeenUnderMutex == holder = None => SeenOfCell = cell
  BY DEF SeenOfCell

(* The machine starts without a cell to see.                               *)
LEMMA CellInit == Init => Cell!Init
  BY DEF Init, Cell!Init, Cell!Empty, SeenOfCell

(* A handler's step clones, lists, drops, forgets, or is not seen.         *)
LEMMA CellHandle ==
  ASSUME IInv, NEW t \in Tasks, Handle(t)
  PROVE  Cell!Next \/ UNCHANGED Cell!avars
<1> USE DEF IInv, TypeOK, Goto, Answer, Picked, Serving, Cell!Next
<1>1. CASE ListCaps(t)
  <2>1. /\ proc = "serving" /\ UNCHANGED <<proc, loaded, cell, holder, snap>>
        /\ holder = None /\ listed' = [listed EXCEPT ![t] = CapNames(cell)]
    BY <1>1 DEF ListCaps
  <2>2. SeenOfCell = cell /\ UNCHANGED SeenOfCell
    BY <2>1, SeenUnderMutex, SeenStays
  <2>3. [c \in CredsType |-> CapNames(c)][SeenOfCell] = CapNames(cell)
    BY <2>2
  <2>4. Cell!List(t)
    BY <2>1, <2>2, <2>3 DEF Cell!List
  <2> QED
    BY <2>4
<1>2. CASE StartOp(t)
  <2>1. /\ proc = "serving" /\ UNCHANGED <<proc, loaded, cell, holder, listed>>
        /\ holder = None /\ snap' = [snap EXCEPT ![t] = cell]
    BY <1>2 DEF StartOp
  <2>2. SeenOfCell = cell /\ UNCHANGED SeenOfCell
    BY <2>1, SeenUnderMutex, SeenStays
  <2>3. Cell!Clone(t)
    BY <2>1, <2>2 DEF Cell!Clone
  <2> QED
    BY <2>3
<1>3. CASE ScrubCell(t)
  <2>1. /\ proc = "serving" /\ UNCHANGED <<proc, loaded, snap, listed>>
        /\ holder' = t
    BY <1>3 DEF ScrubCell
  <2>2. SeenOfCell' = NoCreds
    BY <2>1, CustodyAssumption DEF SeenOfCell
  <2>3. Cell!Drop
    BY <2>1, <2>2 DEF Cell!Drop
  <2> QED
    BY <2>3
<1>4. CASE ScrubClear(t)
  <2>1. UNCHANGED <<proc, loaded, snap, listed>> /\ holder = t /\ holder' = None
    BY <1>4 DEF ScrubClear, MutexHeld
  <2>2. cell' = NoCreds
    BY <1>4, ClearedIsNothing DEF ScrubClear
  <2>3. SeenOfCell = NoCreds /\ SeenOfCell' = NoCreds
    BY <2>1, <2>2, CustodyAssumption DEF SeenOfCell
  <2> QED
    BY <2>1, <2>3 DEF Cell!avars
<1>5. CASE Deliver(t) \/ LoseReply(t)
  <2>1. /\ UNCHANGED <<proc, loaded, cell, holder, snap>>
        /\ listed' = [listed EXCEPT ![t] = {}]
    BY <1>5 DEF Deliver, LoseReply, Hangup
  <2>2. UNCHANGED SeenOfCell
    BY <2>1, SeenStays
  <2>3. Cell!Forget(t)
    BY <2>1, <2>2 DEF Cell!Forget
  <2> QED
    BY <2>3
<1>6. CASE \/ RefuseOp(t) \/ ListUrls(t) \/ RemoveAuthkeys(t) \/ RemoveForge(t)
           \/ (\E r \in Repos : RemoveUrl(t, r)) \/ ReadCap(t) \/ Authorize(t)
  <2>1. UNCHANGED <<proc, loaded, cell, holder, snap, listed>>
    BY <1>6 DEF RefuseOp, ListUrls, RemoveAuthkeys, RemoveForge, RemoveUrl, ReadCap, Authorize
  <2>2. UNCHANGED SeenOfCell
    BY <2>1, SeenStays
  <2> QED
    BY <2>1, <2>2 DEF Cell!avars
<1> QED
  BY <1>1, <1>2, <1>3, <1>4, <1>5, <1>6 DEF Handle

(* The load fills a cell that nobody has, the end of the process takes     *)
(* everything with it.                                                     *)
LEMMA CellProcess ==
  ASSUME IInv, IInv', Process
  PROVE  Cell!Next \/ UNCHANGED Cell!avars
<1> USE DEF IInv, TypeOK, Cell!Next
<1>1. CASE Start \/ OpenCapsDir \/ (\E r \in Repos : ScanEntry(r)) \/ HttpExit
  <2>1. /\ (proc' = "serving") = (proc = "serving")
        /\ UNCHANGED <<loaded, cell, holder, snap, listed>>
    BY <1>1 DEF Start, OpenCapsDir, ScanEntry, HttpExit
  <2>2. UNCHANGED SeenOfCell
    BY <2>1, SeenStays
  <2> QED
    BY <2>1, <2>2 DEF Cell!avars
<1>2. CASE Serve
  <2>1. /\ proc # "serving" /\ proc' = "serving" /\ cell' = loaded'
        /\ UNCHANGED <<holder, snap, listed>>
    BY <1>2 DEF Serve
  <2>2. holder = None
    BY <2>1 DEF MutexHeld, NothingBeforeServing
  <2>3. SeenOfCell' = loaded'
    BY <2>1, <2>2 DEF SeenOfCell
  <2>4. loaded' \in DOMAIN [c \in CredsType |-> CapNames(c)]
    OBVIOUS
  <2> QED
    BY <2>1, <2>3, <2>4 DEF Cell!Load
<1>3. CASE Exit
  <2>1. Cell!Die
    BY <1>3 DEF Exit, Cell!Die, Cell!Empty, SeenOfCell
  <2> QED
    BY <2>1
<1> QED
  BY <1>1, <1>2, <1>3 DEF Process

(* Every step of the system is one of the cell, or is not seen.            *)
LEMMA CellNext ==
  IInv /\ IInv' /\ [Next]_vars => [Cell!Next]_(Cell!avars)
<1> SUFFICES ASSUME IInv, IInv', [Next]_vars
             PROVE  Cell!Next \/ UNCHANGED Cell!avars
  OBVIOUS
<1>1. CASE Process
  BY <1>1, CellProcess
<1>2. ASSUME NEW t \in Tasks, Handle(t) PROVE Cell!Next \/ UNCHANGED Cell!avars
  BY <1>2, CellHandle
<1>3. ASSUME NEW t \in Tasks, FinishOp(t) PROVE Cell!Next
  <2>1. /\ UNCHANGED <<proc, loaded, cell, holder, listed>>
        /\ snap' = [snap EXCEPT ![t] = NoCreds]
    BY <1>3 DEF FinishOp
  <2>2. UNCHANGED SeenOfCell
    BY <2>1, SeenStays
  <2>3. Cell!Release(t)
    BY <2>1, <2>2 DEF Cell!Release
  <2> QED
    BY <2>3 DEF Cell!Next
<1>4. CASE \/ Supervisor \/ Runner \/ UNCHANGED vars
           \/ \E t \in Tasks, q \in Requests : Arrive(t, q)
  <2>1. UNCHANGED <<proc, loaded, cell, holder, snap, listed>>
    BY <1>4 DEF Supervisor, WriteUrl, WriteForge, WriteAuthkeys, Runner, AskScrub, GiveUp,
                Pause, Restore, Arrive, Accept, vars
  <2>2. UNCHANGED SeenOfCell
    BY <2>1, SeenStays
  <2> QED
    BY <2>1, <2>2 DEF Cell!avars
<1> QED
  BY <1>1, <1>2, <1>3, <1>4 DEF Next

(* The creds behind the mutex are linearizable, for every number of        *)
(* connections and workers, across crashes and restarts: every clone,      *)
(* listing and scrub takes effect at one moment.                           *)
THEOREM CellIsAtomic == Spec => ImplementsAtomicCell
  BY CellInit, CellNext, Invariant, PTL DEF Spec, ImplementsAtomicCell, Cell!Spec

(* Of an AtomicCell one sees all that was loaded, or nothing.              *)
LEMMA CellWhole == Cell!Spec => []Cell!WholeOrNothing
<1> USE DEF Cell!WholeOrNothing
<1>1. Cell!Init => Cell!WholeOrNothing
  BY DEF Cell!Init, Cell!Empty
<1>2. ASSUME Cell!WholeOrNothing, [Cell!Next]_(Cell!avars) PROVE Cell!WholeOrNothing'
  <2>1. CASE Cell!Load
    BY <1>2, <2>1 DEF Cell!Load
  <2>2. CASE Cell!Drop
    BY <1>2, <2>2 DEF Cell!Drop
  <2>3. CASE Cell!Die
    BY <2>3 DEF Cell!Die, Cell!Empty
  <2>4. ASSUME NEW c \in Tasks, Cell!Clone(c) \/ Cell!Release(c)
        PROVE  Cell!WholeOrNothing'
    BY <1>2, <2>4 DEF Cell!Clone, Cell!Release
  <2>5. ASSUME NEW c \in Tasks, Cell!List(c) \/ Cell!Forget(c)
        PROVE  Cell!WholeOrNothing'
    BY <1>2, <2>5 DEF Cell!List, Cell!Forget
  <2>6. CASE UNCHANGED Cell!avars
    BY <1>2, <2>6 DEF Cell!avars
  <2> QED
    BY <1>2, <2>1, <2>2, <2>3, <2>4, <2>5, <2>6 DEF Cell!Next
<1> QED
  BY <1>1, <1>2, PTL DEF Cell!Spec

(* After a drop one sees nothing of it until the process ends.             *)
LEMMA CellDropped == Cell!Spec => Cell!DropIsForGood
<1>1. [Cell!Next]_(Cell!avars) =>
        [proc = "serving" /\ (proc = "serving")' /\ SeenOfCell = NoCreds => SeenOfCell' = NoCreds]_(Cell!avars)
  BY DEF Cell!Next, Cell!avars, Cell!Load, Cell!Drop, Cell!Die, Cell!Empty, Cell!Clone,
         Cell!Release, Cell!List, Cell!Forget
<1> QED
  BY <1>1, PTL DEF Cell!Spec, Cell!DropIsForGood

(* So what is seen of the creds is whole or nothing, and a process whose   *)
(* creds were dropped never has any again, by the cell it implements.      *)
THEOREM SeenWholeThenGone == Spec => []Cell!WholeOrNothing /\ Cell!DropIsForGood
  BY CellIsAtomic, CellWhole, CellDropped, PTL DEF ImplementsAtomicCell

-----------------------------------------------------------------------------
(* No handler goes round.                                                  *)

(* What is left at each place, and that it is a number: the caps directory *)
(* is finite, and so is what is listed of it.                              *)
LEMMA StepsLeftAt ==
  ASSUME IsFiniteSet(Repos), NEW S \in SUBSET Repos
  PROVE  /\ Cardinality(Repos) \in Nat /\ Cardinality(S) \in Nat
         /\ Cardinality(S) <= Cardinality(Repos)
         /\ StepsLeft("idle", S) = 0 /\ StepsLeft("replied", S) = 1
         /\ StepsLeft("forge", S) = 2 /\ StepsLeft("running", S) = 2
         /\ StepsLeft("authz", S) = 2
         /\ StepsLeft("urls", S) = 3 + Cardinality(S)
         /\ StepsLeft("open_dir", S) = 4 + Cardinality(Repos)
         /\ StepsLeft("zeroed", S) = 5 + Cardinality(Repos)
         /\ StepsLeft("arrived", S) = 6 + Cardinality(Repos)
<1>1. /\ Cardinality(Repos) \in Nat /\ Cardinality(S) \in Nat
      /\ Cardinality(S) <= Cardinality(Repos)
  BY FS_CardinalityType, FS_Subset
<1> QED
  BY <1>1 DEF StepsLeft

(* One entry removed is one entry fewer.                                   *)
LEMMA OneFewer ==
  ASSUME IsFiniteSet(Repos), NEW S \in SUBSET Repos, NEW r \in S
  PROVE  Cardinality(S \ {r}) < Cardinality(S)
<1>1. IsFiniteSet(S)
  BY FS_Subset
<1>2. Cardinality(S) \in Nat /\ Cardinality(S \ {r}) = Cardinality(S) - 1
  BY <1>1, FS_CardinalityType, FS_RemoveElement
<1> QED
  BY <1>2

(* Each step of a handler, and the end of its upstream call, leaves it one *)
(* step fewer at least.                                                    *)
LEMMA StepsCount ==
  ASSUME IInv, IsFiniteSet(Repos), NEW t \in Tasks, Handle(t) \/ FinishOp(t)
  PROVE  Left(t)' < Left(t)
<1> USE DEF IInv, TypeOK, Goto, Answer, Picked
<1> DEFINE before == todo[t]  after == todo'[t]
<1>0. before \in SUBSET Repos
  OBVIOUS
<1>1. CASE ListCaps(t) \/ StartOp(t) \/ RefuseOp(t) \/ ScrubCell(t) \/ ReadCap(t)
  <2>1. /\ pc[t] = "arrived" /\ pc'[t] \in {"replied", "running", "zeroed", "authz"}
        /\ todo' = todo
    BY <1>1 DEF ListCaps, StartOp, RefuseOp, ScrubCell, ReadCap
  <2> QED
    BY <1>0, <2>1, StepsLeftAt DEF Left
<1>2. CASE ScrubClear(t)
  <2>1. pc[t] = "zeroed" /\ pc'[t] \in {"replied", "open_dir"} /\ todo' = todo
    BY <1>2 DEF ScrubClear
  <2> QED
    BY <1>0, <2>1, StepsLeftAt DEF Left
<1>3. CASE ListUrls(t)
  <2>1. pc[t] = "open_dir" /\ pc'[t] = "urls" /\ after \in SUBSET Repos
    BY <1>3 DEF ListUrls, Listings
  <2> QED
    BY <1>0, <2>1, StepsLeftAt DEF Left
<1>4. ASSUME NEW r \in Repos, RemoveUrl(t, r) PROVE Left(t)' < Left(t)
  <2>1. pc[t] = "urls" /\ pc'[t] = "urls" /\ r \in before /\ after = before \ {r}
    BY <1>4 DEF RemoveUrl
  <2>2. Cardinality(after) < Cardinality(before)
    BY <1>0, <2>1, OneFewer
  <2>3. after \in SUBSET Repos
    BY <1>0, <2>1
  <2> QED
    BY <1>0, <2>1, <2>2, <2>3, StepsLeftAt DEF Left
<1>5. CASE RemoveAuthkeys(t)
  <2>1. pc[t] = "urls" /\ pc'[t] = "forge" /\ todo' = todo
    BY <1>5 DEF RemoveAuthkeys
  <2> QED
    BY <1>0, <2>1, StepsLeftAt DEF Left
<1>6. CASE RemoveForge(t) \/ Authorize(t) \/ FinishOp(t)
  <2>1. /\ pc[t] \in {"forge", "authz", "running"} /\ pc'[t] = "replied"
        /\ todo' = todo
    BY <1>6 DEF RemoveForge, Authorize, FinishOp
  <2> QED
    BY <1>0, <2>1, StepsLeftAt DEF Left
<1>7. CASE Deliver(t) \/ LoseReply(t)
  <2>1. pc[t] = "replied" /\ pc'[t] = "idle" /\ todo' = todo
    BY <1>7 DEF Deliver, LoseReply, Hangup
  <2> QED
    BY <1>0, <2>1, StepsLeftAt DEF Left
<1> QED
  BY <1>1, <1>2, <1>3, <1>4, <1>5, <1>6, <1>7 DEF Handle

(* Nobody else moves a handler, but for the end of the process, which ends *)
(* them all.                                                               *)
LEMMA OthersLeaveIt ==
  ASSUME IInv, IsFiniteSet(Repos), [Next]_vars, NEW t \in Tasks,
         ~(Handle(t) \/ FinishOp(t))
  PROVE  UNCHANGED <<pc[t], todo[t]>> \/ pc[t] = "idle" \/ Left(t)' < Left(t)
<1> USE DEF IInv, TypeOK
<1>1. CASE Supervisor \/ GiveUp \/ Pause \/ Restore
  BY <1>1 DEF Supervisor, WriteUrl, WriteForge, WriteAuthkeys, GiveUp, Pause, Restore
<1>2. CASE Process /\ ~Exit
  BY <1>2 DEF Process, Start, OpenCapsDir, ScanEntry, Serve, HttpExit
<1>3. CASE Exit
  <2>1. pc'[t] = "idle" /\ todo'[t] = {} /\ todo[t] \in SUBSET Repos
    BY <1>3 DEF Exit
  <2>2. pc[t] # "idle" => Left(t)' < Left(t)
    <3>1. Left(t)' = 0
      BY <2>1, StepsLeftAt DEF Left
    <3>2. pc[t] # "idle" => Left(t) \in Nat /\ Left(t) > 0
      BY <2>1, StepsLeftAt DEF Left, PcValues
    <3> QED  BY <3>1, <3>2
  <2> QED  BY <2>2
<1>4. ASSUME NEW u \in Tasks, NEW q, Accept(u, q)
      PROVE  UNCHANGED <<pc[t], todo[t]>> \/ pc[t] = "idle"
  BY <1>4 DEF Accept
<1>5. ASSUME NEW u \in Tasks, u # t, Handle(u) \/ FinishOp(u)
      PROVE  UNCHANGED <<pc[t], todo[t]>>
  BY <1>5 DEF Handle, ListCaps, StartOp, RefuseOp, ScrubCell, ScrubClear, ListUrls, RemoveUrl,
     RemoveAuthkeys, RemoveForge, ReadCap, Authorize, Deliver, LoseReply, Hangup, FinishOp,
     Goto, Answer
<1>6. CASE UNCHANGED vars
  BY <1>6 DEF vars
<1> QED
  BY <1>1, <1>2, <1>3, <1>4, <1>5, <1>6 DEF Next, Runner, AskScrub, Arrive

(* Wherever a handler moves it has fewer steps left, and each of its own   *)
(* steps moves it: a request takes a number of steps that the size of the  *)
(* caps directory bounds, under every interleaving and whatever fails.     *)
THEOREM HandlersGoForward ==
  ASSUME IsFiniteSet(Repos)
  PROVE  /\ Spec => HandlersAdvance
         /\ Spec => [][\A t \in Tasks : Handle(t) \/ FinishOp(t) => Left(t)' < Left(t)]_vars
<1> DEFINE A == \A t \in Tasks :
                  \/ UNCHANGED <<pc[t], todo[t]>>
                  \/ pc[t] = "idle"
                  \/ Left(t)' < Left(t)
           B == \A t \in Tasks : Handle(t) \/ FinishOp(t) => Left(t)' < Left(t)
<1>1. IInv /\ [Next]_vars => A /\ B
  BY StepsCount, OthersLeaveIt
<1> HIDE DEF A, B
<1>2. Spec => [][A]_vars
  BY <1>1, Invariant, PTL DEF Spec
<1>3. Spec => [][B]_vars
  BY <1>1, Invariant, PTL DEF Spec
<1> QED
  BY <1>2, <1>3 DEF A, B, HandlersAdvance

-----------------------------------------------------------------------------
(* No deadlock, however few workers and however many connections: who      *)
(* holds a worker can go on or runs git, and so does who holds the mutex.  *)
THEOREM NoDeadlock == Spec => []NobodyWaitsInVain
<1>1. IInv => NobodyWaitsInVain
  <2> SUFFICES ASSUME IInv, Serving, NEW t \in Tasks, pc[t] \notin {"idle", "running"},
                      ~\E u \in Tasks : \/ Ready(u)
                                        \/ pc[u] = "running" /\ req[u].op = "git_op"
               PROVE  FALSE
    BY DEF NobodyWaitsInVain
  <2>1. Busy = {}
    BY DEF Busy, Ready
  <2>2. WorkerFree
    BY <2>1, FS_EmptySet, CustodyAssumption DEF WorkerFree
  <2>3. holder = None
    BY <2>1 DEF IInv, TypeOK, MutexHeld, Busy
  <2> QED
    BY <2>2, <2>3 DEF Ready, IInv, TypeOK, PcValues
<1> QED
  BY <1>1, Invariant, PTL
=============================================================================
