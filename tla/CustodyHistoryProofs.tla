------------------------ MODULE CustodyHistoryProofs ------------------------
(***************************************************************************)
(* What a boot loads, what a scrub leaves where files resist, and what an  *)
(* acknowledged one means to later requests, for every set of repositories,*)
(* secrets and connections: the boot misses no file that nobody touches,   *)
(* what is left is what the scrub failed on, after it no credential is     *)
(* seen, and after the HTTP scrub add-key fails closed, each until the     *)
(* supervisor writes again.                                                *)
(***************************************************************************)
EXTENDS CustodyHistory, CustodyFailures, CustodyProofs

USE DEF taskVars, procVars, hostVars

-----------------------------------------------------------------------------
(* What a boot loads.                                                      *)

(* Only the process itself moves its boot along.                           *)
LEMMA OthersLeaveBoot ==
  ASSUME Next, ~Process
  PROVE  proc' = proc /\ boot' = boot
  BY DEF Next, Supervisor, WriteUrl, WriteForge, WriteAuthkeys, Runner, AskScrub, GiveUp, Pause,
     Restore, Arrive, Accept, FinishOp, Handle, ListCaps, StartOp, RefuseOp, ScrubCell,
     ScrubClear, ListUrls, RemoveUrl, RemoveAuthkeys, RemoveForge, ReadCap, Authorize, Deliver,
     LoseReply, Hangup

(* The history of a boot is well formed, and empty when nothing boots.     *)
LEMMA SteadyTyped ==
  ASSUME BootInv, Watch
  PROVE  /\ steady' \in [url : SUBSET Repos, forge : BOOLEAN]
         /\ ~Booting' => steady' = NoFile
  BY DEF BootInv, Watch, NoFile, AllFiles

(* A file that stays steady was steady, and is as it was.                  *)
LEMMA StillSteady ==
  ASSUME Watch, Booting, Booting'
  PROVE  /\ \A r \in steady'.url : r \in steady.url /\ dir'.url[r] = dir.url[r]
         /\ steady'.forge => steady.forge /\ dir'.forge = dir.forge
  BY DEF Watch

(* Opening the directory lists what is there, reading an entry keeps what  *)
(* it holds, and whoever writes a file meanwhile unsettles it.             *)
LEMMA SteadyNext ==
  ASSUME IInv, BootInv, Next, Watch
  PROVE  SteadyIsRead'
<1> USE DEF IInv, TypeOK, BootInv, SteadyIsRead, Booting
<1>1. CASE ~Booting'
  BY <1>1, SteadyTyped DEF NoFile
<1>2. CASE ~Process
  <2>1. proc' = proc /\ boot' = boot
    BY <1>2, OthersLeaveBoot
  <2> QED
    BY <1>1, <2>1, StillSteady
<1>3. CASE Start
  <2>1. dir' = dir /\ boot'.forge = (dir.forge # None) /\ proc' = "opening"
    BY <1>3 DEF Start, NoBoot
  <2> QED
    BY <2>1
<1>4. CASE OpenCapsDir
  <2>1. PICK S \in Listings : boot' = [boot EXCEPT !.entries = S]
    BY <1>4 DEF OpenCapsDir
  <2>2. proc = "opening" /\ proc' = "scanning" /\ dir' = dir /\ boot.got = NoUrls
    BY <1>4 DEF OpenCapsDir, NothingBeforeServing
  <2>3. /\ boot'.forge = boot.forge /\ boot'.entries = S /\ boot'.got = NoUrls
    BY <2>1, <2>2
  <2>4. ASSUME NEW r \in Repos, ~IoFails, r \notin S PROVE Trimmed(dir.url[r]) = None
    BY <2>4, CredsAssumption DEF Listings, UrlsPresent, Trimmed
  <2>5. /\ \A r \in steady'.url : r \in Repos
        /\ steady'.forge => steady.forge
    BY <2>2, StillSteady
  <2> QED
    BY <2>2, <2>3, <2>4, <2>5, CustodyAssumption DEF NoUrls
<1>5. ASSUME NEW q \in Repos, ScanEntry(q) PROVE SteadyIsRead'
  <2>1. /\ proc = "scanning" /\ proc' = "scanning" /\ dir' = dir
        /\ boot' = [boot EXCEPT !.entries = @ \ {q}, !.got[q] = Trimmed(dir.url[q])]
    BY <1>5 DEF ScanEntry
  <2>2. /\ boot'.forge = boot.forge /\ boot'.entries = boot.entries \ {q}
        /\ boot'.got = [boot.got EXCEPT ![q] = Trimmed(dir.url[q])]
    BY <2>1
  <2>3. /\ \A r \in steady'.url : r \in steady.url /\ r \in Repos
        /\ steady'.forge => steady.forge
    BY <2>1, StillSteady
  <2> QED
    BY <2>1, <2>2, <2>3
<1>6. CASE Serve \/ HttpExit \/ Exit
  BY <1>1, <1>6 DEF Serve, HttpExit, Exit, Serving
<1> QED
  BY <1>2, <1>3, <1>4, <1>5, <1>6 DEF Process

(* The boot's part of the inductive invariant.                             *)
LEMMA BootInvNext == IInv /\ BootInv /\ [Next /\ Watch]_<<vars, steady>> => BootInv'
<1>1. ASSUME IInv, BootInv, Next, Watch PROVE BootInv'
  BY <1>1, SteadyTyped, SteadyNext DEF BootInv
<1>2. ASSUME BootInv, UNCHANGED <<vars, steady>> PROVE BootInv'
  BY <1>2 DEF BootInv, SteadyIsRead, Booting, vars
<1> QED
  BY <1>1, <1>2

(* And it holds before the first boot.                                     *)
LEMMA BootInvInit == InitB => BootInv
  BY DEF InitB, Init, BootInv, SteadyIsRead, Booting, NoFile

(* What boots has read, or will read, whatever nobody touches.             *)
THEOREM BootInvariant == SpecB => [](IInv /\ BootInv)
<1>1. IInv /\ [Next /\ Watch]_<<vars, steady>> => IInv'
  BY InvNext DEF vars
<1> QED
  BY <1>1, InvInit, BootInvInit, BootInvNext, PTL DEF SpecB, InitB

(* A broker that comes up holds the credential of every file that stayed   *)
(* as it was while it booted, whoever wrote the others meanwhile and       *)
(* whatever crashed before; only a listing that fails leaves a cap-URL out.*)
THEOREM BootMissesNothing == SpecB => BootLoadsWhatIsThere
<1> DEFINE A == proc # "serving" /\ proc' = "serving" =>
       /\ \A r \in steady.url :
            \/ loaded'.git_caps[r] = Trimmed(dir.url[r])
            \/ IoFails /\ loaded'.git_caps[r] = None
       /\ steady.forge =>
            /\ loaded'.forge_admin_token = Trimmed(dir.forge)
            /\ loaded'.forge_owner = OwnerOf(Trimmed(dir.forge))
<1>1. IInv /\ BootInv /\ [Next /\ Watch]_<<vars, steady>> => [A]_<<vars, steady>>
  <2> SUFFICES ASSUME IInv, BootInv, Next, proc # "serving", proc' = "serving"
               PROVE  A
    OBVIOUS
  <2>1. Serve
    BY OthersLeaveBoot DEF Process, Start, OpenCapsDir, ScanEntry, HttpExit, Exit
  <2>2. /\ proc = "scanning" /\ boot.entries = {}
        /\ loaded' = Loaded(boot.got, IF boot.forge THEN dir.forge ELSE None)
    BY <2>1 DEF Serve
  <2>3. /\ loaded'.git_caps = boot.got
        /\ loaded'.forge_admin_token = Trimmed(IF boot.forge THEN dir.forge ELSE None)
        /\ loaded'.forge_owner = OwnerOf(Trimmed(IF boot.forge THEN dir.forge ELSE None))
    BY <2>2 DEF Loaded
  <2>4. steady.forge => (IF boot.forge THEN dir.forge ELSE None) = dir.forge
    BY DEF BootInv, SteadyIsRead
  <2> QED
    BY <2>2, <2>3, <2>4 DEF BootInv, SteadyIsRead
<1> HIDE DEF A
<1>2. SpecB => [][A]_<<vars, steady>>
  BY <1>1, BootInvariant, PTL DEF SpecB
<1> QED
  BY <1>2 DEF A, BootLoadsWhatIsThere

-----------------------------------------------------------------------------
(* What a scrub leaves where files resist.                                 *)

(* What the runner's scrub has failed on is not forgotten while it waits,  *)
(* nor before the machine resumes.                                         *)
LEMMA SparedGrows ==
  ASSUME FailuresInv, Notice, runner' # "idle"
  PROVE  /\ spared' \in [url : SUBSET Repos, authkeys : BOOLEAN, forge : BOOLEAN]
         /\ spared.url \subseteq spared'.url
         /\ spared.authkeys => spared'.authkeys
         /\ spared.forge => spared'.forge
<1> USE DEF FailuresInv, Notice
<1>1. CASE runner # "scrubbing"
  BY <1>1
<1>2. CASE runner = "scrubbing"
  <2>1. /\ spared'.url = spared.url \cup LeftOut \cup NotRemoved
        /\ spared'.authkeys = (spared.authkeys \/ (Passed("urls", "forge") /\ dir'.authkeys # None))
        /\ spared'.forge = (spared.forge \/ (Passed("forge", "replied") /\ dir'.forge # None))
    BY <1>2
  <2>2. LeftOut \subseteq Repos /\ NotRemoved \subseteq Repos
    BY DEF LeftOut, NotRemoved, UrlsPresent
  <2> QED
    BY <1>2, <2>1, <2>2
<1> QED  BY <1>1, <1>2

(* No one but a scrub, and the supervisor before the runner asks, touches  *)
(* the files; and no one puts one back while the runner waits, or is       *)
(* answered.                                                               *)
LEMMA FilesOnlyGo ==
  ASSUME IInv, [Next]_vars, runner' # "idle"
  PROVE  /\ \A r \in Repos : dir'.url[r] \in {dir.url[r], None}
         /\ dir'.authkeys \in {dir.authkeys, None}
         /\ dir'.forge \in {dir.forge, None}
<1> USE DEF IInv, TypeOK, CapFiles
<1>1. CASE Supervisor
  BY <1>1 DEF Supervisor, WriteUrl, WriteForge, WriteAuthkeys
<1>2. ASSUME NEW t \in Tasks, NEW q \in Repos, RemoveUrl(t, q)
      PROVE  /\ \A r \in Repos : dir'.url[r] \in {dir.url[r], None}
             /\ dir'.authkeys = dir.authkeys /\ dir'.forge = dir.forge
  BY <1>2 DEF RemoveUrl, Remove
<1>3. ASSUME NEW t \in Tasks, RemoveAuthkeys(t)
      PROVE  /\ dir'.url = dir.url /\ dir'.forge = dir.forge
             /\ dir'.authkeys \in {dir.authkeys, None}
  BY <1>3 DEF RemoveAuthkeys, Remove
<1>4. ASSUME NEW t \in Tasks, RemoveForge(t)
      PROVE  /\ dir'.url = dir.url /\ dir'.authkeys = dir.authkeys
             /\ dir'.forge \in {dir.forge, None}
  BY <1>4 DEF RemoveForge, Remove
<1>5. \/ Supervisor \/ dir' = dir
      \/ \E t \in Tasks : RemoveAuthkeys(t) \/ RemoveForge(t) \/ (\E q \in Repos : RemoveUrl(t, q))
  <2> USE DEF Process, Start, OpenCapsDir, ScanEntry, Serve, HttpExit, Exit,
          Runner, AskScrub, Accept, GiveUp, Pause, Restore, Arrive, FinishOp
  <2>1. ASSUME NEW t \in Tasks, Handle(t)
        PROVE  \/ dir' = dir \/ RemoveAuthkeys(t) \/ RemoveForge(t)
               \/ \E q \in Repos : RemoveUrl(t, q)
    BY <2>1 DEF Handle, ListCaps, StartOp, RefuseOp, ScrubCell, ScrubClear, ListUrls, ReadCap,
       Authorize, Deliver, LoseReply, Hangup
  <2> QED
    BY <2>1 DEF Next, vars
<1> QED  BY <1>1, <1>2, <1>3, <1>4, <1>5

(* How the scrub the runner waits for goes on, whoever makes the step, and *)
(* how the runner comes to wait for one or to be answered.                 *)
AskedStep ==
  /\ runner = "scrubbing" /\ runner' = "scrubbing" =>
       /\ asked' = asked
       /\ pc'[asked] = "urls" => pc[asked] \in {"open_dir", "urls"}
       /\ pc'[asked] = "forge" =>
            pc[asked] = "forge" \/ (pc[asked] = "urls" /\ todo[asked] = {})
       /\ pc'[asked] = "replied" => pc[asked] \in {"forge", "replied"}
  /\ runner # "scrubbing" /\ runner' = "scrubbing" => pc'[asked'] = "arrived"
  /\ runner = "scrubbing" /\ runner' \in {"granted", "paused"} => pc[asked] = "replied"
  /\ runner = "idle" => runner' \in {"idle", "scrubbing"}

(* And every step does no more than this.                                  *)
LEMMA AskedStepFacts ==
  ASSUME IInv, [Next]_vars
  PROVE  AskedStep
<1> USE DEF IInv, TypeOK, AskedStep, AskedScrub, Goto, Answer, Picked
<1>1. CASE Supervisor
  BY <1>1 DEF Supervisor, WriteUrl, WriteForge, WriteAuthkeys
<1>2. CASE Process
  BY <1>2 DEF Process, Start, OpenCapsDir, ScanEntry, Serve, HttpExit, Exit
<1>3. CASE Runner
  BY <1>3 DEF Runner, AskScrub, Accept, GiveUp, Pause, Restore
<1>4. ASSUME NEW t \in Tasks, Handle(t) PROVE AskedStep
  <2>1. CASE ListCaps(t) \/ StartOp(t) \/ RefuseOp(t)
    BY <2>1 DEF ListCaps, StartOp, RefuseOp, UpstreamOps, ForgeOps
  <2>2. CASE ScrubCell(t) \/ ScrubClear(t) \/ ListUrls(t)
    BY <2>2 DEF ScrubCell, ScrubClear, ListUrls
  <2>3. ASSUME NEW r \in Repos, RemoveUrl(t, r) PROVE AskedStep
    BY <2>3 DEF RemoveUrl
  <2>4. CASE RemoveAuthkeys(t)
    BY <2>4 DEF RemoveAuthkeys
  <2>5. CASE RemoveForge(t)
    BY <2>5 DEF RemoveForge
  <2>6. CASE ReadCap(t) \/ Authorize(t)
    BY <2>6 DEF ReadCap, Authorize
  <2>7. CASE Deliver(t) \/ LoseReply(t)
    BY <2>7, CustodyAssumption DEF Deliver, LoseReply, Hangup
  <2> QED
    BY <1>4, <2>1, <2>2, <2>3, <2>4, <2>5, <2>6, <2>7 DEF Handle
<1>5. ASSUME NEW t \in Tasks, FinishOp(t) PROVE AskedStep
  BY <1>5 DEF FinishOp
<1>6. ASSUME NEW t \in Tasks, NEW q \in Requests, Arrive(t, q) PROVE AskedStep
  BY <1>6 DEF Arrive, Accept
<1>7. CASE UNCHANGED vars
  BY <1>7 DEF vars
<1> QED
  BY <1>1, <1>2, <1>3, <1>4, <1>5, <1>6, <1>7 DEF Next

(* The scrub goes on through the files, and notes what it could not move:  *)
(* nothing else comes to be behind it.                                     *)
LEMMA FailuresNext ==
  ASSUME IInv, FailuresInv, [Next]_vars, Notice
  PROVE  FailuresInv'
<1>1. CASE runner' = "idle"
  BY <1>1 DEF FailuresInv, Notice, NoneSpared, SparedSoFar, FailuresDoNotSpread
<1>2. CASE runner' # "idle"
  <2> USE <1>2
  <2>1. /\ spared' \in [url : SUBSET Repos, authkeys : BOOLEAN, forge : BOOLEAN]
        /\ spared.url \subseteq spared'.url
        /\ spared.authkeys => spared'.authkeys
        /\ spared.forge => spared'.forge
    BY SparedGrows
  <2>2. /\ UrlsPresent' \subseteq UrlsPresent
        /\ dir'.authkeys # None => dir.authkeys # None
        /\ dir'.forge # None => dir.forge # None
    BY FilesOnlyGo DEF UrlsPresent
  <2>3. AskedStep
    BY AskedStepFacts
  <2>4. runner \in {"idle", "scrubbing", "granted", "paused"}
    BY DEF IInv, TypeOK
  <2>5. SparedSoFar'
    <3>1. CASE runner # "scrubbing"
      BY <2>3, <3>1 DEF SparedSoFar, AskedStep
    <3>2. CASE runner = "scrubbing" /\ runner' = "scrubbing"
      <4>1. /\ spared'.url = spared.url \cup LeftOut \cup NotRemoved
            /\ spared'.authkeys = (spared.authkeys \/ (Passed("urls", "forge") /\ dir'.authkeys # None))
            /\ spared'.forge = (spared.forge \/ (Passed("forge", "replied") /\ dir'.forge # None))
        BY <3>2 DEF Notice
      <4>2. pc'[asked] = "urls" => UrlsPresent' \subseteq todo'[asked] \cup spared'.url
        <5>1. CASE pc[asked] = "open_dir"
          BY <2>2, <4>1, <5>1 DEF LeftOut
        <5>2. CASE pc[asked] = "urls"
          <6>1. UrlsPresent \subseteq todo[asked] \cup spared.url
            BY <3>2, <5>2 DEF FailuresInv, SparedSoFar
          <6>2. \A r \in UrlsPresent' : r \in Repos /\ dir'.url[r] # None
            BY DEF UrlsPresent
          <6> QED
            BY <2>2, <4>1, <6>1, <6>2 DEF NotRemoved
        <5> QED
          BY <2>3, <3>2, <5>1, <5>2 DEF AskedStep
      <4>3. pc'[asked] \in {"forge", "replied"} =>
              UrlsPresent' \subseteq spared'.url /\ (dir'.authkeys # None => spared'.authkeys)
        <5>1. CASE pc[asked] \in {"forge", "replied"}
          BY <2>1, <2>2, <3>2, <5>1 DEF FailuresInv, SparedSoFar
        <5>2. CASE pc[asked] = "urls" /\ todo[asked] = {} /\ pc'[asked] = "forge"
          <6>1. UrlsPresent \subseteq spared.url
            BY <3>2, <5>2 DEF FailuresInv, SparedSoFar
          <6> QED
            BY <2>1, <2>2, <4>1, <5>2, <6>1 DEF Passed
        <5> QED
          BY <2>3, <3>2, <5>1, <5>2 DEF AskedStep
      <4>4. pc'[asked] = "replied" /\ dir'.forge # None => spared'.forge
        <5>1. CASE pc[asked] = "replied"
          BY <2>1, <2>2, <3>2, <5>1 DEF FailuresInv, SparedSoFar
        <5>2. CASE pc[asked] = "forge"
          BY <4>1, <5>2 DEF Passed
        <5> QED
          BY <2>3, <3>2, <5>1, <5>2 DEF AskedStep
      <4>5. asked' = asked
        BY <2>3, <3>2 DEF AskedStep
      <4> QED
        BY <4>2, <4>3, <4>4, <4>5 DEF SparedSoFar
    <3>3. CASE runner' # "scrubbing"
      BY <3>3 DEF SparedSoFar
    <3> QED  BY <3>1, <3>2, <3>3
  <2>6. FailuresDoNotSpread'
    <3>1. CASE runner \in {"granted", "paused"}
      BY <2>1, <2>2, <3>1 DEF FailuresInv, FailuresDoNotSpread
    <3>2. CASE runner = "scrubbing" /\ runner' \in {"granted", "paused"}
      BY <2>1, <2>2, <2>3, <3>2 DEF AskedStep, FailuresInv, SparedSoFar, FailuresDoNotSpread
    <3> QED
      BY <2>3, <2>4, <3>1, <3>2 DEF AskedStep, FailuresDoNotSpread
  <2> QED
    BY <2>1, <2>5, <2>6 DEF FailuresInv
<1> QED  BY <1>1, <1>2

(* Whatever fails, overlaps or dies, every file that is there when the     *)
(* runner is answered is one that its own scrub failed on: one that will   *)
(* not go keeps no other (http_ctrl.rs, remove_cred_files).                *)
THEOREM FailuresStayLocal == SpecF => []FailuresDoNotSpread
<1>1. InitF => IInv /\ FailuresInv
  <2>1. InitF => FailuresInv
    BY DEF InitF, InitB, Init, FailuresInv, NoneSpared, SparedSoFar, FailuresDoNotSpread
  <2> QED
    BY <2>1, InvInit DEF InitF, InitB
<1>2. IInv /\ FailuresInv /\ [Next /\ Watch /\ Notice]_<<vars, steady, spared>>
        => IInv' /\ FailuresInv'
  <2>1. IInv /\ [Next /\ Watch /\ Notice]_<<vars, steady, spared>> => IInv'
    BY InvNext DEF vars
  <2>2. CASE Next /\ Notice
    BY <2>1, <2>2, FailuresNext
  <2>3. FailuresInv /\ UNCHANGED <<vars, steady, spared>> => FailuresInv'
    BY DEF FailuresInv, SparedSoFar, FailuresDoNotSpread, UrlsPresent, vars
  <2> QED  BY <2>1, <2>2, <2>3
<1>3. FailuresInv => FailuresDoNotSpread
  BY DEF FailuresInv
<1> QED
  BY <1>1, <1>2, <1>3, PTL DEF SpecF


-----------------------------------------------------------------------------
(* A task's locals are empty wherever its handler does not use them: each  *)
(* action that leaves a point clears what it used there.                   *)
LEMMA LocalsAtPcNext == IInv /\ LocalsAtPc /\ [Next]_vars => LocalsAtPc'
<1> SUFFICES ASSUME IInv, LocalsAtPc, [Next]_vars PROVE LocalsAtPc'
  OBVIOUS
<1> USE DEF IInv, TypeOK, LocalsAtPc
<1>1. CASE Supervisor
  BY <1>1 DEF Supervisor, WriteUrl, WriteForge, WriteAuthkeys
<1>2. CASE Process
  BY <1>2 DEF Process, Start, OpenCapsDir, ScanEntry, Serve, HttpExit, Exit
<1>3. CASE Runner
  BY <1>3 DEF Runner, AskScrub, Accept, GiveUp, Pause, Restore
<1>4. ASSUME NEW t \in Tasks, Handle(t) PROVE LocalsAtPc'
  <2> USE DEF Goto, Answer, Picked
  <2>1. CASE ListCaps(t) \/ StartOp(t) \/ RefuseOp(t)
    BY <2>1 DEF ListCaps, StartOp, RefuseOp
  <2>2. CASE ScrubCell(t) \/ ScrubClear(t) \/ ListUrls(t)
    BY <2>2 DEF ScrubCell, ScrubClear, ListUrls
  <2>3. ASSUME NEW r \in Repos, RemoveUrl(t, r) PROVE LocalsAtPc'
    BY <2>3 DEF RemoveUrl
  <2>4. CASE RemoveAuthkeys(t) \/ RemoveForge(t)
    BY <2>4 DEF RemoveAuthkeys, RemoveForge
  <2>5. CASE ReadCap(t) \/ Authorize(t)
    BY <2>5 DEF ReadCap, Authorize
  <2>6. CASE Deliver(t) \/ LoseReply(t)
    BY <2>6 DEF Deliver, LoseReply, Hangup
  <2> QED
    BY <1>4, <2>1, <2>2, <2>3, <2>4, <2>5, <2>6 DEF Handle
<1>5. ASSUME NEW t \in Tasks, FinishOp(t) PROVE LocalsAtPc'
  BY <1>5 DEF FinishOp, Goto, Answer
<1>6. ASSUME NEW t \in Tasks, NEW q \in Requests, Arrive(t, q) PROVE LocalsAtPc'
  BY <1>6 DEF Arrive, Accept
<1>7. CASE UNCHANGED vars
  BY <1>7 DEF vars
<1> QED
  BY <1>1, <1>2, <1>3, <1>4, <1>5, <1>6, <1>7 DEF Next

-----------------------------------------------------------------------------
(* What one step of the system does to a task and to the cell, whoever     *)
(* takes it: all that the history depends on.                              *)
StepOf(t) ==
  /\ pc[t] = "idle" /\ pc'[t] # "idle" =>
       /\ pc'[t] = "arrived" /\ dir' = dir
       /\ snap'[t] = snap[t] /\ listed'[t] = listed[t]
       /\ held'[t] = held[t] /\ reply'[t] = reply[t]
  /\ snap'[t] \in {snap[t], NoCreds, cell}
  /\ listed'[t] \in {listed[t], {}, CapNames(cell)}
  /\ held'[t] \in {held[t], None, Trimmed(dir.authkeys)}
  /\ pc[t] # "idle" /\ pc'[t] # "idle" => req'[t] = req[t]
  /\ req[t].op = "add_key" /\ reply'[t] = "ok" => reply[t] = "ok" \/ held[t] # None
  /\ pc'[t] \in {"forge", "replied"} /\ req'[t].op = "http_scrub" /\ ~IoFails =>
       pc[t] \in {"forge", "replied"} \/ dir'.authkeys = None

(* And every handler's step does no more than this.                        *)
LEMMA StepFacts ==
  ASSUME IInv, LocalsAtPc, [Next]_vars, NEW t \in Tasks
  PROVE  StepOf(t)
<1> USE DEF IInv, TypeOK, StepOf
<1>1. CASE Supervisor
  BY <1>1 DEF Supervisor, WriteUrl, WriteForge, WriteAuthkeys
<1>2. CASE Process
  BY <1>2 DEF Process, Start, OpenCapsDir, ScanEntry, Serve, HttpExit, Exit
<1>3. CASE Runner
  BY <1>3 DEF Runner, AskScrub, Accept, GiveUp, Pause, Restore
<1>4. ASSUME NEW u \in Tasks, Handle(u) PROVE StepOf(t)
  <2> USE DEF Goto, Answer, Picked
  <2>1. CASE ListCaps(u) \/ StartOp(u) \/ RefuseOp(u)
    BY <2>1 DEF ListCaps, StartOp, RefuseOp, UpstreamOps, ForgeOps
  <2>2. CASE ScrubCell(u) \/ ScrubClear(u) \/ ListUrls(u)
    BY <2>2 DEF ScrubCell, ScrubClear, ListUrls
  <2>3. ASSUME NEW r \in Repos, RemoveUrl(u, r) PROVE StepOf(t)
    BY <2>3 DEF RemoveUrl
  <2>4. CASE RemoveAuthkeys(u)
    BY <2>4 DEF RemoveAuthkeys, Remove, CapFiles
  <2>5. CASE RemoveForge(u)
    BY <2>5 DEF RemoveForge, LocalsAtPc
  <2>6. CASE ReadCap(u)
    BY <2>6 DEF ReadCap
  <2>7. CASE Authorize(u)
    BY <2>7 DEF Authorize, Authorized, OpAtPc
  <2>8. CASE Deliver(u) \/ LoseReply(u)
    BY <2>8 DEF Deliver, LoseReply, Hangup
  <2> QED
    BY <1>4, <2>1, <2>2, <2>3, <2>4, <2>5, <2>6, <2>7, <2>8 DEF Handle
<1>5. ASSUME NEW u \in Tasks, FinishOp(u) PROVE StepOf(t)
  BY <1>5 DEF FinishOp, Goto, Answer, OpAtPc, UpstreamOps, ForgeOps
<1>6. ASSUME NEW u \in Tasks, NEW q \in Requests, Arrive(u, q) PROVE StepOf(t)
  BY <1>6 DEF Arrive, Accept
<1>7. CASE UNCHANGED vars
  BY <1>7 DEF vars
<1> QED
  BY <1>1, <1>2, <1>3, <1>4, <1>5, <1>6, <1>7 DEF Next

(* An empty cell of a serving process stays empty. *)
LEMMA CellStaysEmpty ==
  ASSUME IInv, [Next]_vars, proc = "serving", cell = NoCreds
  PROVE  cell' = NoCreds
<1> USE DEF IInv, TypeOK
<1>1. CASE Supervisor
  BY <1>1 DEF Supervisor, WriteUrl, WriteForge, WriteAuthkeys
<1>2. CASE Process
  BY <1>2 DEF Process, Start, OpenCapsDir, ScanEntry, Serve, HttpExit, Exit
<1>3. CASE Runner
  BY <1>3 DEF Runner, AskScrub, Accept, GiveUp, Pause, Restore
<1>4. ASSUME NEW t \in Tasks, Handle(t) PROVE cell' = NoCreds
  <2>1. CASE ScrubCell(t)
    BY <2>1, OverwrittenNothing DEF ScrubCell
  <2>2. CASE ScrubClear(t)
    BY <2>2, ClearedIsNothing DEF ScrubClear
  <2> QED
    BY <1>4, <2>1, <2>2 DEF Handle, ListCaps, StartOp, RefuseOp, ListUrls, RemoveUrl,
       RemoveAuthkeys, RemoveForge, ReadCap, Authorize, Deliver, LoseReply, Hangup
<1>5. ASSUME NEW t \in Tasks, FinishOp(t) PROVE cell' = NoCreds
  BY <1>5 DEF FinishOp
<1>6. ASSUME NEW t \in Tasks, NEW q \in Requests, Arrive(t, q) PROVE cell' = NoCreds
  BY <1>6 DEF Arrive, Accept
<1>7. CASE UNCHANGED vars
  BY <1>7 DEF vars
<1> QED
  BY <1>1, <1>2, <1>3, <1>4, <1>5, <1>6, <1>7 DEF Next

(* Empty creds have no names. *)
LEMMA NothingNamed == CapNames(NoCreds) = {}
  BY DEF CapNames, NoCreds, NoUrls

-----------------------------------------------------------------------------
(* The history, step by step. *)

(* The history keeps its types.                                            *)
LEMMA HistoryTypeNext ==
  ASSUME TypeOK, HistoryType, Record
  PROVE  HistoryType'
<1>1. \A t \in Tasks : req[t].op \in ScrubOps \/ t \notin Completed
  BY DEF Completed
<1>2. sealed' \subseteq ScrubOps
  BY <1>1 DEF Record, HistoryType, Completed
<1>3. after' \in [Tasks -> [ram : BOOLEAN, cap : SUBSET ScrubOps, clean : BOOLEAN]]
  <2> SUFFICES ASSUME NEW t \in Tasks
               PROVE  after'[t] \in [ram : BOOLEAN, cap : SUBSET ScrubOps, clean : BOOLEAN]
    BY DEF Record
  <2> QED
    BY DEF Record, Noted, HistoryType, NoAfter
<1>4. dropped' \in BOOLEAN
  BY DEF Record
<1> QED
  BY <1>2, <1>3, <1>4 DEF HistoryType

(* Once an acknowledged scrub has emptied the cell it stays empty, and so  *)
(* do the hands of the requests that arrived since.                        *)
LEMMA DroppedNext ==
  ASSUME HInv, [Next]_vars, Record
  PROVE  DroppedStaysDropped'
<1> USE DEF HInv
<1>1. IInv'
  BY InvNext
<1>2. ASSUME dropped' PROVE proc' = "serving" /\ cell' = NoCreds
  <2>1. proc' = "serving" /\ (dropped \/ Completed # {})
    BY <1>2 DEF Record
  <2>2. ASSUME NEW t \in Completed PROVE proc = "serving" /\ cell = NoCreds
    BY <2>2 DEF Completed, IInv, NothingBeforeServing, ClearedByScrub
  <2>3. proc = "serving" /\ cell = NoCreds
    BY <2>1, <2>2 DEF DroppedStaysDropped
  <2> QED
    BY <2>1, <2>3, CellStaysEmpty
<1>3. ASSUME NEW t \in Tasks, after'[t].ram
      PROVE  dropped' /\ snap'[t] = NoCreds /\ listed'[t] = {}
  <2>1. pc'[t] # "idle"
    BY <1>3 DEF Record, NoAfter
  <2>2. proc' = "serving"
    BY <1>1, <2>1 DEF IInv, NothingBeforeServing
  <2>3. StepOf(t)
    BY StepFacts
  <2>4. CASE pc[t] = "idle"
    <3>1. dropped /\ ~Refilled
      <4>1. dropped /\ dir' = dir
        BY <1>3, <2>1, <2>3, <2>4 DEF Record, Noted, StepOf
      <4> QED
        BY <4>1 DEF Refilled
    <3>2. snap[t] = NoCreds /\ listed[t] = {}
      BY <2>4 DEF LocalsAtPc
    <3> QED
      BY <2>1, <2>2, <2>3, <2>4, <3>1, <3>2 DEF Record, StepOf
  <2>5. CASE pc[t] # "idle"
    <3>1. after[t].ram /\ ~Refilled
      BY <1>3, <2>1, <2>5 DEF Record, HistoryType
    <3>2. dropped /\ snap[t] = NoCreds /\ listed[t] = {} /\ cell = NoCreds
      BY <3>1 DEF DroppedStaysDropped
    <3> QED
      BY <2>2, <2>3, <3>1, <3>2, NothingNamed DEF Record, StepOf
  <2> QED  BY <2>4, <2>5
<1> QED
  BY <1>2, <1>3 DEF DroppedStaysDropped

(* authkeys.cap stays away until it is written, and until then no request  *)
(* that arrived after the scrub reads a cap.                               *)
LEMMA SealedNext ==
  ASSUME HInv, [Next]_vars, Record, ~IoFails
  PROVE  SealedStaysSealed'
<1> USE DEF HInv
<1>1. SealedStaysSealed
  OBVIOUS
<1>2. ASSUME ~Written, dir.authkeys = None PROVE dir'.authkeys = None
  BY <1>2 DEF Written
<1>3. ASSUME "http_scrub" \in sealed' PROVE dir'.authkeys = None
  <2>1. ~Written
    BY <1>3 DEF Record
  <2>2. CASE "http_scrub" \in sealed
    BY <1>1, <1>2, <2>1, <2>2 DEF SealedStaysSealed
  <2>3. CASE "http_scrub" \notin sealed
    <3>1. PICK t \in Completed : after[t].clean /\ req[t].op = "http_scrub"
      BY <1>3, <2>1, <2>3 DEF Record
    <3>2. dir.authkeys = None
      BY <1>1, <3>1 DEF SealedStaysSealed, Completed
    <3> QED  BY <1>2, <2>1, <3>2
  <2> QED  BY <2>2, <2>3
<1>4. ASSUME NEW t \in Tasks, pc'[t] \in {"forge", "replied"}, req'[t].op = "http_scrub",
             after'[t].clean
      PROVE  dir'.authkeys = None
  <2>1. StepOf(t)
    BY StepFacts
  <2>2. pc[t] # "idle" /\ pc'[t] # "idle"
    BY <1>4, <2>1 DEF StepOf
  <2>0. req[t].op = "http_scrub"
    BY <1>4, <2>1, <2>2 DEF StepOf
  <2>3. ~Written /\ after[t].clean
    BY <1>4, <2>0, <2>2 DEF Record, HistoryType, ScrubOps
  <2>4. CASE pc[t] \in {"forge", "replied"}
    <3>1. req[t].op = "http_scrub"
      BY <2>0
    <3> QED  BY <1>1, <1>2, <2>3, <2>4, <3>1 DEF SealedStaysSealed
  <2> QED  BY <1>4, <2>1, <2>4 DEF StepOf
<1>5. ASSUME NEW t \in Tasks, "http_scrub" \in after'[t].cap
      PROVE  /\ dir'.authkeys = None /\ held'[t] = None
             /\ req'[t].op = "add_key" => reply'[t] # "ok"
  <2>1. StepOf(t)
    BY StepFacts
  <2>2. pc'[t] # "idle"
    BY <1>5 DEF Record, NoAfter
  <2>3. CASE pc[t] = "idle"
    <3>1. "http_scrub" \in sealed
      BY <1>5, <2>2, <2>3 DEF Record, Noted
    <3>2. held[t] = None /\ reply[t] = "none"
      BY <2>3 DEF LocalsAtPc
    <3> QED
      BY <1>1, <2>1, <2>2, <2>3, <3>1, <3>2 DEF SealedStaysSealed, StepOf
  <2>4. CASE pc[t] # "idle"
    <3>1. ~Written /\ "http_scrub" \in after[t].cap
      BY <1>5, <2>2, <2>4 DEF Record, HistoryType
    <3>2. /\ dir.authkeys = None /\ held[t] = None
          /\ req[t].op = "add_key" => reply[t] # "ok"
      BY <1>1, <3>1 DEF SealedStaysSealed
    <3>3. Trimmed(dir.authkeys) = None
      BY <3>2, CredsAssumption DEF Trimmed
    <3> QED
      BY <1>2, <2>1, <2>2, <2>4, <3>1, <3>2, <3>3 DEF StepOf
  <2> QED  BY <2>3, <2>4
<1> QED
  BY <1>3, <1>4, <1>5 DEF SealedStaysSealed

-----------------------------------------------------------------------------
(* The inductive invariant of broker and history together.                 *)
THEOREM HistoryInvariant == SpecH => []HInv
<1> USE DEF history
<1>1. InitH => HInv
  <2> SUFFICES ASSUME InitB, Init, HistoryInit PROVE HInv
    BY DEF InitH, InitB
  <2>1. LocalsAtPc
    BY DEF Init, LocalsAtPc
  <2>2. HistoryType /\ DroppedStaysDropped /\ SealedStaysSealed
    BY DEF Init, HistoryInit, NoAfter, HistoryType, DroppedStaysDropped, SealedStaysSealed
  <2> QED
    BY <2>1, <2>2, InvInit, BootInvInit DEF HInv
<1>2. HInv /\ [Next /\ Watch /\ Record]_<<vars, steady, history>> => HInv'
  <2> SUFFICES ASSUME HInv, [Next /\ Watch /\ Record]_<<vars, steady, history>> PROVE HInv'
    OBVIOUS
  <2>0. IInv' /\ BootInv' /\ LocalsAtPc'
    BY InvNext, BootInvNext, LocalsAtPcNext DEF HInv
  <2>1. CASE Next /\ Record
    <3>1. HistoryType' /\ DroppedStaysDropped'
      BY <2>1, HistoryTypeNext, DroppedNext DEF HInv, IInv
    <3>2. ~IoFails => SealedStaysSealed'
      BY <2>1, SealedNext
    <3> QED  BY <2>0, <3>1, <3>2 DEF HInv
  <2>2. CASE UNCHANGED <<vars, steady, history>>
    <3>1. HistoryType' /\ DroppedStaysDropped' /\ (SealedStaysSealed => SealedStaysSealed')
      BY <2>2 DEF HInv, vars, HistoryType, DroppedStaysDropped, SealedStaysSealed
    <3> QED  BY <2>0, <3>1 DEF HInv
  <2> QED  BY <2>1, <2>2
<1> QED
  BY <1>1, <1>2, PTL DEF SpecH

(* The history only watches: with it the machine makes no step it would    *)
(* not make without, so whatever is proved of Custody and of its boot      *)
(* holds here too.                                                         *)
THEOREM HistoryWatches == SpecH => SpecB /\ Spec
<1>1. [Next /\ Watch /\ Record]_<<vars, steady, history>> =>
        [Next /\ Watch]_<<vars, steady>> /\ [Next]_vars
  OBVIOUS
<1>2. InitH => InitB /\ Init
  BY DEF InitH, InitB
<1> QED
  BY <1>1, <1>2, PTL DEF SpecH, SpecB, Spec

(* After an acknowledged scrub, over either channel, no request that       *)
(* arrives at this process sees a credential until a fresh one is written, *)
(* whatever fails.                                                         *)
THEOREM ScrubsAreProcessWide == SpecH => []ScrubIsProcessWide
<1>1. HInv => ScrubIsProcessWide
  BY DEF HInv, DroppedStaysDropped, ScrubIsProcessWide
<1> QED
  BY <1>1, HistoryInvariant, PTL

(* After an acknowledged HTTP scrub add-key refuses every request that     *)
(* arrives before its cap is written again, provided that removing the     *)
(* file works.                                                             *)
THEOREM AddKeyFailsClosed ==
  ASSUME ~IoFails
  PROVE  SpecH => []FailsClosedAfterHttpScrub
<1>1. HInv => FailsClosedAfterHttpScrub
  BY DEF HInv, SealedStaysSealed, FailsClosedAfterHttpScrub
<1> QED
  BY <1>1, HistoryInvariant, PTL
=============================================================================
