---------------------------- MODULE GitOpsProofs ----------------------------
(***************************************************************************)
(* Any projects, names, operations and commits: an op keeps to its own     *)
(* project and cap, replies show no cap-URL the sanitiser could know, and  *)
(* the sha that answers an undisturbed push is the one at the remote.      *)
(***************************************************************************)
EXTENDS GitOps, TLAPS

USE GitOpsAssumption
USE DEF world, task

(* What a job is made of. *)
LEMMA JobFacts ==
  /\ \A j \in Jobs : j.op \in Ops /\ j.repo \in Repos /\ j.cap \in Spellings
  /\ NoJob.op = "none" /\ NoJob.repo \notin Repos /\ NoJob.cap = "none"
  /\ "none" \notin Ops /\ "push" \in Ops /\ "none" \in Spellings
BY DEF Jobs, NoJob, Ops, Spellings

(* The commit numbers the proofs name.                                     *)
LEMMA CommitFacts == NoCommit \in Commits /\ 1 \in Commits
BY DEF Commits, NoCommit

USE JobFacts, CommitFacts

(* Before any operation nothing is shown, held or answered.                *)
LEMMA InitInv == Init => IInv
<1> SUFFICES ASSUME Init PROVE IInv
  OBVIOUS
<1> USE DEF Init
<1>1. TypeOK
  BY DEF TypeOK, Remotes
<1>2. /\ NoEarlyReply /\ OwnProjectOwnCap /\ OnlyForgottenCapsShow
      /\ AnsweredShaIsPushed /\ OutputOfCapRemote /\ LonePushIsLevel
  BY DEF NoEarlyReply, OwnProjectOwnCap, OnlyForgottenCapsShow,
         AnsweredShaIsPushed, OutputOfCapRemote, LonePushIsLevel
<1>3. CapsComeFromTheBroker
  BY DEF CapsComeFromTheBroker
<1> QED  BY <1>1, <1>2, <1>3 DEF IInv

(* A step of somebody else leaves alone only those whose project it is not *)
(* about.                                                                  *)
LEMMA TouchType ==
  ASSUME TypeOK, NEW r, NEW who, Touch(r, who)
  PROVE  alone' \in [Tasks -> BOOLEAN]
<1>1. \A t \in Tasks : (alone[t] /\ (t \in who \/ job[t].repo # r)) \in BOOLEAN
  BY Zenon DEF TypeOK
<1> QED  BY <1>1, Zenon DEF Touch

(* The agent and other clients. *)
LEMMA OthersInv ==
  ASSUME IInv, NEW r \in Repos,
         Commit(r) \/ Configure(r) \/ Discard(r) \/ \E m \in Remotes : OtherPush(r, m)
  PROVE  IInv'
<1> USE DEF IInv
<1>1. Touch(r, {}) /\ UNCHANGED <<caps, task, shown, forgotten>>
  BY DEF Commit, Configure, Discard, OtherPush
<1>2. \A t \in Tasks : alone'[t] => alone[t] /\ job[t].repo # r
  BY <1>1, Zenon DEF Touch
<1>3. /\ head' \in [Repos -> Commits] /\ origin' \in [Repos -> Remotes \cup {"none"}]
      /\ tip' \in [Repos -> [Remotes -> Commits]] /\ commits' \in Commits
      /\ \A q \in Repos : q # r => UNCHANGED <<head[q], origin[q], tip[q]>>
      /\ \A q \in Repos : origin'[q] = "cap" => origin[q] = "cap"
  <2>1. CASE Commit(r)
    BY <2>1 DEF TypeOK, Commit, Commits
  <2>2. CASE Configure(r) \/ Discard(r)
    BY <2>2 DEF TypeOK, Configure, Discard, Remotes
  <2>3. ASSUME NEW m \in Remotes, OtherPush(r, m)
        PROVE  /\ tip' \in [Repos -> [Remotes -> Commits]] /\ commits' \in Commits
               /\ \A q \in Repos : q # r => tip'[q] = tip[q]
    BY <2>3 DEF TypeOK, OtherPush, Commits
  <2> QED  BY <2>1, <2>2, <2>3 DEF OtherPush, TypeOK
<1>4. TypeOK'
  BY <1>1, <1>3, TouchType DEF TypeOK
<1>5. NoEarlyReply' /\ OwnProjectOwnCap' /\ OnlyForgottenCapsShow' /\ OutputOfCapRemote'
  BY <1>1 DEF NoEarlyReply, OwnProjectOwnCap, OnlyForgottenCapsShow, OutputOfCapRemote
<1>6. CapsComeFromTheBroker'
  BY <1>1, <1>3 DEF CapsComeFromTheBroker, Known
<1>7. AnsweredShaIsPushed' /\ LonePushIsLevel'
  <2> SUFFICES ASSUME NEW t \in Tasks, alone'[t], job[t].op = "push"
               PROVE  /\ reply[t] = "ok" => sha[t] = tip[job[t].repo][Target(t)]'
                      /\ pc[t] = "done" => (head[job[t].repo] = tip[job[t].repo][Target(t)])'
    BY <1>1 DEF AnsweredShaIsPushed, LonePushIsLevel
  <2>1. job[t].repo \in Repos /\ job[t].repo # r /\ alone[t]
    BY <1>2 DEF TypeOK
  <2> QED  BY <2>1, <1>1, <1>3 DEF Target, AnsweredShaIsPushed, LonePushIsLevel
<1> QED  BY <1>4, <1>5, <1>6, <1>7

(* Scrub and restart. *)
LEMMA HoldsInv == IInv /\ (Scrub \/ Restart) => IInv'
<1> SUFFICES ASSUME IInv, Scrub \/ Restart PROVE IInv'
  OBVIOUS
<1> USE DEF IInv
<1>1. PICK C \in [Repos -> Spellings] :
        /\ Holds(C)
        /\ \A t \in Tasks : pc[t] # "idle" => \A r \in Repos : C[r] = "none"
  BY DEF Scrub, Restart
<1> USE <1>1 DEF Holds
<1>2. TypeOK' /\ NoEarlyReply' /\ OutputOfCapRemote'
  BY DEF TypeOK, NoEarlyReply, OutputOfCapRemote
<1>3. OwnProjectOwnCap'
  BY DEF OwnProjectOwnCap, TypeOK
<1>4. OnlyForgottenCapsShow'
  BY DEF OnlyForgottenCapsShow, TypeOK
<1>5. CapsComeFromTheBroker'
  BY DEF CapsComeFromTheBroker, Known, TypeOK
<1>6. AnsweredShaIsPushed' /\ LonePushIsLevel'
  BY DEF AnsweredShaIsPushed, LonePushIsLevel, Target
<1> QED  BY <1>2, <1>3, <1>4, <1>5, <1>6

(* A refused name starts nothing.                                          *)
LEMMA RefuseInv ==
  ASSUME IInv, NEW t \in Tasks, NEW n \in Names, Refuse(t, n) PROVE IInv'
<1> USE DEF IInv, Refuse, Answer
<1>1. TypeOK'
  BY DEF TypeOK
<1>2. NoEarlyReply' /\ OwnProjectOwnCap' /\ OnlyForgottenCapsShow' /\ OutputOfCapRemote'
  BY DEF TypeOK, NoEarlyReply, OwnProjectOwnCap, OnlyForgottenCapsShow, OutputOfCapRemote
<1>3. CapsComeFromTheBroker'
  BY DEF TypeOK, CapsComeFromTheBroker, Known
<1>4. AnsweredShaIsPushed' /\ LonePushIsLevel'
  BY DEF TypeOK, AnsweredShaIsPushed, LonePushIsLevel, Target
<1> QED  BY <1>1, <1>2, <1>3, <1>4

(* A safe name leads to its own project, whose cap-URL the call takes.     *)
LEMMA CallInv ==
  ASSUME IInv, NEW t \in Tasks, NEW n \in Names, NEW op \in Ops, Call(t, n, op)
  PROVE  IInv'
<1> DEFINE r == n.comps[1]
<1> USE DEF IInv, Call, Safe
<1>0. /\ r \in Repos /\ n.exact /\ Len(n.comps) = 1 /\ pc[t] = "idle"
      /\ UNCHANGED <<head, origin, tip, commits, caps, out, shown, forgotten>>
  OBVIOUS
<1>1. /\ job' = [job EXCEPT ![t] = [op |-> op, repo |-> r, cap |-> caps[r]]]
      /\ pc' = [pc EXCEPT ![t] = "git"] /\ name' = [name EXCEPT ![t] = n]
      /\ reply' = [reply EXCEPT ![t] = "none"] /\ sha' = [sha EXCEPT ![t] = NoCommit]
  OBVIOUS
<1>2. alone' \in [Tasks -> BOOLEAN] /\ \A u \in Tasks \ {t} : alone'[u] => alone[u]
  <2> DEFINE A(u) == IF u = t THEN \A v \in Tasks : pc[v] # "idle" => job[v].repo # r
                              ELSE alone[u] /\ job[u].repo # r
  <2>1. alone' = [u \in Tasks |-> A(u)]
    OBVIOUS
  <2>2. \A u \in Tasks : A(u) \in BOOLEAN
    BY Zenon DEF TypeOK
  <2>3. \A u \in Tasks \ {t} : A(u) => alone[u]
    BY Zenon
  <2> HIDE DEF A
  <2> QED  BY <2>1, <2>2, <2>3, Zenon
<1>3. job'[t] \in Jobs /\ job'[t].repo = r /\ job'[t].cap = caps[r]
  BY <1>0, <1>1 DEF TypeOK, Jobs
<1> HIDE DEF Call, Safe
<1>4. TypeOK'
  BY <1>0, <1>1, <1>2, <1>3 DEF TypeOK
<1>5. NoEarlyReply' /\ OnlyForgottenCapsShow' /\ OutputOfCapRemote'
  BY <1>0, <1>1, <1>3 DEF TypeOK, NoEarlyReply, OnlyForgottenCapsShow, OutputOfCapRemote
<1>6. OwnProjectOwnCap'
  <2>1. Leads(n.comps, r)
    BY <1>0 DEF Leads
  <2> QED  BY <2>1, <1>0, <1>1, <1>3 DEF TypeOK, OwnProjectOwnCap
<1>7. CapsComeFromTheBroker'
  BY <1>0, <1>1, <1>3 DEF TypeOK, CapsComeFromTheBroker, Known
<1>8. AnsweredShaIsPushed' /\ LonePushIsLevel'
  <2>1. reply'[t] = "none" /\ pc'[t] = "git"
    BY <1>1 DEF TypeOK
  <2>2. \A u \in Tasks \ {t} : UNCHANGED <<job[u], pc[u], reply[u], sha[u]>>
    BY <1>1 DEF TypeOK
  <2> QED
    BY <2>1, <2>2, <1>0, <1>2 DEF AnsweredShaIsPushed, LonePushIsLevel, Target
<1> QED  BY <1>4, <1>5, <1>6, <1>7, <1>8

(* Git that never ran leaves no output and no sha.                         *)
LEMMA SpawnFailsInv ==
  ASSUME IInv, NEW t \in Tasks, SpawnFails(t) PROVE IInv'
<1> USE DEF IInv, SpawnFails, Answer
<1>1. TypeOK' /\ NoEarlyReply' /\ OwnProjectOwnCap' /\ OnlyForgottenCapsShow'
  BY DEF TypeOK, NoEarlyReply, OwnProjectOwnCap, OnlyForgottenCapsShow
<1>2. OutputOfCapRemote' /\ CapsComeFromTheBroker'
  BY DEF TypeOK, OutputOfCapRemote, CapsComeFromTheBroker, Known
<1>3. AnsweredShaIsPushed' /\ LonePushIsLevel'
  BY DEF TypeOK, AnsweredShaIsPushed, LonePushIsLevel, Target
<1> QED  BY <1>1, <1>2, <1>3

(* Git ends: what it did stays with the project of its op. *)
LEMMA GitEndsInv ==
  ASSUME IInv, NEW t \in Tasks, GitEnds(t) PROVE IInv'
<1> DEFINE r == job[t].repo
           m == Target(t)
<1> USE DEF IInv
<1>0. /\ pc[t] = "git" /\ job[t] \in Jobs /\ r \in Repos
      /\ m \in Remotes \cup {"none"} /\ reply[t] = "none"
  BY DEF GitEnds, TypeOK, Target, NoEarlyReply, Remotes
<1>1. /\ Touch(r, {t}) /\ UNCHANGED <<commits, caps, name, job, reply, sha, shown, forgotten>>
      /\ pc' \in {[pc EXCEPT ![t] = "done"], [pc EXCEPT ![t] = "failed"]}
  BY DEF GitEnds, Works
<1>2. /\ head' \in [Repos -> Commits] /\ origin' \in [Repos -> Remotes \cup {"none"}]
      /\ tip' \in [Repos -> [Remotes -> Commits]]
      /\ \A q \in Repos : q # r => UNCHANGED <<head[q], origin[q], tip[q]>>
      /\ origin' # origin => job[t].op = "clone" /\ origin' = [origin EXCEPT ![r] = m]
  <2>1. CASE UNCHANGED world
    BY <2>1 DEF TypeOK
  <2>2. CASE Works(t)
    <3>1. m \in Remotes
      BY <2>2, <1>0 DEF Works
    <3>2. CASE tip' = [tip EXCEPT ![r][m] = head[r]] /\ UNCHANGED <<head, origin>>
      BY <3>1, <3>2, <1>0 DEF TypeOK
    <3>3. CASE UNCHANGED <<head, origin, tip>>
      BY <3>3 DEF TypeOK
    <3>4. CASE /\ job[t].op = "clone" /\ UNCHANGED tip
               /\ head' = [head EXCEPT ![r] = tip[r][m]]
               /\ origin' = [origin EXCEPT ![r] = m]
      BY <3>1, <3>4, <1>0 DEF TypeOK
    <3> QED  BY <2>2, <3>2, <3>3, <3>4 DEF Works
  <2> QED  BY <2>1, <2>2 DEF GitEnds
<1>3. job[t].op = "push" /\ pc'[t] = "done"
        => UNCHANGED <<head, origin>> /\ head[r] = tip'[r][m]
  <2> SUFFICES ASSUME job[t].op = "push", pc'[t] = "done"
               PROVE  UNCHANGED <<head, origin>> /\ head[r] = tip'[r][m]
    OBVIOUS
  <2>1. Works(t)
    BY DEF GitEnds, TypeOK
  <2> QED  BY <2>1, <1>0 DEF Works, TypeOK
<1>4. PICK form \in {"hidden", "bare", "slash"} :
        out' = [out EXCEPT ![t] = form] /\ (form # "hidden" => m = "cap")
  BY DEF GitEnds
<1>5. \A u \in Tasks : alone'[u] => alone[u] /\ (u = t \/ job[u].repo # r)
  BY <1>1, Zenon DEF Touch
<1>6. TypeOK'
  BY <1>0, <1>1, <1>2, <1>4, TouchType DEF TypeOK
<1>7. NoEarlyReply' /\ OwnProjectOwnCap' /\ OnlyForgottenCapsShow'
  BY <1>0, <1>1 DEF TypeOK, NoEarlyReply, OwnProjectOwnCap, OnlyForgottenCapsShow
<1>8. CapsComeFromTheBroker'
  <2>1. origin' # origin /\ m = "cap" => Known(r)
    BY <1>0, <1>2 DEF Target, CapsComeFromTheBroker, Known, TypeOK
  <2> QED  BY <2>1, <1>0, <1>1, <1>2 DEF CapsComeFromTheBroker, Known, TypeOK
<1>9. OutputOfCapRemote'
  <2>1. m = "cap" => job[t].cap # "none" \/ r \in forgotten
    BY <1>0 DEF Target, CapsComeFromTheBroker, Known, OwnProjectOwnCap, TypeOK
  <2> QED  BY <2>1, <1>0, <1>1, <1>4 DEF OutputOfCapRemote, TypeOK
<1>10. AnsweredShaIsPushed'
  <2> SUFFICES ASSUME NEW u \in Tasks, alone'[u], job[u].op = "push", reply[u] = "ok"
               PROVE  sha[u] = tip[job[u].repo][Target(u)]'
    BY <1>1 DEF AnsweredShaIsPushed
  <2>1. job[u].repo \in Repos /\ job[u].repo # r /\ alone[u]
    BY <1>0, <1>5 DEF TypeOK
  <2> QED  BY <2>1, <1>1, <1>2 DEF AnsweredShaIsPushed, Target
<1>11. LonePushIsLevel'
  <2> SUFFICES ASSUME NEW u \in Tasks, alone'[u], job[u].op = "push", pc'[u] = "done"
               PROVE  (head[job[u].repo] = tip[job[u].repo][Target(u)])'
    BY <1>1 DEF LonePushIsLevel
  <2>1. CASE u = t
    BY <2>1, <1>1, <1>3 DEF Target
  <2>2. CASE u # t
    <3>1. job[u].repo \in Repos /\ job[u].repo # r /\ pc[u] = "done" /\ alone[u]
      BY <2>2, <1>1, <1>5 DEF TypeOK
    <3> QED  BY <3>1, <1>1, <1>2 DEF LonePushIsLevel, Target
  <2> QED  BY <2>1, <2>2
<1> QED  BY <1>6, <1>7, <1>8, <1>9, <1>10, <1>11

(* A reply shows only what the sanitiser could not know.                   *)
LEMMA ReturnInv ==
  ASSUME IInv, NEW t \in Tasks, Return(t) PROVE IInv'
<1> DEFINE r == job[t].repo
<1> USE DEF IInv
<1>0. /\ job[t] \in Jobs /\ r \in Repos /\ pc[t] \in {"done", "failed"}
      /\ UNCHANGED <<world, caps, name, job, forgotten, alone>>
  BY DEF Return, TypeOK
<1>1. /\ pc' = [pc EXCEPT ![t] = "idle"] /\ out' = [out EXCEPT ![t] = "hidden"]
      /\ \/ /\ pc[t] = "done" /\ reply' = [reply EXCEPT ![t] = "ok"]
            /\ sha' = [sha EXCEPT ![t] = head[r]]
         \/ reply' = [reply EXCEPT ![t] = "internal"] /\ sha' = [sha EXCEPT ![t] = NoCommit]
  BY DEF Return, Answer
<1>2. shown' = shown \/ (shown' = shown \cup {r} /\ (r \in forgotten \/ caps[r] = "slash"))
  <2>1. ~Sanitized(t) => r \in forgotten \/ caps[r] = "slash"
    <3>1. job[t].cap \in {"none", "plain", "slash"}
      BY <1>0 DEF Spellings
    <3>2. job[t].cap # "none" => r \in forgotten \/ job[t].cap = caps[r]
      BY DEF CapsComeFromTheBroker
    <3>3. ~Sanitized(t) => out[t] # "hidden" /\ job[t].cap # "plain"
      BY DEF Sanitized
    <3>4. out[t] # "hidden" => job[t].cap # "none" \/ r \in forgotten
      BY DEF OutputOfCapRemote
    <3> QED  BY <3>1, <3>2, <3>3, <3>4
  <2> QED  BY <2>1 DEF Return
<1>3. TypeOK'
  <2>1. shown' \subseteq Repos /\ head[r] \in Commits
    BY <1>0, <1>2 DEF TypeOK
  <2>2. reply' \in [Tasks -> {"none", "ok", "invalid", "forbidden", "internal"}]
        /\ sha' \in [Tasks -> Commits]
    <3>1. PICK code \in {"ok", "internal"}, c \in Commits :
            reply' = [reply EXCEPT ![t] = code] /\ sha' = [sha EXCEPT ![t] = c]
      BY <2>1, <1>1
    <3>2. reply' \in [Tasks -> {"none", "ok", "invalid", "forbidden", "internal"}]
      BY <3>1 DEF TypeOK
    <3> QED  BY <3>1, <3>2 DEF TypeOK
  <2> QED  BY <2>1, <2>2, <1>0, <1>1 DEF TypeOK
<1>4. NoEarlyReply' /\ OwnProjectOwnCap' /\ OnlyForgottenCapsShow'
  BY <1>0, <1>1, <1>2 DEF TypeOK, NoEarlyReply, OwnProjectOwnCap, OnlyForgottenCapsShow
<1>5. CapsComeFromTheBroker' /\ OutputOfCapRemote'
  BY <1>0, <1>1 DEF TypeOK, CapsComeFromTheBroker, Known, OutputOfCapRemote
<1>6. AnsweredShaIsPushed' /\ LonePushIsLevel'
  BY <1>0, <1>1 DEF TypeOK, AnsweredShaIsPushed, LonePushIsLevel, Target
<1> QED  BY <1>3, <1>4, <1>5, <1>6

(* The inductive invariant: job, working copy and output trace every       *)
(* cap-URL back to the broker, and a lone push is level with its remote.   *)
THEOREM Invariant == Spec => []IInv
<1>1. IInv /\ [Next]_vars => IInv'
  <2> SUFFICES ASSUME IInv, [Next]_vars PROVE IInv'
    OBVIOUS
  <2>1. CASE UNCHANGED vars
    <3> USE <2>1 DEF vars, IInv
    <3>1. TypeOK' /\ NoEarlyReply' /\ OwnProjectOwnCap' /\ OnlyForgottenCapsShow'
      BY DEF TypeOK, NoEarlyReply, OwnProjectOwnCap, OnlyForgottenCapsShow
    <3>2. CapsComeFromTheBroker' /\ OutputOfCapRemote'
      BY DEF CapsComeFromTheBroker, Known, OutputOfCapRemote
    <3>3. AnsweredShaIsPushed' /\ LonePushIsLevel'
      BY DEF AnsweredShaIsPushed, LonePushIsLevel, Target
    <3> QED  BY <3>1, <3>2, <3>3
  <2>2. CASE Next
    BY <2>2, OthersInv, HoldsInv, RefuseInv, CallInv, SpawnFailsInv, GitEndsInv,
       ReturnInv DEF Next
  <2> QED  BY <2>1, <2>2
<1> QED  BY <1>1, InitInv, PTL DEF Spec

(* Types: an op that runs has a job, whatever name it was asked with.      *)
THEOREM TypeCorrect == Spec => []TypeOK
<1>1. IInv => TypeOK
  BY DEF IInv
<1> QED  BY <1>1, Invariant, PTL

(* However names are spelt, an op that runs git works in the one project   *)
(* its name leads to and takes that project's cap-URL (safe_repo).         *)
THEOREM OpsKeepToTheirProject == Spec => []OwnProjectOwnCap
<1>1. IInv => OwnProjectOwnCap
  BY DEF IInv
<1> QED  BY <1>1, Invariant, PTL

(* While the broker holds a cap-URL that is spelt without a slash at its   *)
(* end, and has not dropped it before, no reply shows it (sanitize).       *)
THEOREM RepliesHideHeldCaps == Spec => []OnlyForgottenCapsShow
<1>1. IInv => OnlyForgottenCapsShow
  BY DEF IInv
<1> QED  BY <1>1, Invariant, PTL

(* A push that nobody disturbs is answered with the sha the remote has,    *)
(* and so it stays until somebody touches the project (head_sha).          *)
THEOREM LoneShaIsPushed == Spec => []AnsweredShaIsPushed
<1>1. IInv => AnsweredShaIsPushed
  BY DEF IInv
<1> QED  BY <1>1, Invariant, PTL
=============================================================================
