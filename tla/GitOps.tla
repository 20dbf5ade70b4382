------------------------------- MODULE GitOps -------------------------------
(***************************************************************************)
(* Git operations (git_ops.rs, with dispatch's clone of the creds): the    *)
(* name is checked, git runs as a subprocess with the cap-URL or `origin`  *)
(* as its remote, its output is sanitised, and HEAD is read for the reply. *)
(* The agent commits in the same working copies, other clients push to the *)
(* same remotes, and a scrub may come at any time.                         *)
(*                                                                         *)
(* A name is the sequence of its path components, and whether it is spelt  *)
(* exactly as its only component; a commit is its serial number.           *)
(***************************************************************************)
EXTENDS Naturals, Sequences

CONSTANTS
  Repos,      (* projects; as a component of a name, Component::Normal     *)
  Names,      (* names that are asked for: [comps, exact]                  *)
  Tasks,      (* operations that can be under way at the same time         *)
  MaxCommits  (* bound: commits made anywhere                              *)

ASSUME GitOpsAssumption ==
  /\ MaxCommits \in Nat \ {0}
  /\ {"none", "current", "parent"} \cap Repos = {}
  /\ \A n \in Names : n.exact \in BOOLEAN

VARIABLES
  head,       (* per project: HEAD of its working copy, NoCommit without   *)
  origin,     (* per project: where its remote `origin` leads              *)
  tip,        (* per project and remote: the branch there                  *)
  commits,    (* commits made so far                                       *)
  caps,       (* per project: its cap-URL in the broker: "none", "plain",  *)
              (* or "slash" when the file's text ends in slashes           *)
  pc, name,   (* per task: where its op stands, and the name it was given, *)
  job,        (* what it does: [op, repo, cap]                             *)
  out,        (* whether git's output shows the cap-URL, and in which form *)
  reply, sha, (* per task: the last reply                                  *)
  shown,      (* history: cap-URLs a reply has shown                       *)
  forgotten,  (* history: cap-URLs the broker held once and then dropped   *)
  alone       (* history, per task: nobody else has touched its project or *)
              (* the remotes of it since it was called                     *)

world == <<head, origin, tip, commits>>
task  == <<pc, name, job, out, reply, sha>>
vars  == <<head, origin, tip, commits, caps, pc, name, job, out, reply, sha,
           shown, forgotten, alone>>

NoCommit == 0
Commits  == 0 .. MaxCommits
Remotes  == {"cap", "user"}
Ops      == {"push", "push_other", "fetch", "clone"}
Spellings == {"none", "plain", "slash"}
NoName   == [comps |-> <<>>, exact |-> FALSE]
Jobs     == [op : Ops, repo : Repos, cap : Spellings]
NoJob    == [op |-> "none", repo |-> "none", cap |-> "none"]

Init ==
  /\ head \in [Repos -> {NoCommit, 1}]
  /\ origin \in [Repos -> {"none", "user"}]
  /\ \A r \in Repos : head[r] = NoCommit => origin[r] = "none"
  /\ tip = [r \in Repos |-> [m \in Remotes |-> 1]]
  /\ commits = 1
  /\ caps \in [Repos -> Spellings]
  /\ pc = [t \in Tasks |-> "idle"] /\ name = [t \in Tasks |-> NoName]
  /\ job = [t \in Tasks |-> NoJob] /\ out = [t \in Tasks |-> "hidden"]
  /\ reply = [t \in Tasks |-> "none"] /\ sha = [t \in Tasks |-> NoCommit]
  /\ shown = {} /\ forgotten = {}
  /\ alone = [t \in Tasks |-> FALSE]

-----------------------------------------------------------------------------
(* Somebody other than `who` touches project r or its remotes. *)
Touch(r, who) ==
  alone' = [t \in Tasks |-> alone[t] /\ (t \in who \/ job[t].repo # r)]

(* The agent commits; another client pushes. *)
Commit(r) ==
  /\ head[r] # NoCommit /\ commits < MaxCommits
  /\ commits' = commits + 1
  /\ head' = [head EXCEPT ![r] = commits']
  /\ Touch(r, {})
  /\ UNCHANGED <<origin, tip, caps, task, shown, forgotten>>

OtherPush(r, m) ==
  /\ commits < MaxCommits
  /\ commits' = commits + 1
  /\ tip' = [tip EXCEPT ![r][m] = commits']
  /\ Touch(r, {})
  /\ UNCHANGED <<head, origin, caps, task, shown, forgotten>>

(* The agent points `origin` elsewhere, or throws its working copy away.   *)
Configure(r) ==
  /\ head[r] # NoCommit /\ origin' = [origin EXCEPT ![r] = "user"]
  /\ Touch(r, {})
  /\ UNCHANGED <<head, tip, commits, caps, task, shown, forgotten>>

Discard(r) ==
  /\ head' = [head EXCEPT ![r] = NoCommit]
  /\ origin' = [origin EXCEPT ![r] = "none"]
  /\ Touch(r, {})
  /\ UNCHANGED <<tip, commits, caps, task, shown, forgotten>>

(* A scrub, and a restart that loads the cap files of then. *)
Holds(C) ==
  /\ caps' = C
  /\ forgotten' = forgotten \cup {r \in Repos : caps[r] \notin {"none", C[r]}}
  /\ UNCHANGED <<world, task, shown, alone>>
Scrub   == Holds([r \in Repos |-> "none"])
Restart == (\A t \in Tasks : pc[t] = "idle") /\ \E C \in [Repos -> Spellings] : Holds(C)

-----------------------------------------------------------------------------
(* safe_repo: one normal component, and the name is that component. *)
MutantSafe(n) == Len(n.comps) = 1 /\ n.comps[1] \in Repos
Safe(n) == Len(n.comps) = 1 /\ n.comps[1] \in Repos /\ n.exact

Answer(t, code, commit) ==
  /\ pc' = [pc EXCEPT ![t] = "idle"]
  /\ reply' = [reply EXCEPT ![t] = code]
  /\ sha' = [sha EXCEPT ![t] = commit]

MutantRefuse(t, n) ==
  /\ pc[t] = "idle" /\ ~Safe(n)
  /\ pc' = [pc EXCEPT ![t] = "git"]
  /\ job' = [job EXCEPT ![t] = NoJob]
  /\ UNCHANGED <<world, caps, name, out, reply, sha, shown, forgotten, alone>>
Refuse(t, n) ==
  /\ pc[t] = "idle" /\ ~Safe(n)
  /\ Answer(t, IF n.comps = <<>> THEN "invalid" ELSE "forbidden", NoCommit)
  /\ job' = [job EXCEPT ![t] = NoJob]
  /\ alone' = [alone EXCEPT ![t] = FALSE]
  /\ UNCHANGED <<world, caps, name, out, shown, forgotten>>

(* The creds are cloned and the remote chosen: the cap-URL that is filed   *)
(* under the name, without its trailing slashes, or else `origin`.         *)
Call(t, n, op) ==
  /\ pc[t] = "idle" /\ Safe(n)
  /\ LET r == n.comps[1] IN
     /\ job' = [job EXCEPT ![t] =
          [op |-> op, repo |-> r, cap |-> IF n.exact THEN caps[r] ELSE "none"]]
     /\ alone' = [u \in Tasks |->
          IF u = t THEN \A v \in Tasks : pc[v] # "idle" => job[v].repo # r
                   ELSE alone[u] /\ job[u].repo # r]
  /\ name' = [name EXCEPT ![t] = n]
  /\ pc' = [pc EXCEPT ![t] = "git"]
  /\ reply' = [reply EXCEPT ![t] = "none"]
  /\ sha' = [sha EXCEPT ![t] = NoCommit]
  /\ UNCHANGED <<world, caps, out, shown, forgotten>>

(* Clone runs in the projects directory, and `origin` means nothing there; *)
(* push and fetch run in the working copy.                                 *)
Target(t) ==
  IF job[t].cap # "none" THEN "cap"
  ELSE IF job[t].op = "clone" THEN "none" ELSE origin[job[t].repo]
HasCwd(t) == job[t].op = "clone" \/ head[job[t].repo] # NoCommit

(* No working copy to run in, or no process to be had. *)
SpawnFails(t) ==
  /\ pc[t] = "git"
  /\ Answer(t, "internal", NoCommit)
  /\ UNCHANGED <<world, caps, name, job, out, shown, forgotten, alone>>

(* What git does when it works.  A clone makes the remote it was given the *)
(* new copy's `origin`.                                                    *)
Works(t) ==
  LET r == job[t].repo
      m == Target(t)
  IN  /\ m # "none"
      /\ \/ /\ job[t].op = "push"
            /\ tip' = [tip EXCEPT ![r][m] = head[r]]
            /\ UNCHANGED <<head, origin>>
         \/ /\ job[t].op \in {"push_other", "fetch"}
            /\ UNCHANGED <<head, origin, tip>>
         \/ /\ job[t].op = "clone" /\ head[r] = NoCommit
            /\ head' = [head EXCEPT ![r] = tip[r][m]]
            /\ origin' = [origin EXCEPT ![r] = m]
            /\ UNCHANGED tip
      /\ UNCHANGED commits

(* Git ends; its output may name the remote, as it was given or with a     *)
(* slash behind it.  A failing push may have reached the remote.           *)
GitEnds(t) ==
  /\ pc[t] = "git" /\ HasCwd(t)
  /\ \/ Works(t) /\ pc' = [pc EXCEPT ![t] = "done"]
     \/ Works(t) /\ job[t].op = "push" /\ pc' = [pc EXCEPT ![t] = "failed"]
     \/ UNCHANGED world /\ pc' = [pc EXCEPT ![t] = "failed"]
  /\ \E form \in {"hidden"} \cup IF Target(t) = "cap" THEN {"bare", "slash"} ELSE {} :
       out' = [out EXCEPT ![t] = form]
  /\ Touch(job[t].repo, {t})
  /\ UNCHANGED <<caps, name, job, reply, sha, shown, forgotten>>

(* sanitize strips the cap-URL as its file spells it. *)
MutantSanitized(t) == out[t] = "hidden"
Sanitized(t) ==
  \/ out[t] = "hidden"
  \/ job[t].cap = "plain"
  \/ job[t].cap = "slash" /\ out[t] = "slash"

(* A failure is answered with the output; after a success HEAD is read.    *)
MutantReturn(t) ==
  /\ \/ pc[t] \in {"done", "failed"} /\ Target(t) # "none" /\ Answer(t, "ok", head[job[t].repo])
     \/ pc[t] = "failed" /\ Target(t) = "none" /\ Answer(t, "internal", NoCommit)
  /\ shown' = IF Sanitized(t) THEN shown ELSE shown \cup {job[t].repo}
  /\ out' = [out EXCEPT ![t] = "hidden"]
  /\ UNCHANGED <<world, caps, name, job, forgotten, alone>>
Return(t) ==
  /\ \/ pc[t] = "done" /\ Answer(t, "ok", head[job[t].repo])
     \/ pc[t] = "failed" /\ Answer(t, "internal", NoCommit)
  /\ shown' = IF Sanitized(t) THEN shown ELSE shown \cup {job[t].repo}
  /\ out' = [out EXCEPT ![t] = "hidden"]
  /\ UNCHANGED <<world, caps, name, job, forgotten, alone>>

Next ==
  \/ \E r \in Repos :
       Commit(r) \/ Configure(r) \/ Discard(r) \/ \E m \in Remotes : OtherPush(r, m)
  \/ Scrub \/ Restart
  \/ \E t \in Tasks :
       \/ \E n \in Names : Refuse(t, n) \/ \E op \in Ops : Call(t, n, op)
       \/ SpawnFails(t) \/ GitEnds(t) \/ Return(t)

Spec == Init /\ [][Next]_vars

-----------------------------------------------------------------------------
TypeOK ==
  /\ head \in [Repos -> Commits] /\ origin \in [Repos -> Remotes \cup {"none"}]
  /\ tip \in [Repos -> [Remotes -> Commits]] /\ commits \in Commits
  /\ caps \in [Repos -> Spellings] /\ shown \subseteq Repos /\ forgotten \subseteq Repos
  /\ pc \in [Tasks -> {"idle", "git", "done", "failed"}]
  /\ name \in [Tasks -> Names \cup {NoName}]
  /\ job \in [Tasks -> Jobs \cup {NoJob}]
  /\ \A t \in Tasks : pc[t] # "idle" => job[t] \in Jobs
  /\ out \in [Tasks -> {"hidden", "bare", "slash"}]
  /\ reply \in [Tasks -> {"none", "ok", "invalid", "forbidden", "internal"}]
  /\ sha \in [Tasks -> Commits]
  /\ alone \in [Tasks -> BOOLEAN]

(* The components lead from the projects directory to project r. *)
Leads(comps, r) ==
  \E i \in DOMAIN comps : comps[i] = r /\ \A j \in DOMAIN comps \ {i} : comps[j] = "current"

(* An op that runs git works in the project its name leads to, and with    *)
(* that project's cap-URL whenever the broker holds it: the check of the   *)
(* name, the join with the directory and the lookup under the raw name     *)
(* agree (safe_repo, run_git_op).                                          *)
OwnProjectOwnCap ==
  \A t \in Tasks : pc[t] # "idle" =>
    /\ Leads(name[t].comps, job[t].repo)
    /\ caps[job[t].repo] # "none" => job[t].cap = caps[job[t].repo]

(* A reply shows a cap-URL only where the sanitiser cannot know it as git  *)
(* prints it: its file ends in a slash, or the broker has dropped it while *)
(* a clone had made it the working copy's `origin` (sanitize).             *)
OnlyForgottenCapsShow ==
  \A r \in shown : r \in forgotten \/ caps[r] = "slash"

(* The sha that answers a push is what the remote has, as long as nobody   *)
(* else touches the project: HEAD is read after git has ended, in the same *)
(* working copy, and only when git succeeded (run_git_op, head_sha).       *)
AnsweredShaIsPushed ==
  \A t \in Tasks :
    alone[t] /\ job[t].op = "push" /\ reply[t] = "ok"
      => sha[t] = tip[job[t].repo][Target(t)]

-----------------------------------------------------------------------------
(* The inductive invariant of the proofs. *)

(* A cap-URL that a job or a working copy has, the broker has or had. *)
Known(r) == caps[r] # "none" \/ r \in forgotten
CapsComeFromTheBroker ==
  /\ \A r \in Repos : origin[r] = "cap" => Known(r)
  /\ \A t \in Tasks : job[t].cap # "none" =>
       job[t].repo \in forgotten \/ job[t].cap = caps[job[t].repo]

OutputOfCapRemote ==
  \A t \in Tasks : out[t] # "hidden" =>
    /\ pc[t] \in {"done", "failed"}
    /\ job[t].cap # "none" \/ job[t].repo \in forgotten

(* A lone push left the remote at the working copy's HEAD. *)
LonePushIsLevel ==
  \A t \in Tasks :
    alone[t] /\ job[t].op = "push" /\ pc[t] = "done"
      => head[job[t].repo] = tip[job[t].repo][Target(t)]

NoEarlyReply == \A t \in Tasks : pc[t] # "idle" => reply[t] = "none"

IInv ==
  /\ TypeOK /\ NoEarlyReply /\ OwnProjectOwnCap /\ OnlyForgottenCapsShow /\ AnsweredShaIsPushed
  /\ CapsComeFromTheBroker /\ OutputOfCapRemote /\ LonePushIsLevel
=============================================================================
