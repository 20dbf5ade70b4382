--------------------------- MODULE ForgeRequests ---------------------------
(***************************************************************************)
(* Requests to the forge: the broker's own (provision, list, open_pr,      *)
(* file_url: dispatch.rs, forge/mod.rs, forge/handler.rs) and the calls    *)
(* the client offers besides (create, which also stands for migrate,       *)
(* branches, sync, get, put: forge/client.rs, forge/contents.rs).  Each is *)
(* one or two HTTP calls; a call may be refused, fail, or be carried out   *)
(* and its answer lost or be unreadable; and other users of the forge      *)
(* change what it holds meanwhile.                                         *)
(*                                                                         *)
(* One file per branch, its blob sha standing for its content.             *)
(***************************************************************************)
EXTENDS Naturals

CONSTANTS
  Own,        (* the org slug of the broker's user                         *)
  OtherOrgs,  (* what else may stand before the slash of a name            *)
  Repos,      (* names of repositories                                     *)
  Branches,   (* branches, which every repository has                      *)
  Texts,      (* contents of a file                                        *)
  Tasks       (* requests that can be under way at the same time           *)

ASSUME ForgeAssumption ==
  /\ Own \notin OtherOrgs /\ "bare" \notin {Own} \cup OtherOrgs
  /\ "omitted" \notin Branches /\ "nofile" \notin Texts /\ "none" \notin Repos

VARIABLES
  repos,      (* the forge: the repositories of Own,                       *)
  default,    (* the default branch of each,                               *)
  file,       (* and what the file holds on each branch                    *)
  pc, req,    (* per task: the call under way, and the request             *)
  ref,        (* its branch: as given, or looked up                        *)
  ans, got,   (* the forge's answer, and the branch in it                  *)
  reply,      (* per task: the last reply                                  *)
  done,       (* history: the forge did what the request asks for          *)
  since       (* history: default branches there were during the request   *)

forge == <<repos, default, file>>
vars  == <<repos, default, file, pc, req, ref, ans, got, reply,
           done, since>>

Creates  == {"provision", "create"}
Links    == {"open_pr", "file_url"}
Ops      == Creates \cup Links \cup {"list", "branches", "sync", "get", "put"}
Orgs     == {"bare", Own} \cup OtherOrgs
Refs     == Branches \cup {"omitted"}
Contents == Texts \cup {"nofile"}
Held     == {"none", "admin", "owner"}
Answered == {"success", "partial", "garbled"}
Denied   == {"absent", "refused"}
NoRequest == [op |-> "none", org |-> "bare", repo |-> "none", ref |-> "omitted",
              text |-> "nofile", sha |-> "nofile"]

(* A link without a branch of its own has to look one up. *)
NeedsDefault(q) == q.op \in Links /\ q.ref = "omitted"

(* Only a link may name an org or leave its branch out, only a get may do  *)
(* without a branch besides, and only a put has a text and, if its caller  *)
(* gives one, the sha of what it is to replace.                            *)
Requests ==
  {q \in [op : Ops, org : Orgs, repo : Repos, ref : Refs, text : Contents, sha : Contents] :
     /\ q.op \notin Links => q.org = "bare"
     /\ q.op \notin Links \cup {"get", "put"} => q.ref = "omitted"
     /\ q.op = "put" => q.ref # "omitted"
     /\ q.op = "put" <=> q.text # "nofile"
     /\ q.op # "put" => q.sha = "nofile"}

Init ==
  /\ repos \in SUBSET Repos /\ default \in [Repos -> Branches]
  /\ file \in [Repos -> [Branches -> Contents]]
  /\ pc = [t \in Tasks |-> "idle"] /\ req = [t \in Tasks |-> NoRequest]
  /\ ref = [t \in Tasks |-> "omitted"]
  /\ ans = [t \in Tasks |-> "none"] /\ got = [t \in Tasks |-> "none"]
  /\ reply = [t \in Tasks |-> "none"]
  /\ done = [t \in Tasks |-> FALSE] /\ since = [t \in Tasks |-> {}]

-----------------------------------------------------------------------------
(* The other users of the forge, and the broker's creds. *)
Witness(r, b) ==
  since' = [t \in Tasks |-> IF pc[t] # "idle" /\ NeedsDefault(req[t]) /\ req[t].repo = r
                                 THEN since[t] \cup {b} ELSE since[t]]

ChangeDefault(r, b) ==
  /\ r \in repos /\ default' = [default EXCEPT ![r] = b] /\ Witness(r, b)
  /\ UNCHANGED <<repos, file, pc, req, ref, ans, got, reply, done>>

Commit(r, b, x) ==
  /\ r \in repos /\ file' = [file EXCEPT ![r][b] = x]
  /\ UNCHANGED <<repos, default, pc, req, ref, ans, got, reply, done, since>>

Delete(r) ==
  /\ repos' = repos \ {r}
  /\ UNCHANGED <<default, file, pc, req, ref, ans, got, reply, done, since>>

(* Another user creates it, or a request of the broker's does. *)
New(r) ==
  /\ r \notin repos /\ repos' = repos \cup {r}
  /\ \E b \in Branches : default' = [default EXCEPT ![r] = b] /\ Witness(r, b)
  /\ file' = [file EXCEPT ![r] = [b \in Branches |-> "nofile"]]
Create(r) ==
  /\ New(r)
  /\ UNCHANGED <<pc, req, ref, ans, got, reply, done>>

-----------------------------------------------------------------------------
(* The creds as cloned for the request: the admin token (a legacy file has *)
(* no more) is enough for provision, the other handlers need the owner     *)
(* creds, and the calls besides bring their own (forge_context).           *)
Suffices(c, q) ==
  CASE q.op = "provision" -> c # "none"
    [] q.op \in Links \cup {"list"} -> c = "owner"
    [] OTHER -> TRUE

(* ensure_same_tenant: a bare name, or one below the broker's own org. *)
SameTenant(q) == q.org \in {"bare", Own}

Begin(t, q) ==
  /\ pc[t] = "idle"
  /\ req' = [req EXCEPT ![t] = q]
  /\ ref' = [ref EXCEPT ![t] = q.ref]
  /\ done' = [done EXCEPT ![t] = FALSE]
  /\ since' = [since EXCEPT ![t] = IF NeedsDefault(q) THEN {default[q.repo]} ELSE {}]
  /\ UNCHANGED <<forge, ans, got>>

(* Without or for another org's repository, no call is made. *)
Refuse(t, q, c) ==
  /\ Begin(t, q) /\ UNCHANGED pc
  /\ \/ ~Suffices(c, q) /\ reply' = [reply EXCEPT ![t] = "needs_credential"]
     \/ Suffices(c, q) /\ ~SameTenant(q) /\ reply' = [reply EXCEPT ![t] = "forbidden"]

(* A link with a branch needs no call at all; one without needs the        *)
(* default branch first, as a pull request does.                           *)
Call(t, q, c) ==
  /\ Begin(t, q) /\ Suffices(c, q) /\ SameTenant(q)
  /\ IF q.op = "file_url" /\ q.ref # "omitted"
     THEN UNCHANGED pc /\ reply' = [reply EXCEPT ![t] = "ok"]
     ELSE /\ pc' = [pc EXCEPT ![t] =
               IF NeedsDefault(q) THEN "lookup" ELSE "act"]
          /\ reply' = [reply EXCEPT ![t] = "none"]

(* What the forge does for a call when it can.                             *)
LookUp(t) ==
  /\ req[t].repo \in repos
  /\ got' = [got EXCEPT ![t] = default[req[t].repo]]
  /\ UNCHANGED <<forge, done, since>>

Get(t, r) ==
  /\ r \in repos
  /\ file[r][IF ref[t] = "omitted" THEN default[r] ELSE ref[t]] # "nofile"
  /\ UNCHANGED <<forge, since>>

(* The sha of the request is passed on as it came; it is the forge that    *)
(* compares it with what it holds.                                         *)
Put(t, r) ==
  /\ r \in repos /\ file[r][ref[t]] = req[t].sha
  /\ file' = [file EXCEPT ![r][ref[t]] = req[t].text]
  /\ UNCHANGED <<repos, default, since>>

Act(t) ==
  LET q == req[t] IN
  /\ \/ q.op \in Creates /\ New(q.repo)
     \/ q.op = "get" /\ Get(t, q.repo)
     \/ q.op = "put" /\ Put(t, q.repo)
     \/ q.op \in {"open_pr", "branches", "sync"} /\ q.repo \in repos
        /\ UNCHANGED <<forge, since>>
     \/ q.op = "list" /\ UNCHANGED <<forge, since>>
  /\ done' = [done EXCEPT ![t] = TRUE] /\ UNCHANGED got

(* The forge is done with a call: it says so, in JSON with the fields that *)
(* are read, in other JSON, or in none, or its answer is lost; or it does  *)
(* nothing and says so: a 404 ("absent"), for what is not there or what it *)
(* does not show, another 4xx, or a failure.                               *)
Handle(t) ==
  /\ pc[t] # "idle" /\ ans[t] = "none"
  /\ \/ /\ IF pc[t] = "lookup" THEN LookUp(t) ELSE Act(t)
        /\ \E a \in Answered \cup {"error"} : ans' = [ans EXCEPT ![t] = a]
     \/ /\ \E a \in Denied \cup {"error"} : ans' = [ans EXCEPT ![t] = a]
        /\ UNCHANGED <<forge, got, done, since>>
  /\ UNCHANGED <<pc, req, ref, reply>>

(* The branch that was looked up, for the call to come or for the link.    *)
MutantLookedUp(t) ==
  /\ pc[t] = "lookup" /\ ans[t] = "success"
  /\ ref' = [ref EXCEPT ![t] = CHOOSE main \in Branches : TRUE]
  /\ IF req[t].op = "open_pr"
     THEN pc' = [pc EXCEPT ![t] = "act"] /\ UNCHANGED reply
     ELSE pc' = [pc EXCEPT ![t] = "idle"] /\ reply' = [reply EXCEPT ![t] = "ok"]
  /\ ans' = [ans EXCEPT ![t] = "none"] /\ got' = [got EXCEPT ![t] = "none"]
  /\ UNCHANGED <<forge, req, done, since>>
MutantUnchecked(t) ==
  /\ pc[t] = "lookup" /\ ans[t] # "none"
  /\ ref' = [ref EXCEPT ![t] = got[t]]
  /\ pc' = [pc EXCEPT ![t] = "act"] /\ UNCHANGED reply
  /\ ans' = [ans EXCEPT ![t] = "none"] /\ got' = [got EXCEPT ![t] = "none"]
  /\ UNCHANGED <<forge, req, done, since>>
LookedUp(t) ==
  /\ pc[t] = "lookup" /\ ans[t] = "success"
  /\ ref' = [ref EXCEPT ![t] = got[t]]
  /\ IF req[t].op = "open_pr"
     THEN pc' = [pc EXCEPT ![t] = "act"] /\ UNCHANGED reply
     ELSE pc' = [pc EXCEPT ![t] = "idle"] /\ reply' = [reply EXCEPT ![t] = "ok"]
  /\ ans' = [ans EXCEPT ![t] = "none"] /\ got' = [got EXCEPT ![t] = "none"]
  /\ UNCHANGED <<forge, req, done, since>>

(* The answer's status decides, and then its body, which nothing reads     *)
(* after a sync.  Provision alone puts defaults in the place of missing    *)
(* fields, and alone tells 4xx from 5xx; any 404 is Ok(None) to a get.     *)
Fulfilled(t) ==
  \/ ans[t] = "success"
  \/ ans[t] = "partial" /\ req[t].op \in {"provision", "sync"}
  \/ ans[t] = "garbled" /\ req[t].op = "sync"
MutantCode(t) ==
  CASE Fulfilled(t) -> "ok"
    [] ans[t] = "absent" /\ req[t].op = "get" -> "no_file"
    [] ans[t] \in Denied \cup {"error"} /\ req[t].op = "provision" -> "invalid"
    [] OTHER -> "internal"
Code(t) ==
  CASE Fulfilled(t) -> "ok"
    [] ans[t] = "absent" /\ req[t].op = "get" -> "no_file"
    [] ans[t] \in Denied /\ req[t].op = "provision" -> "invalid"
    [] OTHER -> "internal"

Return(t) ==
  /\ \/ pc[t] = "act" /\ ans[t] # "none" /\ reply' = [reply EXCEPT ![t] = Code(t)]
     \/ pc[t] = "lookup" /\ ans[t] \notin {"none", "success"}
        /\ reply' = [reply EXCEPT ![t] = "internal"]
  /\ pc' = [pc EXCEPT ![t] = "idle"]
  /\ ans' = [ans EXCEPT ![t] = "none"] /\ got' = [got EXCEPT ![t] = "none"]
  /\ UNCHANGED <<forge, req, ref, done, since>>

Next ==
  \/ \E r \in Repos, b \in Branches :
       ChangeDefault(r, b) \/ Create(r) \/ Delete(r) \/ \E x \in Contents : Commit(r, b, x)
  \/ \E t \in Tasks :
       \/ \E q \in Requests : \E c \in Held : Refuse(t, q, c) \/ Call(t, q, c)
       \/ Handle(t) \/ LookedUp(t) \/ Return(t)

Spec == Init /\ [][Next]_vars
-----------------------------------------------------------------------------
TypeOK ==
  /\ repos \subseteq Repos /\ default \in [Repos -> Branches]
  /\ file \in [Repos -> [Branches -> Contents]]
  /\ pc \in [Tasks -> {"idle", "lookup", "act"}]
  /\ req \in [Tasks -> Requests \cup {NoRequest}]
  /\ \A t \in Tasks : pc[t] # "idle" => req[t] \in Requests
  /\ ref \in [Tasks -> Refs]
  /\ ans \in [Tasks -> Answered \cup Denied \cup {"none", "error"}]
  /\ got \in [Tasks -> Branches \cup {"none"}]
  /\ reply \in [Tasks -> {"none", "ok", "no_file", "invalid", "needs_credential", "forbidden",
                        "internal"}]
  /\ done \in [Tasks -> BOOLEAN] /\ since \in [Tasks -> SUBSET Branches]

(* An answer says no more than what is so (mod.rs "honest taxonomy",       *)
(* handler.rs "real data or a real error"): "ok" only when the forge did   *)
(* what was asked, in the org the name means, whatever was lost or could   *)
(* not be read; and any blame on the request only when nothing was done.   *)
AnswersAreHonest ==
  \A t \in Tasks :
    /\ reply[t] = "ok" =>
         /\ req[t].org \in {"bare", Own}
         /\ done[t] \/ req[t].op = "file_url"
    /\ reply[t] \in {"invalid", "needs_credential", "forbidden"} => ~done[t]

(* A pull request or a link without a branch of its own gets one that was  *)
(* the repository's default at some time during the request, though it is  *)
(* looked up in a call before (forge_open_pr, forge_file_url).             *)
DefaultIsFresh ==
  \A t \in Tasks :
    /\ NeedsDefault(req[t])
    /\ done[t] \/ reply[t] = "ok"
    => ref[t] \in since[t]

-----------------------------------------------------------------------------
(* The inductive invariant of the proofs. *)

(* What a call's answer says was so when the forge gave it. *)
Meant(t) ==
  /\ reply[t] = "none" /\ req[t].org \in {"bare", Own}
  /\ NeedsDefault(req[t]) => default[req[t].repo] \in since[t]
  /\ pc[t] = "act" /\ ans[t] \in Answered => done[t]
  /\ ans[t] \in {"none"} \cup Denied => ~done[t]
  /\ pc[t] = "lookup" => ~done[t] /\ NeedsDefault(req[t])
  /\ pc[t] = "lookup" /\ ans[t] = "success" => got[t] \in since[t]
  /\ pc[t] = "act" /\ NeedsDefault(req[t]) => ref[t] \in since[t]
AnswersAreMeant == \A t \in Tasks : pc[t] # "idle" => Meant(t)

(* Between requests no answer is waiting. *)
Quiet == \A t \in Tasks : pc[t] = "idle" => ans[t] = "none"

IInv ==
  /\ TypeOK /\ AnswersAreHonest /\ DefaultIsFresh /\ AnswersAreMeant /\ Quiet
=============================================================================
