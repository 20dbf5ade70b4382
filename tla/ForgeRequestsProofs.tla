------------------------ MODULE ForgeRequestsProofs ------------------------
(***************************************************************************)
(* Any repositories, branches, contents and requests under way at once:    *)
(* answers are honest and looked-up branches are fresh.                    *)
(***************************************************************************)
EXTENDS ForgeRequests, TLAPS

USE ForgeAssumption
USE DEF forge, Answered, Denied

(* What a request is made of. *)
LEMMA RequestFacts ==
  /\ \A q \in Requests :
       /\ q.op \in Ops /\ q.org \in Orgs /\ q.repo \in Repos /\ q.ref \in Refs
       /\ q.text \in Contents /\ q.sha \in Contents
       /\ q.op = "put" => q.ref \in Branches
  /\ NoRequest.op \notin Ops /\ NoRequest.repo \notin Repos
BY DEF Requests, NoRequest, Ops, Links, Creates, Refs

(* The branch a request has, where it has one. *)
LEMMA RefFacts ==
  /\ Branches \subseteq Refs /\ "omitted" \in Refs /\ "nofile" \in Contents
  /\ \A q \in Requests : ~NeedsDefault(q) /\ q.op \in Links => q.ref \in Branches
BY RequestFacts DEF Refs, NeedsDefault, Contents

USE RequestFacts, RefFacts

(* Before any request there is nothing to be wrong about.                  *)
LEMMA InitInv == Init => IInv
BY DEF Init, IInv, TypeOK, AnswersAreHonest, DefaultIsFresh,
       AnswersAreMeant, Quiet, NeedsDefault, Links, Ops

(* A new default branch is seen by all the requests that will look it up. *)
LEMMA WitnessFacts ==
  ASSUME TypeOK, NEW r \in Repos, NEW b \in Branches, Witness(r, b)
  PROVE  /\ since' \in [Tasks -> SUBSET Branches]
         /\ \A t \in Tasks : since[t] \subseteq since'[t]
         /\ \A t \in Tasks :
              pc[t] # "idle" /\ NeedsDefault(req[t]) /\ req[t].repo = r => b \in since'[t]
BY DEF TypeOK, Witness

(* The other users of the forge. *)
LEMMA OthersInv ==
  ASSUME IInv, NEW r \in Repos, NEW b \in Branches, NEW x \in Contents,
         ChangeDefault(r, b) \/ Create(r) \/ Delete(r) \/ Commit(r, b, x)
  PROVE  IInv'
<1> USE DEF IInv
<1>1. UNCHANGED <<pc, req, ref, ans, got, reply, done>>
  BY DEF ChangeDefault, Create, Delete, Commit
<1>2. /\ repos' \subseteq Repos /\ default' \in [Repos -> Branches]
      /\ file' \in [Repos -> [Branches -> Contents]]
      /\ since' \in [Tasks -> SUBSET Branches]
      /\ \A t \in Tasks : since[t] \subseteq since'[t]
      /\ \A t \in Tasks, q \in Repos :
           pc[t] # "idle" /\ NeedsDefault(req[t]) /\ req[t].repo = q
             => default'[q] = default[q] \/ default'[q] \in since'[t]
  <2>1. CASE ChangeDefault(r, b)
    BY <2>1, WitnessFacts DEF TypeOK, ChangeDefault
  <2>2. CASE Create(r)
    <3>1. PICK c \in Branches : default' = [default EXCEPT ![r] = c] /\ Witness(r, c)
      BY <2>2 DEF Create, New
    <3> QED  BY <2>2, <3>1, WitnessFacts DEF TypeOK, Create, New
  <2>3. CASE Delete(r)
    BY <2>3 DEF TypeOK, Delete
  <2>4. CASE Commit(r, b, x)
    <3>1. [file[r] EXCEPT ![b] = x] \in [Branches -> Contents]
      BY DEF TypeOK
    <3>2. file' \in [Repos -> [Branches -> Contents]]
      BY <2>4, <3>1 DEF TypeOK, Commit
    <3> QED  BY <2>4, <3>2 DEF TypeOK, Commit
  <2> QED  BY <2>1, <2>2, <2>3, <2>4
<1>3. TypeOK'
  BY <1>1, <1>2 DEF TypeOK
<1>4. AnswersAreHonest' /\ Quiet'
  BY <1>1 DEF AnswersAreHonest, Quiet
<1>5. DefaultIsFresh'
  BY <1>1, <1>2 DEF DefaultIsFresh
<1>6. AnswersAreMeant'
  BY <1>1, <1>2 DEF AnswersAreMeant, Meant, TypeOK
<1> QED  BY <1>3, <1>4, <1>5, <1>6

(* A request begins: with a refusal, a link that needs no call, or a call. *)
LEMMA BeginInv ==
  ASSUME IInv, NEW t \in Tasks, NEW q \in Requests, NEW c \in Held,
         Refuse(t, q, c) \/ Call(t, q, c)
  PROVE  IInv'
<1> USE DEF IInv
<1>1. Begin(t, q)
  BY DEF Refuse, Call
<1>2. \/ /\ pc' = pc
         /\ \/ \E code \in {"needs_credential", "forbidden"} : reply' = [reply EXCEPT ![t] = code]
            \/ /\ reply' = [reply EXCEPT ![t] = "ok"] /\ SameTenant(q)
               /\ q.op = "file_url" /\ q.ref # "omitted"
      \/ /\ pc' = [pc EXCEPT ![t] = IF NeedsDefault(q) THEN "lookup" ELSE "act"]
         /\ reply' = [reply EXCEPT ![t] = "none"] /\ SameTenant(q)
  BY DEF Refuse, Call
<1>3. done' \in [Tasks -> BOOLEAN]
  BY <1>1, Zenon DEF TypeOK, Begin
<1>4. TypeOK'
  <2>1. since' \in [Tasks -> SUBSET Branches]
    BY <1>1 DEF TypeOK, Begin
  <2>2. pc' \in [Tasks -> {"idle", "lookup", "act"}]
    BY <1>2 DEF TypeOK
  <2>3. reply' \in [Tasks -> {"none", "ok", "no_file", "invalid", "needs_credential",
                                  "forbidden", "internal"}]
    BY <1>2 DEF TypeOK
  <2>4. req' \in [Tasks -> Requests \cup {NoRequest}] /\ ref' \in [Tasks -> Refs]
    BY <1>1 DEF TypeOK, Begin
  <2>5. \A u \in Tasks : pc'[u] # "idle" => req'[u] \in Requests
    BY <1>1, <1>2 DEF TypeOK, Begin
  <2> QED  BY <1>1, <1>3, <2>1, <2>2, <2>3, <2>4, <2>5 DEF TypeOK, Begin
<1>5. AnswersAreHonest'
  BY <1>1, <1>2 DEF TypeOK, AnswersAreHonest, Begin, SameTenant
<1>6. DefaultIsFresh'
  BY <1>1, <1>2 DEF TypeOK, DefaultIsFresh, AnswersAreHonest, Begin, NeedsDefault
<1>7. Quiet'
  BY <1>1, <1>2 DEF TypeOK, Quiet, Begin
<1>8. AnswersAreMeant'
  <2> SUFFICES ASSUME NEW u \in Tasks, pc'[u] # "idle" PROVE Meant(u)'
    BY DEF AnswersAreMeant
  <2>1. CASE u # t
    BY <2>1, <1>1, <1>2 DEF TypeOK, AnswersAreMeant, Meant, Begin
  <2>2. CASE u = t
    <3>1. ans[t] = "none" /\ pc[t] = "idle"
      BY <1>1 DEF Begin, Quiet
    <3>2. /\ req'[t] = q /\ ref'[t] = q.ref /\ done'[t] = FALSE /\ UNCHANGED <<default, ans>>
          /\ NeedsDefault(q) => since'[t] = {default[q.repo]}
      BY <1>1 DEF TypeOK, Begin
    <3>3. reply'[t] = "none" /\ SameTenant(q) /\ pc'[t] = IF NeedsDefault(q) THEN "lookup" ELSE "act"
      BY <2>2, <3>1, <1>2 DEF TypeOK
    <3> QED  BY <2>2, <3>1, <3>2, <3>3 DEF Meant, SameTenant
  <2> QED  BY <2>1, <2>2
<1> QED  BY <1>4, <1>5, <1>6, <1>7, <1>8

(* The forge does its part of a call, or does not. *)
LEMMA HandleInv ==
  ASSUME IInv, NEW t \in Tasks, Handle(t) PROVE IInv'
<1> USE DEF IInv
<1>1. /\ pc[t] # "idle" /\ ans[t] = "none" /\ ~done[t] /\ req[t] \in Requests /\ Meant(t)
      /\ UNCHANGED <<pc, req, ref, reply>>
  BY DEF Handle, TypeOK, AnswersAreMeant, Meant
<1>2. PICK a \in Answered \cup Denied \cup {"error"} :
        /\ ans' = [ans EXCEPT ![t] = a]
        /\ \/ a \notin Denied /\ pc[t] = "lookup" /\ LookUp(t)
           \/ a \notin Denied /\ pc[t] = "act" /\ Act(t)
           \/ a \notin Answered /\ UNCHANGED <<forge, got, done, since>>
  BY <1>1 DEF Handle, TypeOK
<1>3. /\ repos' \subseteq Repos /\ default' \in [Repos -> Branches]
      /\ file' \in [Repos -> [Branches -> Contents]]
      /\ got' \in [Tasks -> Branches \cup {"none"}]
      /\ since' \in [Tasks -> SUBSET Branches]
      /\ \A u \in Tasks : since[u] \subseteq since'[u]
      /\ \A u \in Tasks, q \in Repos :
           pc[u] # "idle" /\ NeedsDefault(req[u]) /\ req[u].repo = q
             => default'[q] = default[q] \/ default'[q] \in since'[u]
      /\ \A u \in Tasks : u # t => got'[u] = got[u]
  <2>1. CASE pc[t] = "lookup" /\ LookUp(t)
    BY <2>1, <1>1 DEF LookUp, TypeOK
  <2>2. CASE UNCHANGED <<forge, got, since>>
    BY <2>2 DEF TypeOK
  <2>3. CASE New(req[t].repo) /\ UNCHANGED got
    <3>1. PICK c \in Branches :
            default' = [default EXCEPT ![req[t].repo] = c] /\ Witness(req[t].repo, c)
      BY <2>3 DEF New
    <3> QED  BY <1>1, <2>3, <3>1, WitnessFacts DEF TypeOK, New
  <2>4. CASE Get(t, req[t].repo) /\ UNCHANGED got
    BY <2>4 DEF Get, TypeOK
  <2>5. CASE Put(t, req[t].repo) /\ UNCHANGED got
    <3>1. /\ req[t].repo \in Repos
          /\ [file[req[t].repo] EXCEPT ![ref[t]] = req[t].text] \in [Branches -> Contents]
      BY <1>1 DEF TypeOK
    <3>2. file' \in [Repos -> [Branches -> Contents]]
      BY <2>5, <3>1 DEF TypeOK, Put
    <3> QED  BY <2>5, <3>2 DEF Put, TypeOK
  <2> QED  BY <1>2, <2>1, <2>2, <2>3, <2>4, <2>5 DEF Act
<1>4. /\ done' \in [Tasks -> BOOLEAN] /\ \A u \in Tasks : u # t => done'[u] = done[u]
      /\ pc[t] = "lookup" => ~done'[t]
      /\ pc[t] = "act" /\ ans'[t] \in Answered => done'[t]
      /\ ans'[t] \in Denied => ~done'[t]
  <2>1. \/ UNCHANGED done /\ (a \notin Answered \/ pc[t] = "lookup")
        \/ done' = [done EXCEPT ![t] = TRUE] /\ pc[t] = "act" /\ a \notin Denied
    BY <1>2 DEF LookUp, Act
  <2>2. done' \in [Tasks -> BOOLEAN]
    BY <2>1, Zenon DEF TypeOK
  <2>3. ans'[t] = a /\ (done' = [done EXCEPT ![t] = TRUE] => done'[t])
    BY <1>2 DEF TypeOK
  <2>4. \A u \in Tasks : u # t => done'[u] = done[u]
    BY <2>1 DEF TypeOK
  <2> QED  BY <1>1, <2>1, <2>2, <2>3, <2>4
<1>5. TypeOK'
  BY <1>1, <1>2, <1>3, <1>4 DEF TypeOK
<1>6. AnswersAreHonest' /\ Quiet'
  <2>1. reply[t] = "none"
    BY <1>1 DEF Meant
  <2> QED  BY <2>1, <1>1, <1>2, <1>4 DEF AnswersAreHonest, Quiet, TypeOK
<1>7. DefaultIsFresh'
  <2>1. NeedsDefault(req[t]) /\ (done'[t] \/ reply[t] = "ok") => ref[t] \in since[t]
    BY <1>1, <1>4 DEF Meant, TypeOK
  <2> QED  BY <2>1, <1>1, <1>3, <1>4 DEF DefaultIsFresh
<1>8. AnswersAreMeant'
  <2> SUFFICES ASSUME NEW u \in Tasks, pc[u] # "idle" PROVE Meant(u)'
    BY <1>1 DEF AnswersAreMeant
  <2>1. CASE u # t
    <3>1. Meant(u) /\ req[u] \in Requests /\ req[u].repo \in Repos
      BY DEF TypeOK, AnswersAreMeant
    <3>2. /\ UNCHANGED <<pc[u], req[u], ref[u], reply[u], ans[u], got[u], done[u]>>
          /\ since[u] \subseteq since'[u]
      BY <2>1, <1>1, <1>2, <1>3, <1>4 DEF TypeOK
    <3>3. NeedsDefault(req[u]) => (default[req[u].repo] \in since[u])'
      BY <3>1, <3>2, <1>3 DEF Meant
    <3> QED  BY <3>1, <3>2, <3>3 DEF Meant
  <2>2. CASE u = t
    <3>1. pc[t] = "lookup" /\ ans'[t] = "success" => got'[t] \in since'[t]
      <4>1. CASE pc[t] = "lookup" /\ ans'[t] = "success"
        <5>1. LookUp(t)
          BY <4>1, <1>1, <1>2
        <5>2. default[req[t].repo] \in since[t]
          BY <4>1, <1>1 DEF Meant
        <5> QED  BY <1>1, <5>1, <5>2 DEF LookUp, TypeOK
      <4> QED  BY <4>1
    <3>2. ans'[t] # "none" /\ (NeedsDefault(req[t]) => (default[req[t].repo] \in since[t])')
      BY <1>1, <1>2, <1>3 DEF TypeOK, Meant
    <3> QED  BY <2>2, <3>1, <3>2, <1>1, <1>3, <1>4 DEF TypeOK, Meant
  <2> QED  BY <2>1, <2>2
<1> QED  BY <1>5, <1>6, <1>7, <1>8

(* The branch is there: for the pull request, or for the link. *)
LEMMA LookedUpInv ==
  ASSUME IInv, NEW t \in Tasks, LookedUp(t) PROVE IInv'
<1> USE DEF IInv, LookedUp
<1>1. /\ Meant(t) /\ ~done[t] /\ got[t] \in since[t] /\ req[t] \in Requests
      /\ NeedsDefault(req[t]) /\ req[t].org \in {"bare", Own}
  BY DEF TypeOK, AnswersAreMeant, Meant
<1>2. got[t] \in Branches
  BY <1>1 DEF TypeOK
<1>3. \/ /\ req[t].op = "open_pr" /\ pc' = [pc EXCEPT ![t] = "act"] /\ UNCHANGED reply
      \/ /\ req[t].op = "file_url" /\ pc' = [pc EXCEPT ![t] = "idle"]
         /\ reply' = [reply EXCEPT ![t] = "ok"]
  BY <1>1 DEF NeedsDefault, Links
<1>4. TypeOK'
  BY <1>1, <1>2, <1>3 DEF TypeOK, NeedsDefault, Links
<1>5. AnswersAreHonest' /\ DefaultIsFresh' /\ Quiet'
  BY <1>1, <1>2, <1>3 DEF AnswersAreHonest, DefaultIsFresh, Quiet, TypeOK
<1>6. AnswersAreMeant'
  BY <1>1, <1>2, <1>3 DEF AnswersAreMeant, Meant, TypeOK
<1> QED  BY <1>4, <1>5, <1>6

(* The request ends. *)
LEMMA ReturnInv ==
  ASSUME IInv, NEW t \in Tasks, Return(t) PROVE IInv'
<1> USE DEF IInv
<1>1. PICK code \in {"ok", "no_file", "invalid", "internal"} :
        /\ reply' = [reply EXCEPT ![t] = code]
        /\ code = "ok" => pc[t] = "act" /\ ans[t] \in Answered
        /\ code = "invalid" => pc[t] = "act" /\ ans[t] \in Denied
  BY DEF Return, Code, Fulfilled, TypeOK
<1>2. /\ pc[t] # "idle" /\ Meant(t) /\ req[t] \in Requests
      /\ pc' = [pc EXCEPT ![t] = "idle"] /\ ans' = [ans EXCEPT ![t] = "none"]
      /\ UNCHANGED <<forge, req, ref, done, since>>
  BY DEF Return, TypeOK, AnswersAreMeant
<1>3. TypeOK'
  BY <1>1, <1>2 DEF TypeOK, Return
<1>4. AnswersAreHonest' /\ DefaultIsFresh' /\ Quiet'
  BY <1>1, <1>2 DEF AnswersAreHonest, DefaultIsFresh, Quiet, TypeOK, Meant, Return
<1>5. AnswersAreMeant'
  BY <1>1, <1>2 DEF AnswersAreMeant, Meant, TypeOK, Return
<1> QED  BY <1>3, <1>4, <1>5

(* The invariant holds throughout, and with it the properties. *)
LEMMA NextInv == IInv /\ [Next]_vars => IInv'
<1> SUFFICES ASSUME IInv, [Next]_vars PROVE IInv'
  OBVIOUS
<1>1. CASE UNCHANGED vars
  BY <1>1 DEF vars, IInv, TypeOK, AnswersAreHonest, DefaultIsFresh,
              AnswersAreMeant, Meant, Quiet
<1>2. CASE Next
  BY <1>2, OthersInv, BeginInv, HandleInv, LookedUpInv, ReturnInv DEF Next
<1> QED  BY <1>1, <1>2

(* The invariant that carries the others. *)
THEOREM Invariant == Spec => []IInv
BY InitInv, NextInv, PTL DEF Spec

(* Every variable keeps its type. *)
THEOREM TypeCorrect == Spec => []TypeOK
<1>1. IInv => TypeOK
  BY DEF IInv
<1> QED  BY <1>1, Invariant, PTL

(* "Ok" is said only of what the forge did, in the org that was named, and *)
(* the request is blamed only where nothing was done (dispatch.rs, mod.rs).*)
THEOREM HonestAnswers == Spec => []AnswersAreHonest
<1>1. IInv => AnswersAreHonest
  BY DEF IInv
<1> QED  BY <1>1, Invariant, PTL

(* The default branch that is looked up is one of during the request       *)
(* (forge_open_pr, forge_file_url).                                        *)
THEOREM FreshDefaults == Spec => []DefaultIsFresh
<1>1. IInv => DefaultIsFresh
  BY DEF IInv
<1> QED  BY <1>1, Invariant, PTL
=============================================================================
