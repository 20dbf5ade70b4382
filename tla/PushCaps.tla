----------------------------- MODULE PushCaps ------------------------------
(***************************************************************************)
(* Forge push caps: register_forge_push_cap (forge/handler.rs), the token  *)
(* find-or-mint it awaits (ForgeClient::ensure_scoped_token) and the       *)
(* registry it fills (forge/git_session.rs).                               *)
(*                                                                         *)
(* A registration is up to three calls over the network, list, delete and  *)
(* mint, and then the insert; nothing serialises two of them.  A token is  *)
(* its serial number, and a cap has the number of the token it stands for: *)
(* both are fresh every time.  Token names identify tokens at the forge,   *)
(* and the broker uses one name per repository.  The clone URL is an       *)
(* argument of its own, which the registry keeps as it came and gives back *)
(* with the token; nothing depends on it, and it is left out.              *)
(***************************************************************************)
EXTENDS Naturals

CONSTANTS
  Repos,      (* repositories of the broker's own org                      *)
  Foreign,    (* a repository that resolves under another org              *)
  Tasks,      (* registrations that can be under way at the same time      *)
  TTL,        (* FORGE_PUSH_CAP_TTL                                        *)
  Forever,    (* bound: the clock stops here                               *)
  MaxTokens,  (* bound: tokens minted                                      *)
  Unreliable  (* calls to the forge may fail                               *)

ASSUME PushCapsAssumption ==
  /\ Foreign \notin Repos
  /\ TTL \in Nat /\ Forever \in Nat /\ MaxTokens \in Nat
  /\ Unreliable \in BOOLEAN

VARIABLES
  token,     (* forge: the live token of the broker's name for each repo   *)
  minted,    (* forge: tokens minted so far                                *)
  pc, repo,  (* per task: where its registration stands, for which repo    *)
  secret,    (* per task: the minted secret it holds                       *)
  sessions,  (* GitSessions: per cap its entry, or NoEntry                 *)
  now,       (* Instant::now()                                             *)
  alone,     (* history, per task: no other registration for its repo has  *)
             (* overlapped it                                              *)
  spoilt,    (* history, per task: one of its calls failed                 *)
  latest,    (* history, per repo: the cap of its last registration, when  *)
             (* nothing overlapped or followed that one, and its time      *)
  clean      (* history, per repo: since its first registration, or the    *)
             (* last one that found no other under way, every call has     *)
             (* worked and no cap of its live token was revoked            *)

forge   == <<token, minted>>
task    == <<pc, repo, secret>>
history == <<alone, spoilt, latest, clean>>
vars    == <<token, minted, pc, repo, secret, sessions, now, alone, spoilt, latest, clean>>

Serials == 1 .. MaxTokens
NoToken == 0

(* GitSessionEntry *)
Entry   == [token : Serials, expires_at : 0 .. Forever + TTL]
NoEntry == [token |-> NoToken]

Last    == [cap : Serials, at : 0 .. Forever]
NoLast  == [cap |-> NoToken]

Init ==
  /\ token = [r \in Repos |-> NoToken] /\ minted = 0
  /\ pc = [t \in Tasks |-> "idle"]
  /\ repo = [t \in Tasks |-> Foreign]
  /\ secret = [t \in Tasks |-> NoToken]
  /\ sessions = [c \in Serials |-> NoEntry]
  /\ now = 0
  /\ alone = [t \in Tasks |-> FALSE]
  /\ spoilt = [t \in Tasks |-> FALSE]
  /\ latest = [r \in Repos |-> NoLast]
  /\ clean = [r \in Repos |-> FALSE]

-----------------------------------------------------------------------------
Goto(t, l) == pc' = [pc EXCEPT ![t] = l] /\ UNCHANGED repo

Busy(t, r) == pc[t] # "idle" /\ repo[t] = r
Quiet(r)   == \A t \in Tasks : ~Busy(t, r)

(* A registration begins.  ensure_same_tenant comes before any call: a     *)
(* repository of another org is refused and nothing changes.               *)
Register(t, r) ==
  /\ pc[t] = "idle" /\ r # Foreign
  /\ pc' = [pc EXCEPT ![t] = "list"]
  /\ repo' = [repo EXCEPT ![t] = r]
  /\ alone' = [u \in Tasks |-> IF u = t THEN Quiet(r)
                                        ELSE alone[u] /\ ~Busy(u, r)]
  /\ spoilt' = [spoilt EXCEPT ![t] = FALSE]
  /\ latest' = [latest EXCEPT ![r] = NoLast]
  /\ clean' = [clean EXCEPT ![r] = @ \/ Quiet(r)]
  /\ UNCHANGED <<forge, secret, sessions, now>>

(* A call whose answer is an error, or does not come back whole.           *)
Spoil(t) ==
  /\ Unreliable
  /\ spoilt' = [spoilt EXCEPT ![t] = TRUE]
  /\ clean' = [clean EXCEPT ![repo[t]] = FALSE]
  /\ UNCHANGED <<alone, latest>>

(* Is there a token of that name?  Its secret is not told again.           *)
MutantList(t) ==
  /\ pc[t] = "list"
  /\ Goto(t, "mint")
  /\ UNCHANGED <<forge, secret, sessions, now, history>>
List(t) ==
  /\ pc[t] = "list"
  /\ Goto(t, IF token[repo[t]] = NoToken THEN "mint" ELSE "delete")
  /\ UNCHANGED <<forge, secret, sessions, now, history>>

(* An error status, and a body that does not parse, count as an empty      *)
(* list; a call that cannot be made ends the registration.                 *)
ListFails(t) ==
  /\ pc[t] = "list"
  /\ \E l \in {"mint", "idle"} : Goto(t, l)
  /\ Spoil(t)
  /\ UNCHANGED <<forge, secret, sessions, now>>

(* Deleting by name: whichever token carries it by now.                    *)
MutantDelete(t) ==
  /\ pc[t] = "delete"
  /\ token' = [r \in Repos |-> NoToken]
  /\ Goto(t, "mint")
  /\ UNCHANGED <<minted, secret, sessions, now, history>>
Delete(t) ==
  /\ pc[t] = "delete"
  /\ token' = [token EXCEPT ![repo[t]] = NoToken]
  /\ Goto(t, "mint")
  /\ UNCHANGED <<minted, secret, sessions, now, history>>

(* The outcome of the delete is ignored.                                   *)
DeleteFails(t) ==
  /\ pc[t] = "delete"
  /\ Goto(t, "mint")
  /\ Spoil(t)
  /\ UNCHANGED <<forge, secret, sessions, now>>

(* The forge makes a token, unless one of that name is there.              *)
Created(r) ==
  /\ minted < MaxTokens /\ token[r] = NoToken
  /\ minted' = minted + 1
  /\ token' = [token EXCEPT ![r] = minted']

Mint(t) ==
  /\ pc[t] = "mint"
  /\ Created(repo[t])
  /\ secret' = [secret EXCEPT ![t] = minted']
  /\ Goto(t, "insert")
  /\ UNCHANGED <<sessions, now, history>>

NameTaken(t) ==
  /\ pc[t] = "mint" /\ token[repo[t]] # NoToken
  /\ Goto(t, "idle")
  /\ UNCHANGED <<forge, secret, sessions, now, history>>

(* An error status, an empty secret, a broken connection: the registration *)
(* ends, and the forge may have made the token.                            *)
MutantMintFails(t) ==
  /\ pc[t] = "mint"
  /\ Created(repo[t]) \/ UNCHANGED forge
  /\ Goto(t, "insert")
  /\ Spoil(t)
  /\ UNCHANGED <<secret, sessions, now>>
MintFails(t) ==
  /\ pc[t] = "mint"
  /\ Created(repo[t]) \/ UNCHANGED forge
  /\ Goto(t, "idle")
  /\ Spoil(t)
  /\ UNCHANGED <<secret, sessions, now>>

(* generate_forge_cap, GitSessions::register, and the answer.              *)
Insert(t) ==
  /\ pc[t] = "insert"
  /\ LET cap == secret[t] IN
     /\ sessions' = [sessions EXCEPT ![cap] = [token |-> cap, expires_at |-> now + TTL]]
     /\ latest' = IF alone[t] THEN [latest EXCEPT ![repo[t]] = [cap |-> cap, at |-> now]]
                              ELSE latest
  /\ secret' = [secret EXCEPT ![t] = NoToken]
  /\ Goto(t, "idle")
  /\ UNCHANGED <<forge, now, alone, spoilt, clean>>

(* GitSessions::revoke *)
Revoke(c) ==
  /\ sessions[c] # NoEntry
  /\ sessions' = [sessions EXCEPT ![c] = NoEntry]
  /\ latest' = [r \in Repos |-> IF latest[r].cap = c THEN NoLast ELSE latest[r]]
  /\ clean' = [r \in Repos |-> clean[r] /\ sessions[c].token # token[r]]
  /\ UNCHANGED <<forge, task, now, alone, spoilt>>

Tick ==
  /\ now < Forever
  /\ now' = now + 1
  /\ UNCHANGED <<forge, task, sessions, history>>

Step(t) ==
  \/ \E r \in Repos \cup {Foreign} : Register(t, r)
  \/ List(t) \/ ListFails(t)
  \/ Delete(t) \/ DeleteFails(t)
  \/ Mint(t) \/ NameTaken(t) \/ MintFails(t)
  \/ Insert(t)

Next == Tick \/ (\E t \in Tasks : Step(t)) \/ (\E c \in Serials : Revoke(c))

Spec == Init /\ [][Next]_vars

-----------------------------------------------------------------------------
(* GitSessions::lookup: the cap is registered and has not expired.         *)
Resolves(c) == sessions[c] # NoEntry /\ ~(sessions[c].expires_at < now)

(* A push through the git proxy: the cap resolves, and the forge accepts   *)
(* the token that the proxy injects.  The token is the owner-user's, good  *)
(* for all of the org, under whichever name it was minted.                 *)
Pushes(c) == Resolves(c) /\ \E r \in Repos : token[r] = sessions[c].token

(* Every entry is whole, and a task holds a secret exactly between the     *)
(* mint and the insert.                                                    *)
TypeOK ==
  /\ token \in [Repos -> Serials \cup {NoToken}] /\ minted \in 0 .. MaxTokens
  /\ pc \in [Tasks -> {"idle", "list", "delete", "mint", "insert"}]
  /\ repo \in [Tasks -> Repos \cup {Foreign}]
  /\ \A t \in Tasks : pc[t] # "idle" => repo[t] \in Repos
  /\ secret \in [Tasks -> Serials \cup {NoToken}]
  /\ \A t \in Tasks : secret[t] # NoToken <=> pc[t] = "insert"
  /\ sessions \in [Serials -> Entry \cup {NoEntry}]
  /\ now \in 0 .. Forever
  /\ alone \in [Tasks -> BOOLEAN] /\ spoilt \in [Tasks -> BOOLEAN]
  /\ latest \in [Repos -> Last \cup {NoLast}]
  /\ clean \in [Repos -> BOOLEAN]

(* A cap whose registration nobody overlapped pushes for the whole TTL,    *)
(* until it is revoked or its repository is registered again, whatever     *)
(* happens to other repositories in the meantime and whatever failed       *)
(* before (register_forge_push_cap, ensure_scoped_token).                  *)
LoneCapPushes ==
  \A r \in Repos :
    latest[r] # NoLast /\ now <= latest[r].at + TTL => Pushes(latest[r].cap)

(* A registration that nobody overlapped and whose calls all worked ends   *)
(* with a registered cap: what earlier registrations left behind at the    *)
(* forge never blocks it (ensure_scoped_token's delete-then-mint).         *)
LoneRegistrationSucceeds ==
  [][\A t \in Tasks :
       pc[t] # "idle" /\ pc'[t] = "idle" /\ alone[t] /\ ~spoilt'[t]
         => latest'[repo[t]] # NoLast]_vars

(* However many registrations of a repository overlap and delete each      *)
(* other's tokens, one of their caps survives them: once they are all      *)
(* over, if every call worked and the cap of the live token was not        *)
(* revoked, some cap stands for that token, so that it pushes until it     *)
(* expires (ensure_scoped_token, register_forge_push_cap).                 *)
Survives(r) ==
  \E c \in Serials : sessions[c] # NoEntry /\ sessions[c].token = token[r]
SomeCapSurvives == \A r \in Repos : clean[r] /\ Quiet(r) => Survives(r)

-----------------------------------------------------------------------------
(* What the repository says and the code does not do: a run finds it       *)
(* violated.                                                               *)

(* "register a REAL `GitSessionEntry` so the guest pushes tokenlessly      *)
(* (D1). Returns the cap-key" (forge/handler.rs): the cap that is returned *)
(* pushes when it is returned.                                             *)
ReturnedCapPushes ==
  [][\A t \in Tasks, c \in Serials :
       pc[t] = "insert" /\ secret[t] = c /\ pc'[t] = "idle" => Pushes(c)']_vars

-----------------------------------------------------------------------------
(* The inductive invariant of the proofs.                                  *)
AloneIsAlone ==
  \A t, u \in Tasks : alone[t] /\ Busy(t, repo[t]) /\ Busy(u, repo[t]) => u = t

LoneMintIsLive ==
  \A t \in Tasks : alone[t] /\ pc[t] = "insert" => token[repo[t]] = secret[t]

LatestIsLive ==
  \A r \in Repos : latest[r] # NoLast =>
    /\ \A t \in Tasks : ~Busy(t, r)
    /\ token[r] = latest[r].cap
    /\ sessions[latest[r].cap] =
         [token |-> latest[r].cap, expires_at |-> latest[r].at + TTL]

(* Nothing is in the way of a lone registration's mint.                    *)
LoneMintIsFree ==
  \A t \in Tasks :
    alone[t] /\ ~spoilt[t] /\ pc[t] = "mint" => token[repo[t]] = NoToken

(* Serial numbers are fresh: a secret in hand is of its own repository.    *)
Fresh ==
  /\ \A r \in Repos : token[r] <= minted
  /\ \A t \in Tasks : secret[t] <= minted
  /\ \A t \in Tasks, r \in Repos :
       secret[t] # NoToken /\ secret[t] = token[r] => repo[t] = r
  /\ \A c \in Serials : sessions[c] # NoEntry => sessions[c].token = c /\ c <= minted

(* While no call has failed, a name with no token waits for a registration *)
(* that will mint one, and the token of a name is in the hands of the      *)
(* registration that minted it, or of its cap, or else it is left from     *)
(* before: then no registration has got past its delete.                   *)
Coming(r) == \E t \in Tasks : Busy(t, r) /\ pc[t] # "insert"
InHand(r) == \E t \in Tasks : Busy(t, r) /\ pc[t] = "insert" /\ secret[t] = token[r]
Leftover(r) ==
  /\ ~Quiet(r)
  /\ \A t \in Tasks : Busy(t, r) => pc[t] \in {"list", "delete"}
AccountedFor(r) ==
  IF token[r] = NoToken THEN Coming(r) ELSE InHand(r) \/ Survives(r) \/ Leftover(r)
CleanTokenIsAccountedFor == \A r \in Repos : clean[r] => AccountedFor(r)

IInv ==
  /\ TypeOK /\ Fresh
  /\ AloneIsAlone /\ LoneMintIsFree /\ LoneMintIsLive /\ LatestIsLive
  /\ CleanTokenIsAccountedFor
=============================================================================
