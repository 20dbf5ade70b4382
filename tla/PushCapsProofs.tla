--------------------------- MODULE PushCapsProofs ---------------------------
(***************************************************************************)
(* Any number of repositories, registrations and tokens, a forge that      *)
(* fails at will: a cap whose registration nobody overlapped pushes for    *)
(* its whole TTL.                                                          *)
(***************************************************************************)
EXTENDS PushCaps, TLAPS

USE PushCapsAssumption

(* The registry and the forge start empty, and the invariant with them.    *)
LEMMA InitIInv == Init => IInv
  BY DEF Init, IInv, TypeOK, Fresh, AloneIsAlone, LoneMintIsFree, LoneMintIsLive,
         LatestIsLive, CleanTokenIsAccountedFor, Busy, NoToken, NoLast,
         NoEntry, Serials, Last, Entry

(* A new token is a serial number above every earlier one.                 *)
LEMMA CreatedFacts ==
  ASSUME TypeOK, NEW r \in Repos, Created(r)
  PROVE  /\ minted' \in Serials /\ minted' \in 0 .. MaxTokens
         /\ minted' = minted + 1 /\ minted' # NoToken
         /\ token[r] = NoToken
         /\ token' = [token EXCEPT ![r] = minted']
         /\ token' \in [Repos -> Serials \cup {NoToken}]
<1>1. /\ minted' = minted + 1 /\ minted' \in Serials /\ minted' \in 0 .. MaxTokens
      /\ minted' # NoToken
  BY DEF TypeOK, Created, Serials, NoToken
<1> QED
  BY <1>1 DEF TypeOK, Created

(* Every operation keeps the state well typed.                             *)
LEMMA NextTypeOK ==
  ASSUME TypeOK, [Next]_vars
  PROVE  TypeOK'
<1> USE DEF TypeOK, Goto, Spoil, forge, task, history
<1>1. ASSUME NEW t \in Tasks, NEW r \in Repos \cup {Foreign}, Register(t, r)
      PROVE  TypeOK'
  BY <1>1 DEF Register, Busy, Quiet
<1>2. ASSUME NEW t \in Tasks, List(t) \/ ListFails(t)
      PROVE  TypeOK'
  BY <1>2 DEF List, ListFails
<1>3. ASSUME NEW t \in Tasks, Delete(t) \/ DeleteFails(t)
      PROVE  TypeOK'
  BY <1>3 DEF Delete, DeleteFails, NoToken
<1>4. ASSUME NEW t \in Tasks, Mint(t)
      PROVE  TypeOK'
  <2>1. repo[t] \in Repos /\ Created(repo[t])
    BY <1>4 DEF Mint
  <2>2. /\ minted' \in Serials /\ minted' \in 0 .. MaxTokens /\ minted' # NoToken
        /\ token' \in [Repos -> Serials \cup {NoToken}]
    BY <2>1, CreatedFacts
  <2>3. /\ secret' \in [Tasks -> Serials \cup {NoToken}]
        /\ \A u \in Tasks : secret'[u] # NoToken <=> pc'[u] = "insert"
    BY <1>4, <2>2 DEF Mint
  <2> QED
    BY <1>4, <2>2, <2>3 DEF Mint
<1>5. ASSUME NEW t \in Tasks, NameTaken(t) \/ MintFails(t)
      PROVE  TypeOK'
  <2>1. minted' \in 0 .. MaxTokens /\ token' \in [Repos -> Serials \cup {NoToken}]
    BY <1>5, CreatedFacts DEF NameTaken, MintFails
  <2>2. /\ pc' = [pc EXCEPT ![t] = "idle"] /\ pc[t] = "mint"
        /\ UNCHANGED <<repo, secret, sessions, now, alone, latest>>
        /\ spoilt' \in [Tasks -> BOOLEAN] /\ clean' \in [Repos -> BOOLEAN]
    BY <1>5 DEF NameTaken, MintFails
  <2> QED
    BY <2>1, <2>2
<1>6. ASSUME NEW t \in Tasks, Insert(t)
      PROVE  TypeOK'
  <2> DEFINE cap == secret[t]
  <2>1. cap \in Serials /\ repo[t] \in Repos /\ now + TTL \in 0 .. Forever + TTL
    BY <1>6 DEF Insert, NoToken
  <2>2. sessions' \in [Serials -> Entry \cup {NoEntry}]
    <3>1. [token |-> cap, expires_at |-> now + TTL] \in Entry
      BY <2>1 DEF Entry
    <3> QED  BY <1>6, <2>1, <3>1 DEF Insert
  <2>3. latest' \in [Repos -> Last \cup {NoLast}]
    <3>1. [cap |-> cap, at |-> now] \in Last
      BY <2>1 DEF Last
    <3> QED  BY <1>6, <2>1, <3>1 DEF Insert
  <2>4. /\ \A u \in Tasks : pc'[u] # "idle" => repo'[u] \in Repos
        /\ \A u \in Tasks : secret'[u] # NoToken <=> pc'[u] = "insert"
    BY <1>6 DEF Insert, NoToken
  <2> HIDE DEF cap
  <2> QED
    BY <1>6, <2>2, <2>3, <2>4 DEF Insert, NoToken
<1>7. ASSUME NEW c \in Serials, Revoke(c)
      PROVE  TypeOK'
  BY <1>7 DEF Revoke
<1>8. CASE Tick
  BY <1>8 DEF Tick
<1>9. CASE UNCHANGED vars
  BY <1>9 DEF vars
<1> QED
  BY <1>1, <1>2, <1>3, <1>4, <1>5, <1>6, <1>7, <1>8, <1>9 DEF Next, Step

(* An entry is whole, and stands in the map under a serial number.         *)
LEMMA EntryFacts ==
  ASSUME TypeOK, NEW c \in Serials, sessions[c] # NoEntry
  PROVE  /\ sessions[c] \in Entry
         /\ sessions[c].token \in Serials /\ sessions[c].token # NoToken
  BY DEF TypeOK, Entry, Serials, NoToken

(* Tokens are numbered in the order they are minted, and a secret in hand  *)
(* is of its own repository.                                               *)
LEMMA NextFresh ==
  ASSUME TypeOK, Fresh, [Next]_vars
  PROVE  Fresh'
<1> USE DEF Goto, Spoil, forge, task, history
<1>0. /\ minted \in Nat
      /\ \A r \in Repos : token[r] \in Nat
      /\ \A u \in Tasks : secret[u] \in Nat
      /\ \A c \in Serials : sessions[c] # NoEntry => sessions[c].token \in Serials
      /\ \A c \in Serials : c \in Nat /\ c # NoToken
  BY EntryFacts DEF TypeOK, Serials, NoToken
<1>1. ASSUME NEW t \in Tasks, NEW r \in Repos \cup {Foreign}, Register(t, r)
      PROVE  Fresh'
  BY <1>1 DEF Register, Fresh, TypeOK
<1>2. ASSUME NEW t \in Tasks, List(t) \/ ListFails(t) \/ DeleteFails(t) \/ NameTaken(t)
      PROVE  Fresh'
  BY <1>2 DEF List, ListFails, DeleteFails, NameTaken, Fresh
<1>3. ASSUME NEW t \in Tasks, Delete(t)
      PROVE  Fresh'
  <2>1. /\ UNCHANGED <<minted, secret, sessions, repo>>
        /\ \A r \in Repos : token'[r] = token[r] \/ token'[r] = NoToken
    BY <1>3 DEF Delete, TypeOK
  <2> QED
    BY <1>0, <2>1 DEF Fresh, NoToken
<1>4. ASSUME NEW t \in Tasks, pc[t] = "mint", Created(repo[t]),
             UNCHANGED <<repo, sessions>>,
             secret' = secret \/ secret' = [secret EXCEPT ![t] = minted']
      PROVE  Fresh'
  <2>1. /\ repo[t] \in Repos /\ minted' = minted + 1
        /\ token' = [token EXCEPT ![repo[t]] = minted']
    BY <1>4, CreatedFacts DEF TypeOK
  <2>2. /\ \A r \in Repos : token'[r] <= minted'
        /\ \A u \in Tasks : secret'[u] <= minted'
        /\ \A u \in Tasks, r \in Repos :
             secret'[u] # NoToken /\ secret'[u] = token'[r] => repo'[u] = r
    BY <1>0, <1>4, <2>1 DEF Fresh, TypeOK
  <2>3. \A c \in Serials : sessions[c] # NoEntry =>
          sessions[c].token = c /\ c <= minted'
    BY <1>0, <2>1 DEF Fresh, Serials
  <2> QED
    BY <1>4, <2>2, <2>3 DEF Fresh
<1>5. ASSUME NEW t \in Tasks, Mint(t)
      PROVE  Fresh'
  BY <1>4, <1>5 DEF Mint
<1>6. ASSUME NEW t \in Tasks, MintFails(t)
      PROVE  Fresh'
  <2>1. CASE UNCHANGED <<token, minted>>
    BY <1>6, <2>1 DEF MintFails, Fresh
  <2> QED
    BY <1>4, <1>6, <2>1 DEF MintFails
<1>7. ASSUME NEW t \in Tasks, Insert(t)
      PROVE  Fresh'
  <2> DEFINE e == [token |-> secret[t], expires_at |-> now + TTL]
  <2>1. /\ secret[t] # NoToken /\ UNCHANGED <<token, minted, repo>>
        /\ \A u \in Tasks : secret'[u] = secret[u] \/ secret'[u] = NoToken
    BY <1>7 DEF Insert, TypeOK
  <2>2. \A c \in Serials : sessions'[c] = sessions[c] \/ (sessions'[c] = e /\ c = secret[t])
    <3>1. sessions' = [sessions EXCEPT ![secret[t]] = e]
      BY <1>7, Zenon DEF Insert
    <3>2. DOMAIN sessions = Serials
      BY DEF TypeOK
    <3> HIDE DEF e
    <3> QED
      BY <3>1, <3>2
  <2>3. e.token = secret[t]
    OBVIOUS
  <2>4. /\ \A r \in Repos : token'[r] <= minted'
        /\ \A u \in Tasks : secret'[u] <= minted'
        /\ \A u \in Tasks, r \in Repos :
             secret'[u] # NoToken /\ secret'[u] = token'[r] => repo'[u] = r
    BY <1>0, <2>1 DEF Fresh, NoToken
  <2> HIDE DEF e
  <2>5. ASSUME NEW c \in Serials, sessions'[c] # NoEntry
        PROVE  sessions'[c].token = c /\ c <= minted'
    <3>1. CASE sessions'[c] = e /\ c = secret[t]
      BY <2>1, <2>3, <3>1 DEF Fresh
    <3>2. CASE sessions'[c] = sessions[c]
      BY <2>1, <2>5, <3>2 DEF Fresh
    <3> QED
      BY <2>2, <3>1, <3>2
  <2> QED
    BY <2>4, <2>5 DEF Fresh
<1>8. ASSUME NEW c \in Serials, Revoke(c)
      PROVE  Fresh'
  <2>1. /\ UNCHANGED <<token, minted, repo, secret>>
        /\ \A d \in Serials : sessions'[d] = sessions[d] \/ sessions'[d] = NoEntry
    BY <1>8 DEF Revoke, TypeOK
  <2> QED
    BY <2>1 DEF Fresh
<1>9. CASE Tick \/ UNCHANGED vars
  BY <1>9 DEF Tick, vars, Fresh
<1>10. (\E t \in Tasks : Step(t)) => Fresh'
  BY <1>1, <1>2, <1>3, <1>5, <1>6, <1>7, Zenon DEF Step
<1> QED
  BY <1>8, <1>9, <1>10 DEF Next

(* A registration marked alone shares its repository with no other.        *)
LEMMA NextAlone ==
  ASSUME TypeOK, AloneIsAlone, [Next]_vars
  PROVE  AloneIsAlone'
<1> USE DEF TypeOK, AloneIsAlone, Busy, Goto, Spoil, forge, task, history
<1>1. ASSUME NEW t \in Tasks, NEW r \in Repos \cup {Foreign}, Register(t, r)
      PROVE  AloneIsAlone'
  <2>1. /\ r \in Repos /\ pc[t] = "idle"
        /\ pc' = [pc EXCEPT ![t] = "list"] /\ repo' = [repo EXCEPT ![t] = r]
        /\ alone'[t] => \A v \in Tasks : pc[v] # "idle" => repo[v] # r
        /\ \A u \in Tasks \ {t} : alone'[u] => alone[u] /\ (pc[u] # "idle" => repo[u] # r)
    BY <1>1 DEF Register, Quiet
  <2> QED
    BY <2>1
<1>2. ASSUME NEW t \in Tasks,
             List(t) \/ ListFails(t) \/ Delete(t) \/ DeleteFails(t) \/ Mint(t)
               \/ NameTaken(t) \/ MintFails(t) \/ Insert(t)
      PROVE  AloneIsAlone'
  BY <1>2 DEF List, ListFails, Delete, DeleteFails, Mint, NameTaken, MintFails, Insert
<1>3. CASE Tick \/ (\E c \in Serials : Revoke(c)) \/ UNCHANGED vars
  BY <1>3 DEF Tick, Revoke, vars
<1> QED
  BY <1>1, <1>2, <1>3 DEF Next, Step

(* A lone registration whose calls worked finds its name free: it saw no   *)
(* token, or deleted the one it saw, and nobody else mints under it.       *)
LEMMA NextLoneFree ==
  ASSUME TypeOK, AloneIsAlone, LoneMintIsFree, [Next]_vars
  PROVE  LoneMintIsFree'
<1> USE DEF TypeOK, AloneIsAlone, LoneMintIsFree, Busy, Goto, Spoil, forge, task, history
<1>1. ASSUME NEW t \in Tasks, NEW r \in Repos \cup {Foreign}, Register(t, r)
      PROVE  LoneMintIsFree'
  BY <1>1 DEF Register
<1>2. ASSUME NEW t \in Tasks, List(t) \/ ListFails(t) \/ DeleteFails(t) \/ NameTaken(t)
      PROVE  LoneMintIsFree'
  BY <1>2 DEF List, ListFails, DeleteFails, NameTaken
<1>3. ASSUME NEW t \in Tasks, Delete(t)
      PROVE  LoneMintIsFree'
  BY <1>3 DEF Delete
<1>4. ASSUME NEW t \in Tasks, Mint(t)
      PROVE  LoneMintIsFree'
  BY <1>4 DEF Mint, Created
<1>5. ASSUME NEW t \in Tasks, MintFails(t)
      PROVE  LoneMintIsFree'
  BY <1>5 DEF MintFails, Created
<1>6. ASSUME NEW t \in Tasks, Insert(t)
      PROVE  LoneMintIsFree'
  BY <1>6 DEF Insert
<1>7. CASE Tick \/ (\E c \in Serials : Revoke(c)) \/ UNCHANGED vars
  BY <1>7 DEF Tick, Revoke, vars
<1> QED
  BY <1>1, <1>2, <1>3, <1>4, <1>5, <1>6, <1>7 DEF Next, Step

(* The token a lone registration minted is live until it is inserted.      *)
LEMMA NextLoneMint ==
  ASSUME TypeOK, AloneIsAlone, LoneMintIsLive, [Next]_vars
  PROVE  LoneMintIsLive'
<1> USE DEF TypeOK, AloneIsAlone, LoneMintIsLive, Busy, Goto, Spoil, forge, task, history
<1>1. ASSUME NEW t \in Tasks, NEW r \in Repos \cup {Foreign}, Register(t, r)
      PROVE  LoneMintIsLive'
  BY <1>1 DEF Register
<1>2. ASSUME NEW t \in Tasks, List(t) \/ ListFails(t) \/ DeleteFails(t) \/ NameTaken(t)
      PROVE  LoneMintIsLive'
  BY <1>2 DEF List, ListFails, DeleteFails, NameTaken
<1>3. ASSUME NEW t \in Tasks, Delete(t)
      PROVE  LoneMintIsLive'
  BY <1>3 DEF Delete
<1>4. ASSUME NEW t \in Tasks, Mint(t)
      PROVE  LoneMintIsLive'
  BY <1>4 DEF Mint, Created
<1>5. ASSUME NEW t \in Tasks, MintFails(t)
      PROVE  LoneMintIsLive'
  BY <1>5 DEF MintFails, Created
<1>6. ASSUME NEW t \in Tasks, Insert(t)
      PROVE  LoneMintIsLive'
  BY <1>6 DEF Insert
<1>7. CASE Tick \/ (\E c \in Serials : Revoke(c)) \/ UNCHANGED vars
  BY <1>7 DEF Tick, Revoke, vars
<1> QED
  BY <1>1, <1>2, <1>3, <1>4, <1>5, <1>6, <1>7 DEF Next, Step

(* A step of t leaves the account of a token alone when it is neither of   *)
(* t's repository nor of a cap that t touches.                             *)
LEMMA OthersUndisturbed ==
  ASSUME TypeOK, NEW t \in Tasks, NEW r \in Repos,
         \A u \in Tasks \ {t} : UNCHANGED <<pc[u], repo[u], secret[u]>>,
         ~Busy(t, r), ~Busy(t, r)', token'[r] = token[r],
         Survives(r) => Survives(r)',
         AccountedFor(r)
  PROVE  AccountedFor(r)'
<1>1. \A u \in Tasks : Busy(u, r) \/ Busy(u, r)' => u # t
  OBVIOUS
<1>2. \A u \in Tasks : Busy(u, r)' <=> Busy(u, r)
  BY DEF Busy
<1>3. Coming(r) => Coming(r)'
  BY <1>1, <1>2 DEF Coming
<1>4. InHand(r) => InHand(r)'
  BY <1>1, <1>2 DEF InHand
<1>5. Leftover(r) => Leftover(r)'
  BY <1>1, <1>2 DEF Leftover, Quiet
<1> QED
  BY <1>3, <1>4, <1>5 DEF AccountedFor

(* An entry outlives a step that leaves its token and its cap alone.       *)
LEMMA EntryKept ==
  ASSUME Fresh, NEW r \in Repos, token'[r] = token[r], Survives(r),
         token[r] \in Serials => sessions'[token[r]] = sessions[token[r]]
  PROVE  Survives(r)'
<1>1. PICK c \in Serials : sessions[c] # NoEntry /\ sessions[c].token = token[r]
  BY DEF Survives
<1>2. c = token[r]
  BY <1>1 DEF Fresh
<1> QED
  BY <1>1, <1>2 DEF Survives

(* A registration that begins waits to mint, and finds what is there.      *)
LEMMA CleanRegister ==
  ASSUME TypeOK, Fresh, CleanTokenIsAccountedFor,
         NEW t \in Tasks, NEW q \in Repos, Register(t, q), NEW r \in Repos, clean'[r]
  PROVE  AccountedFor(r)'
<1>1. /\ pc[t] = "idle" /\ UNCHANGED <<token, sessions, secret>>
      /\ pc' = [pc EXCEPT ![t] = "list"] /\ repo' = [repo EXCEPT ![t] = q]
      /\ clean' = [clean EXCEPT ![q] = @ \/ Quiet(q)]
  BY DEF Register, forge
<1>2. Survives(r) => Survives(r)'
  BY <1>1 DEF Survives
<1>3. CASE r # q
  <2>1. clean[r] /\ ~Busy(t, r) /\ ~Busy(t, r)'
    BY <1>1, <1>3 DEF TypeOK, Busy
  <2>2. \A u \in Tasks \ {t} : UNCHANGED <<pc[u], repo[u], secret[u]>>
    BY <1>1 DEF TypeOK
  <2> QED
    BY <1>1, <1>2, <2>1, <2>2, OthersUndisturbed DEF CleanTokenIsAccountedFor
<1>4. CASE r = q
  <2>1. Busy(t, r)' /\ pc'[t] = "list"
    BY <1>1, <1>4 DEF TypeOK, Busy
  <2>2. \A u \in Tasks : Busy(u, r) => Busy(u, r)' /\ pc'[u] = pc[u]
    BY <1>1, <1>4 DEF TypeOK, Busy
  <2>3. \A u \in Tasks \ {t} : Busy(u, r)' => Busy(u, r) /\ pc'[u] = pc[u]
    BY <1>1, <1>4 DEF TypeOK, Busy
  <2>4. Coming(r)'
    BY <2>1 DEF Coming
  <2>5. Quiet(r) \/ Leftover(r) => Leftover(r)'
    BY <2>1, <2>3 DEF Quiet, Leftover
  <2>6. InHand(r) => InHand(r)'
    BY <1>1, <2>2 DEF InHand
  <2>7. clean[r] \/ Quiet(r)
    BY <1>1, <1>4 DEF TypeOK
  <2> QED
    BY <1>1, <1>2, <2>4, <2>5, <2>6, <2>7 DEF CleanTokenIsAccountedFor, AccountedFor
<1> QED
  BY <1>3, <1>4

(* A call that works, or the insert, hands the account of its repository's *)
(* token on: from whoever will mint to the one that minted, to its cap.    *)
LEMMA CleanOwn ==
  ASSUME TypeOK, Fresh, NEW t \in Tasks, NEW r \in Repos, repo[t] = r, AccountedFor(r),
         List(t) \/ Delete(t) \/ Mint(t) \/ NameTaken(t) \/ Insert(t)
  PROVE  AccountedFor(r)'
<1> USE DEF Goto, forge, task, history
<1>1. /\ Busy(t, r) /\ repo' = repo
      /\ \A u \in Tasks \ {t} : pc'[u] = pc[u] /\ secret'[u] = secret[u]
      /\ \A u \in Tasks \ {t} : Busy(u, r)' <=> Busy(u, r)
  BY DEF List, Delete, Mint, NameTaken, Insert, TypeOK, Busy
<1>2. CASE List(t)
  <2>1. /\ pc[t] = "list" /\ UNCHANGED <<token, secret, sessions>>
        /\ pc'[t] = IF token[r] = NoToken THEN "mint" ELSE "delete"
        /\ Busy(t, r)'
    BY <1>2 DEF List, TypeOK, Busy
  <2>2. CASE token[r] = NoToken
    BY <2>1, <2>2 DEF AccountedFor, Coming
  <2>3. CASE token[r] # NoToken
    <3>1. InHand(r) => InHand(r)'
      BY <1>1, <2>1 DEF InHand
    <3>2. Survives(r) => Survives(r)'
      BY <2>1 DEF Survives
    <3>3. Leftover(r) => Leftover(r)'
      BY <1>1, <2>1, <2>3 DEF Leftover, Quiet
    <3> QED
      BY <2>1, <2>3, <3>1, <3>2, <3>3 DEF AccountedFor
  <2> QED
    BY <2>2, <2>3
<1>3. CASE Delete(t)
  <2>1. token'[r] = NoToken /\ pc'[t] = "mint" /\ Busy(t, r)'
    BY <1>3 DEF Delete, TypeOK, Busy
  <2> QED
    BY <2>1 DEF AccountedFor, Coming
<1>4. CASE Mint(t)
  <2>1. Created(r) /\ secret' = [secret EXCEPT ![t] = minted'] /\ pc'[t] = "insert"
        /\ Busy(t, r)'
    BY <1>4 DEF Mint, TypeOK, Busy
  <2>2. token'[r] = minted' /\ token'[r] # NoToken
    BY <2>1, CreatedFacts DEF TypeOK
  <2>3. InHand(r)'
    BY <2>1, <2>2 DEF InHand, TypeOK
  <2> QED
    BY <2>2, <2>3 DEF AccountedFor
<1>5. CASE NameTaken(t)
  <2>1. /\ pc[t] = "mint" /\ token[r] # NoToken /\ UNCHANGED <<token, secret, sessions>>
    BY <1>5 DEF NameTaken
  <2>2. ~Leftover(r)
    BY <1>1, <2>1 DEF Leftover
  <2>3. InHand(r) => InHand(r)'
    BY <1>1, <2>1 DEF InHand
  <2>4. Survives(r) => Survives(r)'
    BY <2>1 DEF Survives
  <2> QED
    BY <2>1, <2>2, <2>3, <2>4 DEF AccountedFor
<1>6. CASE Insert(t)
  <2> DEFINE e == [token |-> secret[t], expires_at |-> now + TTL]
  <2>1. /\ pc[t] = "insert" /\ token' = token
        /\ sessions' = [sessions EXCEPT ![secret[t]] = e]
        /\ secret[t] \in Serials /\ secret[t] # NoToken
    BY <1>6 DEF Insert, TypeOK
  <2>2. e # NoEntry /\ e.token = secret[t]
    BY <2>1 DEF NoEntry
  <2> HIDE DEF e
  <2>3. CASE token[r] = NoToken
    <3>1. PICK u \in Tasks : Busy(u, r) /\ pc[u] # "insert"
      BY <2>3 DEF AccountedFor, Coming
    <3>2. Coming(r)'
      BY <1>1, <2>1, <3>1 DEF Coming
    <3> QED
      BY <2>1, <2>3, <3>2 DEF AccountedFor
  <2>4. CASE token[r] = secret[t]
    <3>1. Survives(r)'
      BY <2>1, <2>2, <2>4 DEF Survives, TypeOK
    <3> QED
      BY <2>1, <2>4, <3>1 DEF AccountedFor
  <2>5. CASE token[r] # NoToken /\ token[r] # secret[t]
    <3>1. ~Leftover(r)
      BY <1>1, <2>1 DEF Leftover
    <3>2. InHand(r) => InHand(r)'
      BY <1>1, <2>1, <2>5 DEF InHand
    <3>3. token[r] \in Serials => sessions'[token[r]] = sessions[token[r]]
      BY <2>1, <2>5 DEF TypeOK
    <3>4. Survives(r) => Survives(r)'
      BY <2>1, <3>3, EntryKept
    <3> QED
      BY <2>1, <2>5, <3>1, <3>2, <3>4 DEF AccountedFor
  <2> QED
    BY <2>3, <2>4, <2>5
<1> QED
  BY <1>2, <1>3, <1>4, <1>5, <1>6

(* While every call of a repository's registrations works, its token is    *)
(* accounted for, however they overlap.                                    *)
LEMMA NextClean ==
  ASSUME TypeOK, Fresh, CleanTokenIsAccountedFor, [Next]_vars
  PROVE  CleanTokenIsAccountedFor'
<1> SUFFICES ASSUME NEW r \in Repos, clean'[r] PROVE AccountedFor(r)'
  BY DEF CleanTokenIsAccountedFor
<1> USE DEF Goto, Spoil, forge, task, history
<1>1. clean[r] => AccountedFor(r)
  BY DEF CleanTokenIsAccountedFor
<1>2. ASSUME NEW t \in Tasks, NEW q \in Repos \cup {Foreign}, Register(t, q)
      PROVE  AccountedFor(r)'
  <2>1. q \in Repos
    BY <1>2 DEF Register
  <2> QED
    BY <1>2, <2>1, CleanRegister
<1>3. ASSUME NEW t \in Tasks,
             List(t) \/ Delete(t) \/ Mint(t) \/ NameTaken(t) \/ Insert(t)
      PROVE  AccountedFor(r)'
  <2>1. clean[r]
    BY <1>3 DEF List, Delete, Mint, NameTaken, Insert
  <2>2. CASE repo[t] = r
    BY <1>1, <1>3, <2>1, <2>2, CleanOwn
  <2>3. CASE repo[t] # r
    <3>1. ~Busy(t, r) /\ ~Busy(t, r)'
      BY <1>3, <2>3 DEF List, Delete, Mint, NameTaken, Insert, Busy
    <3>2. token'[r] = token[r]
      BY <1>3, <2>3 DEF List, Delete, Mint, NameTaken, Insert, Created, TypeOK
    <3>3. \A u \in Tasks \ {t} : UNCHANGED <<pc[u], repo[u], secret[u]>>
      BY <1>3 DEF List, Delete, Mint, NameTaken, Insert, TypeOK
    <3>4. token[r] \in Serials => sessions'[token[r]] = sessions[token[r]]
      <4>1. CASE Insert(t)
        <5>1. secret[t] # NoToken /\ secret[t] # token[r]
          BY <2>3, <4>1 DEF Insert, Fresh, TypeOK
        <5> QED
          BY <4>1, <5>1 DEF Insert, TypeOK
      <4>2. CASE ~Insert(t)
        BY <1>3, <4>2 DEF List, Delete, Mint, NameTaken
      <4> QED
        BY <4>1, <4>2
    <3>5. Survives(r) => Survives(r)'
      BY <3>2, <3>4, EntryKept
    <3> QED
      BY <1>1, <2>1, <3>1, <3>2, <3>3, <3>5, OthersUndisturbed
  <2> QED
    BY <2>2, <2>3
<1>4. ASSUME NEW t \in Tasks, ListFails(t) \/ DeleteFails(t) \/ MintFails(t)
      PROVE  AccountedFor(r)'
  <2>1. clean[r] /\ repo[t] # r
    BY <1>4 DEF ListFails, DeleteFails, MintFails, TypeOK
  <2>2. ~Busy(t, r) /\ ~Busy(t, r)'
    BY <1>4, <2>1 DEF ListFails, DeleteFails, MintFails, Busy
  <2>3. token'[r] = token[r] /\ UNCHANGED sessions
    BY <1>4, <2>1 DEF ListFails, DeleteFails, MintFails, Created, TypeOK
  <2>4. \A u \in Tasks \ {t} : UNCHANGED <<pc[u], repo[u], secret[u]>>
    BY <1>4 DEF ListFails, DeleteFails, MintFails, TypeOK
  <2> QED
    BY <1>1, <2>1, <2>2, <2>3, <2>4, OthersUndisturbed DEF Survives
<1>5. ASSUME NEW c \in Serials, Revoke(c)
      PROVE  AccountedFor(r)'
  <2>1. /\ clean[r] /\ sessions[c].token # token[r] /\ UNCHANGED <<token, pc, repo, secret>>
        /\ sessions' = [sessions EXCEPT ![c] = NoEntry]
    BY <1>5 DEF Revoke, TypeOK
  <2>2. Survives(r) => Survives(r)'
    BY <2>1 DEF Survives, TypeOK
  <2> QED
    BY <1>1, <2>1, <2>2 DEF AccountedFor, Coming, InHand, Leftover, Quiet, Busy
<1>6. CASE Tick \/ UNCHANGED vars
  BY <1>1, <1>6 DEF Tick, vars, AccountedFor, Coming, InHand, Leftover, Quiet, Busy, Survives
<1> QED
  BY <1>2, <1>3, <1>4, <1>5, <1>6 DEF Next, Step

(* The cap of the last registration keeps its entry and its token until    *)
(* somebody begins another one for its repository, or revokes it.          *)
LEMMA NextLatest ==
  ASSUME IInv, [Next]_vars
  PROVE  LatestIsLive'
<1> USE DEF IInv, TypeOK, AloneIsAlone, LoneMintIsLive, LatestIsLive, Busy, Goto,
            Spoil, forge, task, history, Fresh
<1>1. ASSUME NEW t \in Tasks, NEW r \in Repos \cup {Foreign}, Register(t, r)
      PROVE  LatestIsLive'
  BY <1>1 DEF Register
<1>2. ASSUME NEW t \in Tasks, List(t) \/ ListFails(t) \/ DeleteFails(t) \/ NameTaken(t)
      PROVE  LatestIsLive'
  BY <1>2 DEF List, ListFails, DeleteFails, NameTaken
<1>3. ASSUME NEW t \in Tasks, Delete(t)
      PROVE  LatestIsLive'
  BY <1>3 DEF Delete
<1>4. ASSUME NEW t \in Tasks, Mint(t)
      PROVE  LatestIsLive'
  BY <1>4 DEF Mint, Created
<1>5. ASSUME NEW t \in Tasks, MintFails(t)
      PROVE  LatestIsLive'
  BY <1>5 DEF MintFails, Created
<1>6. ASSUME NEW t \in Tasks, Insert(t)
      PROVE  LatestIsLive'
  <2> DEFINE cap == secret[t]
  <2>1. cap \in Serials /\ cap # NoToken /\ repo[t] \in Repos
    BY <1>6 DEF Insert, Serials, NoToken
  <2>2. SUFFICES ASSUME NEW r \in Repos, latest'[r] # NoLast
                 PROVE  /\ \A u \in Tasks : ~Busy(u, r)'
                        /\ token'[r] = latest'[r].cap
                        /\ sessions'[latest'[r].cap] =
                             [token |-> latest'[r].cap, expires_at |-> latest'[r].at + TTL]
    OBVIOUS
  <2>3. CASE r = repo[t] /\ alone[t]
    <3>1. latest'[r] = [cap |-> cap, at |-> now]
      BY <1>6, <2>3 DEF Insert
    <3>2. token'[r] = cap
      BY <1>6, <2>3 DEF Insert
    <3>3. sessions'[cap] = [token |-> cap, expires_at |-> now + TTL]
      BY <1>6, <2>1, <2>3 DEF Insert
    <3>4. \A u \in Tasks : ~Busy(u, r)'
      BY <1>6, <2>3 DEF Insert
    <3> QED  BY <3>1, <3>2, <3>3, <3>4
  <2>4. CASE ~(r = repo[t] /\ alone[t])
    <3>1. latest'[r] = latest[r] /\ token'[r] = token[r]
      BY <1>6, <2>1, <2>4 DEF Insert
    <3>2. r # repo[t]
      BY <1>6, <2>2, <3>1 DEF Insert
    <3>3. latest[r].cap # cap
      BY <2>1, <2>2, <3>1, <3>2
    <3> QED  BY <1>6, <2>2, <3>1, <3>2, <3>3 DEF Insert
  <2> QED  BY <2>3, <2>4
<1>7. ASSUME NEW c \in Serials, Revoke(c)
      PROVE  LatestIsLive'
  BY <1>7 DEF Revoke
<1>8. CASE Tick \/ UNCHANGED vars
  BY <1>8 DEF Tick, vars
<1> QED
  BY <1>1, <1>2, <1>3, <1>4, <1>5, <1>6, <1>7, <1>8 DEF Next, Step

(* The latest cap of a repository, where its registration ran alone, keeps *)
(* a live token, through whatever other registrations do.                  *)
THEOREM Invariant == Spec => []IInv
<1>1. IInv /\ [Next]_vars => IInv'
  BY NextTypeOK, NextFresh, NextAlone, NextLoneFree, NextLoneMint, NextClean, NextLatest
     DEF IInv
<1> QED
  BY InitIInv, <1>1, PTL DEF Spec

(* Tokens, caps and the registry stay well formed.                         *)
THEOREM TypeCorrect == Spec => []TypeOK
<1>1. IInv => TypeOK
  BY DEF IInv
<1> QED
  BY <1>1, Invariant, PTL

(* A cap whose registration nobody overlapped pushes for the whole TTL.    *)
THEOREM LoneCapsPush == Spec => []LoneCapPushes
<1>1. IInv => LoneCapPushes
  <2> SUFFICES ASSUME IInv, NEW r \in Repos, latest[r] # NoLast,
                      now <= latest[r].at + TTL
               PROVE  Pushes(latest[r].cap)
    BY DEF LoneCapPushes
  <2> DEFINE cap == latest[r].cap
  <2>1. cap \in Serials /\ latest[r].at \in Nat /\ now \in Nat
    BY DEF IInv, TypeOK, Last
  <2>2. /\ sessions[cap] = [token |-> cap, expires_at |-> latest[r].at + TTL]
        /\ token[r] = cap
    BY DEF IInv, LatestIsLive
  <2>3. sessions[cap] # NoEntry
    BY <2>1, <2>2 DEF NoEntry, Serials, NoToken
  <2> QED
    BY <2>1, <2>2, <2>3 DEF Pushes, Resolves
<1> QED
  BY <1>1, Invariant, PTL

(* However registrations overlap, once they are over and if all calls      *)
(* worked, some cap of the repository stands for its live token.           *)
THEOREM SomeCapAlwaysSurvives == Spec => []SomeCapSurvives
<1>1. IInv => SomeCapSurvives
  BY DEF IInv, CleanTokenIsAccountedFor, AccountedFor, Coming, InHand, Leftover, Quiet,
         SomeCapSurvives
<1> QED
  BY <1>1, Invariant, PTL

(* A registration that nobody overlapped and whose calls all worked ends   *)
(* with a registered cap: NameTaken, the one way to fail without a failed  *)
(* call, needs a token that LoneMintIsFree excludes.                       *)
THEOREM LoneRegistrationsSucceed == Spec => LoneRegistrationSucceeds
<1> DEFINE Succeeds ==
      \A t \in Tasks :
        pc[t] # "idle" /\ pc'[t] = "idle" /\ alone[t] /\ ~spoilt'[t]
          => latest'[repo[t]] # NoLast
<1>1. IInv /\ [Next]_vars => [Succeeds]_vars
  <2> SUFFICES ASSUME IInv, Next, NEW t \in Tasks,
                      pc[t] # "idle", pc'[t] = "idle", alone[t], ~spoilt'[t]
               PROVE  latest'[repo[t]] # NoLast
    OBVIOUS
  <2> USE DEF IInv, TypeOK, Goto, Spoil, forge, task, history
  <2>1. PICK u \in Tasks : Step(u)
    BY DEF Next, Tick, Revoke
  <2>2. u = t
    BY <2>1 DEF Step, Register, List, ListFails, Delete, DeleteFails, Mint, NameTaken,
                MintFails, Insert
  <2>3. Insert(t)
    BY <2>1, <2>2 DEF Step, Register, List, ListFails, Delete, DeleteFails, Mint, NameTaken,
                      MintFails, LoneMintIsFree
  <2>4. secret[t] # NoToken /\ repo[t] \in Repos
    BY <2>3 DEF Insert
  <2> QED
    BY <2>3, <2>4 DEF Insert, NoLast
<1> HIDE DEF Succeeds
<1>2. Spec => [][Succeeds]_vars
  BY <1>1, Invariant, PTL DEF Spec
<1> QED
  BY <1>2 DEF Succeeds, LoneRegistrationSucceeds
=============================================================================
