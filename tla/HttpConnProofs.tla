--------------------------- MODULE HttpConnProofs ---------------------------
(***************************************************************************)
(* Requests, segments, chunks and limits of any size: the buffer of a      *)
(* connection stays below the limit plus one chunk, and a request is acted *)
(* on before it is complete only for one of the three reasons named.  What *)
(* ControlRequest does with it reads it as HttpConn says, adds no key that *)
(* is not whole, and tells nothing of the body to one without the cap.     *)
(***************************************************************************)
EXTENDS Listener, TLAPS

USE HttpConnAssumption

(* A connection's request and its progress stay well formed: the buffer     *)
(* never runs ahead of what the client has sent (handle_conn).              *)
THEOREM TypeCorrect == Spec => []TypeOK
<1> USE DEF TypeOK
<1>1. Init => TypeOK
  <2> SUFFICES ASSUME Init PROVE TypeOK
    OBVIOUS
  <2>1. size \in Nat
    BY DEF Init
  <2>2. sent \in 0 .. size /\ buf \in 0 .. sent
    BY <2>1 DEF Init
  <2> QED  BY <2>2 DEF Init
<1>2. TypeOK /\ [Next]_vars => TypeOK'
  <2> SUFFICES ASSUME TypeOK, [Next]_vars PROVE TypeOK'
    OBVIOUS
  <2>1. size \in Nat
    OBVIOUS
  <2>2. CASE Client
    <3>1. CASE Shut
      BY <3>1 DEF Shut
    <3>2. ASSUME NEW n \in 1 .. size, Arrive(n) PROVE TypeOK'
      <4>1. sent' \in 0 .. size /\ buf' \in 0 .. sent'
        BY <2>1, <3>2 DEF Arrive
      <4> QED  BY <4>1, <3>2 DEF Arrive
    <3> QED  BY <2>2, <3>1, <3>2 DEF Client
  <2>3. CASE Server
    <3>1. CASE ReadEnd \/ Timeout
      <4>1. stalled' = stalled \/ stalled' = (sent < size)
        BY <3>1 DEF ReadEnd, Timeout
      <4>2. stalled' \in BOOLEAN
        <5>1. (sent < size) \in BOOLEAN /\ stalled \in BOOLEAN
          OBVIOUS
        <5> HIDE DEF TypeOK
        <5> QED  BY <4>1, <5>1, Zenon
      <4> QED  BY <4>2, <3>1 DEF ReadEnd, Timeout
    <3>2. ASSUME NEW n \in 1 .. Chunk, Read(n) \/ TimedRead(n) PROVE TypeOK'
      <4>1. buf' \in 0 .. sent /\ pc' \in {"answered", "timed", "read"}
        BY <2>1, <3>2 DEF Read, TimedRead, Readable
      <4> QED  BY <4>1, <3>2 DEF Read, TimedRead
    <3> QED  BY <2>3, <3>1, <3>2 DEF Server
  <2>4. CASE ReadError \/ UNCHANGED vars
    BY <2>4 DEF ReadError, vars
  <2> QED  BY <2>2, <2>3, <2>4 DEF Next
<1> QED  BY <1>1, <1>2, PTL DEF Spec

(* Both reads check the limit before they loop, so the buffer passes it by *)
(* less than one chunk (MAX_REQUEST_BYTES).                                *)
THEOREM BufferStaysBounded == Spec => []BufferBounded
<1> USE DEF TypeOK, BufferBounded
<1>1. Init => BufferBounded
  BY DEF Init
<1>2. TypeOK /\ BufferBounded /\ [Next]_vars => BufferBounded'
  <2> SUFFICES ASSUME TypeOK, BufferBounded, [Next]_vars PROVE BufferBounded'
    OBVIOUS
  <2>1. ASSUME NEW n \in 1 .. Chunk, Read(n) \/ TimedRead(n)
        PROVE  BufferBounded'
    BY <2>1 DEF Read, TimedRead, Readable
  <2>2. CASE ReadEnd \/ Timeout \/ Client \/ ReadError \/ UNCHANGED vars
    BY <2>2 DEF ReadEnd, Timeout, Client, Shut, Arrive, ReadError, vars
  <2> QED  BY <2>1, <2>2 DEF Next, Server
<1> QED  BY <1>1, <1>2, TypeCorrect, PTL DEF Spec

(* A request is cut off only by its client's close, by the limit, or by a  *)
(* pause as long as the timeout.                                           *)
THEOREM RequestsAreWhole == Spec => []WholeUnlessStalled
<1> USE DEF TypeOK, WholeUnlessStalled
<1>1. Init => WholeUnlessStalled
  BY DEF Init
<1>2. TypeOK /\ WholeUnlessStalled /\ [Next]_vars => WholeUnlessStalled'
  <2> SUFFICES ASSUME TypeOK, WholeUnlessStalled, [Next]_vars
               PROVE  WholeUnlessStalled'
    OBVIOUS
  <2> size \in Nat /\ sent \in Nat
    OBVIOUS
  <2>1. ASSUME NEW n \in 1 .. Chunk, Read(n) \/ TimedRead(n)
        PROVE  WholeUnlessStalled'
    BY <2>1 DEF Read, TimedRead, Readable
  <2>2. CASE ReadEnd
    BY <2>2 DEF ReadEnd, AtEnd
  <2>3. CASE Timeout
    <3>1. buf' = sent /\ size' = size /\ sent <= size
      BY <2>3 DEF Timeout
    <3>4. stalled' = (sent < size)
      BY <2>3 DEF Timeout
    <3>2. CASE sent < size
      BY <3>4, <3>2
    <3>3. CASE sent = size
      BY <3>1, <3>3
    <3> QED  BY <3>1, <3>2, <3>3
  <2>4. CASE Client \/ ReadError \/ UNCHANGED vars
    BY <2>4 DEF Client, Shut, Arrive, ReadError, vars
  <2> QED  BY <2>1, <2>2, <2>3, <2>4 DEF Next, Server
<1> QED  BY <1>1, <1>2, TypeCorrect, PTL DEF Spec

-----------------------------------------------------------------------------
USE ControlAssumption

(* What is done with a request leaves the reading of it alone. *)
THEOREM ReadsAsHttpConn == SpecC => Spec
<1>1. InitC => Init
  BY DEF InitC
<1>2. [NextC]_varsC => [Next]_vars
  BY DEF NextC, varsC, conn, vars, Next, Reading, Route, Malformed, Judge,
         RouteScrub, RouteAddKey, Elsewhere
<1> QED  BY <1>1, <1>2, PTL DEF SpecC, Spec

(* The listener of the run is the two specifications beside each other:    *)
(* what is proved of connections and of the compare holds of it            *)
(* (http_ctrl.rs, creds.rs).                                               *)
THEOREM ListenerIsBoth == SpecL => SpecC /\ InitE /\ [][NextE]_varsE
<1>1. InitL => InitC /\ InitE
  BY DEF InitL, OneConnection, OneCompare
<1>2. [NextL]_varsL => [NextC]_varsC /\ [NextE]_varsE
  BY DEF NextL, ConnectionStep, varsL
<1> QED  BY <1>1, <1>2, PTL DEF SpecL, SpecC

(* What a request is made of, as sent and as parsed. *)
LEMMA ControlFacts ==
  /\ \A r \in Requests :
       r.path \in Paths /\ r.token \in Tokens /\ r.body \in Bodies /\ r # Unparsed
  /\ Unparsed.path = "none" /\ "none" \notin Paths
BY DEF Requests, Unparsed, Paths

(* What is parsed of a request is what it says, or shows that it was cut.  *)
ParsedIsSent ==
  /\ parsed \in Requests => pc = "answered"
  /\ added => parsed \in Requests
  /\ parsed.path = "keys" => req.path = "keys" /\ parsed.method = req.method
  /\ parsed.token \in Caps => parsed.token = req.token
  /\ parsed.body = "key" => req.body = "key" /\ buf = size

(* The inductive invariant, beside that of the reading. *)
ControlInv == TypeOKC /\ ParsedIsSent /\ KeysAreWhole /\ BodyOnlyAfterCap

(* What parse_request can make of the first n units. *)
LEMMA ParsesFacts ==
  ASSUME req \in Requests, NEW n \in Nat, NEW p \in Parses(n)
  PROVE  /\ p \in Requests
         /\ p.path = "keys" => req.path = "keys" /\ p.method = req.method
         /\ p.token \in Caps => p.token = req.token
         /\ p.body = "key" => req.body = "key" /\ n = size
<1>1. /\ "other" \in Paths /\ "notjson" \in Bodies /\ {"none", "wrong"} \subseteq Tokens
      /\ req.path \in Paths /\ req.method \in {"POST", "GET"} /\ req.token \in Tokens
      /\ req.body \in Bodies
  BY DEF Requests, Paths, Bodies, Tokens
<1>2. TokenIn(n) \subseteq {req.token, "none", "wrong"}
  BY DEF TokenIn
<1>3. BodyIn(n) \in {req.body, "notjson"} /\ (BodyIn(n) = "key" => n = size /\ req.body = "key")
  BY DEF BodyIn
<1>4. CASE n >= Line /\ n # 0
  <2>1. p \in [path : {req.path}, method : {req.method}, token : TokenIn(n), body : {BodyIn(n)}]
    BY <1>4 DEF Parses
  <2> QED  BY <1>1, <1>2, <1>3, <2>1 DEF Requests
<1>5. CASE ~(n >= Line) /\ n # 0
  <2>1. p \in [path : {"other"}, method : {"POST", "GET"}, token : {"none"}, body : {"notjson"}]
    BY <1>5 DEF Parses
  <2> QED  BY <1>1, <2>1 DEF Requests
<1> QED  BY <1>4, <1>5 DEF Parses

(* It holds when a connection is accepted. *)
LEMMA ControlInit == InitC /\ TypeOK => ControlInv
<1> SUFFICES ASSUME InitC, TypeOK PROVE ControlInv
  OBVIOUS
<1>1. parsed.path = "none" /\ parsed.token = "none" /\ parsed.body = "none" /\ parsed \notin Requests
  BY ControlFacts DEF InitC, Unparsed
<1>2. "none" \notin Caps
  OBVIOUS
<1>3. TypeOKC
  BY DEF InitC, TypeOKC
<1>4. ParsedIsSent /\ KeysAreWhole /\ BodyOnlyAfterCap
  BY <1>1, <1>2 DEF InitC, ParsedIsSent, KeysAreWhole, BodyOnlyAfterCap
<1> QED  BY <1>3, <1>4 DEF ControlInv

(* Every step keeps it. *)
LEMMA ControlNext == ControlInv /\ TypeOK' /\ [NextC]_varsC => ControlInv'
<1> SUFFICES ASSUME ControlInv, TypeOK', [NextC]_varsC PROVE ControlInv'
  OBVIOUS
<1> USE DEF ControlInv
<1>1. CASE Reading
  <2>1. UNCHANGED <<req, cap, cell, parsed, held, status, added>>
    BY <1>1 DEF Reading
  <2>2. UNCHANGED size /\ (pc = "answered" => UNCHANGED <<pc, buf>>)
    BY <1>1 DEF Reading, Client, Server, Shut, Arrive, ReadEnd, Timeout, Read, TimedRead, ReadError
  <2> QED  BY <2>1, <2>2, ControlFacts DEF TypeOKC, ParsedIsSent, KeysAreWhole, BodyOnlyAfterCap, Unparsed
<1>2. CASE UNCHANGED conn /\ UNCHANGED <<req, held, added>> /\ UNCHANGED <<parsed, status>>
           /\ cap' \in Caps \cup {"none"} /\ cell' \in BOOLEAN
  BY <1>2 DEF conn, TypeOKC, ParsedIsSent, KeysAreWhole, BodyOnlyAfterCap
<1>3. CASE Malformed
  BY <1>3, ControlFacts DEF Malformed, conn, TypeOKC, ParsedIsSent, KeysAreWhole, BodyOnlyAfterCap, Unparsed
<1>4. ASSUME NEW p \in Parses(buf), RouteScrub(p) \/ RouteAddKey(p) PROVE ControlInv'
  <2>1. buf \in Nat /\ req \in Requests
    BY DEF TypeOKC, TypeOK
  <2>2. /\ p \in Requests
        /\ p.path = "keys" => req.path = "keys" /\ p.method = req.method
        /\ p.token \in Caps => p.token = req.token
        /\ p.body = "key" => req.body = "key" /\ buf = size
    BY <2>1, ParsesFacts
  <2>3. ~added
    BY <1>4, ControlFacts DEF RouteScrub, RouteAddKey, ParsedIsSent
  <2>4. /\ pc = "answered" /\ status = 0 /\ parsed' = p /\ UNCHANGED <<conn, req, added>>
        /\ held' \in Caps \cup {"none"} /\ cap' \in Caps \cup {"none"} /\ cell' \in BOOLEAN
        /\ status' \in {0, 200, 405} /\ (p.path = "keys" => status' = 0)
    <3>1. CASE RouteScrub(p)
      <4>1. cell' \in BOOLEAN
        BY <3>1, Zenon DEF RouteScrub, TypeOKC
      <4> QED  BY <3>1, <4>1 DEF RouteScrub, TypeOKC
    <3>2. CASE RouteAddKey(p)
      BY <3>2 DEF RouteAddKey, TypeOKC
    <3> QED  BY <1>4, <3>1, <3>2
  <2> QED  BY <2>2, <2>3, <2>4 DEF conn, TypeOKC, ParsedIsSent, KeysAreWhole, BodyOnlyAfterCap
<1>5. CASE Judge
  <2>1. /\ parsed \in Requests /\ UNCHANGED <<conn, req, cap, cell, parsed, held>>
        /\ status' \in Verdict /\ added' = (status' \in {200, 500})
    BY <1>5, ControlFacts DEF Judge, TypeOKC, Paths
  <2>2. added' \in BOOLEAN /\ (added' => status' \in {200, 500})
    <3>1. added' = (status' \in {200, 500})
      BY <2>1
    <3>2. added' \in BOOLEAN
      BY ONLY <3>1, SMT
    <3>3. added' => status' \in {200, 500}
      BY <3>1, Zenon
    <3> QED  BY <3>2, <3>3
  <2>3. status' \in {200, 400, 401, 404, 405, 500}
    BY <2>1 DEF Verdict
  <2>4. status' \in {200, 400, 500} =>
          parsed.path = "keys" /\ parsed.method = "POST" /\ Authorised
    BY <2>1 DEF Verdict
  <2>5. status' \in {200, 500} => parsed.body = "key"
    BY <2>1 DEF Verdict
  <2>6. Authorised => held \in Caps /\ parsed.token = held /\ held # "none" /\ req.token = held
    BY DEF Authorised, TypeOKC, ParsedIsSent
  <2>7. TypeOKC'
    BY <2>1, <2>2, <2>3 DEF TypeOKC
  <2>8. ParsedIsSent'
    BY <2>1 DEF ParsedIsSent, conn
  <2>9. KeysAreWhole' /\ BodyOnlyAfterCap'
    BY <2>1, <2>2, <2>4, <2>5, <2>6 DEF KeysAreWhole, BodyOnlyAfterCap, ParsedIsSent, conn
  <2> QED  BY <2>7, <2>8, <2>9
<1>6. ASSUME NEW c \in Caps \cup {"none"}, Elsewhere(c) PROVE ControlInv'
  <2>1. cell' \in BOOLEAN
    BY <1>6, Zenon DEF Elsewhere, TypeOKC
  <2> QED  BY <1>2, <1>6, <2>1 DEF Elsewhere
<1>7. CASE UNCHANGED varsC
  BY <1>7, <1>2 DEF varsC, TypeOKC
<1> QED  BY <1>1, <1>3, <1>4, <1>5, <1>6, <1>7 DEF NextC, Route

(* So it holds throughout. *)
LEMMA ControlInvariant == SpecC => []ControlInv
<1>1. Spec => []TypeOK
  BY TypeCorrect
<1> QED  BY <1>1, ReadsAsHttpConn, ControlInit, ControlNext, PTL DEF SpecC

(* Every variable keeps its type. *)
THEOREM ControlTypeCorrect == SpecC => []TypeOKC
BY ControlInvariant, PTL DEF ControlInv

(* A key is added only if all of the request was read and its cap is the   *)
(* one the file held (handle_conn, handle_add_key).                        *)
THEOREM OnlyWholeKeys == SpecC => []KeysAreWhole
BY ControlInvariant, PTL DEF ControlInv

(* Without the cap nothing is learnt from the body (handle_add_key). *)
THEOREM AuthorizationFirst == SpecC => []BodyOnlyAfterCap
BY ControlInvariant, PTL DEF ControlInv
-----------------------------------------------------------------------------
(* A connection's work comes to its end.                                   *)

(* Routing a request, or answering it, shows in what was parsed or in the  *)
(* status, and leaves the reading alone (handle_conn).                     *)
LEMMA RouteShows ==
  ControlInv /\ Route => (status' # status \/ parsed' # parsed) /\ UNCHANGED conn
<1> SUFFICES ASSUME ControlInv, Route
             PROVE  (status' # status \/ parsed' # parsed) /\ UNCHANGED conn
  OBVIOUS
<1>1. CASE Malformed
  BY <1>1 DEF Malformed
<1>2. CASE Judge
  <2>1. status = 0 /\ status' \in Verdict /\ UNCHANGED conn
    BY <1>2 DEF Judge
  <2>2. 0 \notin Verdict
    BY DEF Verdict
  <2> QED
    BY <2>1, <2>2
<1>3. ASSUME NEW p \in Parses(buf), RouteScrub(p) \/ RouteAddKey(p)
      PROVE  (status' # status \/ parsed' # parsed) /\ UNCHANGED conn
  <2>1. parsed = Unparsed /\ parsed' = p /\ UNCHANGED conn
    BY <1>3 DEF RouteScrub, RouteAddKey
  <2>2. p \in Requests
    BY ParsesFacts DEF ControlInv, TypeOKC, TypeOK
  <2> QED
    BY <2>1, <2>2, ControlFacts
<1> QED
  BY <1>1, <1>2, <1>3 DEF Route

(* A step of the reading shows in pc or in the buffer (handle_conn).       *)
LEMMA ServerShows == TypeOK /\ Server => pc' # pc \/ buf' # buf
<1> SUFFICES ASSUME TypeOK, Server PROVE pc' # pc \/ buf' # buf
  OBVIOUS
<1>1. CASE ReadEnd \/ Timeout
  BY <1>1 DEF ReadEnd, Timeout
<1>2. ASSUME NEW n \in 1 .. Chunk, Read(n) \/ TimedRead(n) PROVE buf' # buf
  <2>1. buf \in Nat /\ n \in Nat \ {0} /\ buf' = buf + n
    BY <1>2 DEF TypeOK, Read, TimedRead
  <2> QED
    BY <2>1
<1> QED
  BY <1>1, <1>2 DEF Server

(* A connection of n units costs the broker at most n + 3 steps, however   *)
(* its client paces them: the loop never goes round without new input      *)
(* (handle_conn).                                                          *)
THEOREM ConnectionsEnd == SpecC => WorkIsBounded
<1> DEFINE Shrinks == Left' <= Left /\ (Server \/ Route => Left' < Left)
<1>1. ASSUME ControlInv, TypeOK', [NextC]_varsC PROVE [Shrinks]_varsC
  <2> SUFFICES ASSUME NextC PROVE Shrinks
    BY <1>1
  <2>1. /\ size \in Nat /\ buf \in Nat /\ buf <= size /\ sent \in Nat
        /\ size' \in Nat /\ buf' \in Nat /\ buf' <= size'
    BY <1>1 DEF ControlInv, TypeOKC, TypeOK
  <2>2. /\ pc = "answered" /\ status = 0 => Left \in 1 .. 2
        /\ pc \in {"read", "timed"} => Left = 3 + size - buf
        /\ pc \notin {"read", "timed"} => Left \in 0 .. 2
    BY DEF Left
  <2>3. /\ pc' = "failed" \/ (status' # 0 /\ pc' = "answered") => Left' = 0
        /\ pc' \in {"read", "timed"} => Left' = 3 + size' - buf'
        /\ pc' \notin {"read", "timed"} => Left' \in 0 .. 2
    BY DEF Left
  <2>4. CASE Reading
    <3>1. ~Route
      BY <2>4, <1>1, RouteShows DEF Reading
    <3>2. CASE Client
      <4>1. UNCHANGED <<size, buf, pc, status, parsed>>
        BY <2>4, <3>2 DEF Reading, Client, Shut, Arrive
      <4> QED
        BY <2>1, <2>2, <3>1, <3>2, <4>1 DEF Left, Server, Client, Shut, Arrive, ReadEnd, Timeout,
                                       Read, TimedRead
    <3>3. CASE ReadError
      <4>1. pc \in {"read", "timed"} /\ pc' = "failed" /\ UNCHANGED <<size, buf>>
        BY <3>3 DEF ReadError
      <4> QED
        BY <2>1, <2>2, <2>3, <4>1
    <3>4. CASE Server
      <4>1. CASE ReadEnd \/ Timeout
        <5>1. pc \in {"read", "timed"} /\ pc' = "answered"
          BY <4>1 DEF ReadEnd, Timeout
        <5> QED
          BY <2>1, <2>2, <2>3, <5>1
      <4>2. ASSUME NEW n \in 1 .. Chunk, Read(n) \/ TimedRead(n)
            PROVE  Left' < Left
        <5>1. /\ pc \in {"read", "timed"} /\ size' = size /\ buf' = buf + n
              /\ pc' \in {"read", "timed", "answered"}
          BY <4>2 DEF Read, TimedRead
        <5> QED
          BY <2>1, <2>2, <2>3, <5>1
      <4>3. Left' < Left
        BY <2>1, <2>2, <2>3, <3>4, <4>1, <4>2 DEF Server, ReadEnd, Timeout
      <4>4. Left' \in Nat /\ Left \in Nat
        BY <2>1, <2>2, <2>3
      <4> QED
        BY <4>3, <4>4
    <3> QED
      BY <2>4, <3>2, <3>3, <3>4 DEF Reading
  <2>5. CASE Route
    <3>1. /\ pc = "answered" /\ status = 0 /\ UNCHANGED <<pc, size, buf>>
      BY <2>5, <1>1, ControlFacts DEF Route, Malformed, RouteScrub, RouteAddKey, Judge, conn,
                                      ControlInv, ParsedIsSent, TypeOKC
    <3>2. CASE status' # 0
      BY <2>2, <2>3, <3>1, <3>2
    <3>3. CASE status' = 0
      <4>1. parsed = Unparsed /\ parsed' # Unparsed
        <5>1. ~Malformed /\ ~Judge /\ ~ \E p \in Parses(buf) : RouteScrub(p)
          BY <3>3 DEF Malformed, Judge, Verdict, RouteScrub
        <5>2. PICK p \in Parses(buf) : RouteAddKey(p)
          BY <2>5, <5>1 DEF Route
        <5>3. p \in Requests
          BY <1>1, <2>1, ParsesFacts DEF ControlInv, TypeOKC
        <5> QED
          BY <5>2, <5>3, ControlFacts DEF RouteAddKey
      <4> QED
        BY <3>1, <3>3, <4>1 DEF Left
    <3> QED
      BY <3>2, <3>3
  <2>6. ASSUME NEW c \in Caps \cup {"none"}, Elsewhere(c) PROVE Shrinks
    <3>1. UNCHANGED <<conn, status, parsed>>
      BY <2>6 DEF Elsewhere
    <3>2. Left' = Left /\ Left \in Nat
      BY <2>1, <2>2, <3>1 DEF Left, conn
    <3>3. ~Server /\ ~Route
      BY <3>1, <1>1, RouteShows, ServerShows DEF conn, ControlInv, TypeOKC
    <3> QED
      BY <3>2, <3>3
  <2> QED
    BY <2>4, <2>5, <2>6 DEF NextC
<1> HIDE DEF Shrinks
<1>2. Spec => []TypeOK
  BY TypeCorrect
<1>3. SpecC => [][Shrinks]_varsC
  BY <1>1, <1>2, ReadsAsHttpConn, ControlInvariant, PTL DEF SpecC
<1> QED
  BY <1>3 DEF Shrinks, WorkIsBounded
=============================================================================
