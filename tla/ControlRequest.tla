--------------------------- MODULE ControlRequest ---------------------------
(***************************************************************************)
(* What becomes of a request once the connection of HttpConn has read it:  *)
(* it is parsed as far as it came, routed, authorised against the cap file *)
(* of the moment, and carried out (handle_conn, parse_request,             *)
(* handle_add_key, handle_scrub in http_ctrl.rs).  A request may have been *)
(* cut anywhere: the client closed, or paused, or passed the limit.        *)
(*                                                                         *)
(* The request line is whole with unit Line, the Authorization header with *)
(* unit Auth, the body with the last unit.  A beginning of one of the two  *)
(* paths is neither of them, a beginning of a cap is no cap, and nothing   *)
(* less than the whole JSON object of the body is JSON.                    *)
(***************************************************************************)
EXTENDS HttpConn

CONSTANTS
  Line, Auth,   (* where the request line and the Authorization header end *)
  Caps          (* contents of authkeys.cap                                *)

ASSUME ControlAssumption ==
  /\ Line \in 1 .. HeadLen /\ Auth \in Line .. HeadLen
  /\ {"none", "wrong"} \cap Caps = {}

VARIABLES
  req,        (* what the client means to send: [path, method, token, body]*)
  cap,        (* authkeys.cap, "none" when there is no such file           *)
  cell,       (* whether the creds in RAM are live                         *)
  parsed,     (* the request as the broker parses it                       *)
  held,       (* the cap as read for this request                          *)
  status,     (* the status it is answered with, 0 before                  *)
  added       (* history: add_ssh_key was called, with the key of the body *)

conn  == <<size, sent, shut, buf, pc, stalled>>
varsC == <<conn, req, cap, cell, parsed, held, status, added>>

Paths    == {"keys", "scrub", "other"}
Bodies   == {"notjson", "nokey", "badkey", "key"}
Tokens   == Caps \cup {"none", "wrong"}
Requests == [path : Paths, method : {"POST", "GET"}, token : Tokens, body : Bodies]
Unparsed == [path |-> "none", method |-> "none", token |-> "none", body |-> "none"]

InitC ==
  /\ Init
  /\ req \in Requests /\ (size <= HeadLen => req.body = "notjson")
  /\ cap \in Caps \cup {"none"} /\ cell \in BOOLEAN
  /\ parsed = Unparsed /\ held = "none" /\ status = 0 /\ added = FALSE

(* The supervisor writes the cap file, another request's scrub removes it. *)
Elsewhere(c) ==
  /\ cap' = c
  /\ \/ c # "none" /\ UNCHANGED cell
     \/ c = "none" /\ cell' = FALSE
  /\ UNCHANGED <<conn, req, parsed, held, status, added>>

-----------------------------------------------------------------------------
(* parse_request: what the first n units of the request say.               *)
TokenIn(n) ==
  IF n >= Auth \/ req.token = "none" THEN {req.token} ELSE {"none", "wrong"}
MutantBodyIn(n) == IF n > HeadLen THEN req.body ELSE "notjson"
BodyIn(n) == IF n = size THEN req.body ELSE "notjson"
Parses(n) ==
  IF n = 0 THEN {}
  ELSE IF n >= Line
  THEN [path : {req.path}, method : {req.method}, token : TokenIn(n), body : {BodyIn(n)}]
  ELSE [path : {"other"}, method : {"POST", "GET"}, token : {"none"}, body : {"notjson"}]

(* No request line, or not even a path in it. *)
Malformed ==
  /\ pc = "answered" /\ status = 0 /\ parsed = Unparsed /\ buf < Line
  /\ status' = 400
  /\ UNCHANGED <<conn, req, cap, cell, parsed, held, added>>

(* The scrub is not authorised; handle_scrub drops creds and cap files.    *)
RouteScrub(p) ==
  /\ pc = "answered" /\ status = 0 /\ parsed = Unparsed /\ p \in Parses(buf)
  /\ p.path = "scrub"
  /\ parsed' = p
  /\ IF p.method = "POST"
     THEN status' = 200 /\ cell' = FALSE /\ cap' = "none"
     ELSE status' = 405 /\ UNCHANGED <<cell, cap>>
  /\ UNCHANGED <<conn, req, held, added>>

(* For anything else the cap is read afresh first (read_authkeys_cap). *)
RouteAddKey(p) ==
  /\ pc = "answered" /\ status = 0 /\ parsed = Unparsed /\ p \in Parses(buf)
  /\ p.path # "scrub"
  /\ parsed' = p /\ held' = cap
  /\ UNCHANGED <<conn, req, cap, cell, status, added>>

Authorised == held # "none" /\ parsed.token = held

(* handle_add_key, whose order of tests is part of its contract. *)
MutantVerdict ==
  CASE parsed.path # "keys"                  -> {404}
    [] parsed.path = "keys" /\ parsed.method # "POST" -> {405}
    [] parsed.path = "keys" /\ parsed.method = "POST" /\ parsed.body \in {"notjson", "nokey"} -> {400}
    [] OTHER -> IF Authorised THEN (IF parsed.body = "badkey" THEN {400} ELSE {200, 500}) ELSE {401}
Verdict ==
  CASE parsed.path # "keys"                  -> {404}
    [] parsed.path = "keys" /\ parsed.method # "POST" -> {405}
    [] parsed.path = "keys" /\ parsed.method = "POST" /\ ~Authorised -> {401}
    [] OTHER -> IF parsed.body = "key" THEN {200, 500} ELSE {400}

Judge ==
  /\ status = 0 /\ parsed.path \in {"keys", "other"}
  /\ status' \in Verdict
  /\ added' = (status' \in {200, 500})
  /\ UNCHANGED <<conn, req, cap, cell, parsed, held>>

Route == Malformed \/ Judge \/ \E p \in Parses(buf) : RouteScrub(p) \/ RouteAddKey(p)

Reading == (Client \/ Server \/ ReadError) /\ UNCHANGED <<req, cap, cell, parsed, held, status, added>>

NextC == Reading \/ Route \/ \E c \in Caps \cup {"none"} : Elsewhere(c)

SpecC == InitC /\ [][NextC]_varsC

(* As for HttpConn; and a task that has read its request does not wait.    *)
FairSpecC ==
  /\ SpecC
  /\ WF_varsC(Server /\ Reading) /\ WF_varsC((\E n \in 1 .. size : Arrive(n)) /\ Reading)
  /\ WF_varsC(Route)

-----------------------------------------------------------------------------
TypeOKC ==
  /\ TypeOK
  /\ req \in Requests /\ cap \in Caps \cup {"none"} /\ cell \in BOOLEAN
  /\ parsed \in Requests \cup {Unparsed} /\ held \in Caps \cup {"none"}
  /\ status \in {0, 200, 400, 401, 404, 405, 500} /\ added \in BOOLEAN

(* A key that reaches authorized_keys is the key its client sent, with the *)
(* cap of the moment, whatever was cut off on the way (handle_conn reads   *)
(* no Content-Length; handle_add_key must see what is missing).            *)
KeysAreWhole ==
  added =>
    /\ buf = size /\ req.body = "key"
    /\ req.path = "keys" /\ req.method = "POST" /\ req.token = held /\ held # "none"

(* "AUTHORIZATION FIRST" (handle_add_key): without the cap, or with no cap *)
(* file, what add-key answers depends on path and method alone, so nothing *)
(* is learnt from the body or from the file of keys.                       *)
BodyOnlyAfterCap ==
  parsed.path = "keys" /\ status \in {200, 400, 500} => held # "none" /\ req.token = held

(* What the broker has still to do, at most, for a connection: a read per  *)
(* unit of the request and the end of the stream, the routing, the answer. *)
Left ==
  CASE pc \in {"read", "timed"} -> 3 + size - buf
    [] pc = "answered" /\ status = 0 -> IF parsed = Unparsed THEN 2 ELSE 1
    [] OTHER -> 0

(* However a client cuts its request into segments and whenever it pauses, *)
(* every read and every step after it brings the answer nearer, and        *)
(* nothing moves it away: the loop cannot go round without new input       *)
(* (handle_conn).                                                          *)
WorkIsBounded ==
  [][Left' <= Left /\ (Server \/ Route => Left' < Left)]_varsC

(* A client that closes its side is answered; so is one whose request was  *)
(* complete when the timed read began.                                     *)
ClosedOrWholeIsAnswered ==
  shut \/ (pc = "timed" /\ buf = size) ~> status # 0 \/ pc = "failed"
=============================================================================
