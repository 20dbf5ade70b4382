------------------------------ MODULE HttpConn ------------------------------
(***************************************************************************)
(* One connection of the :8732 listener: the loop of handle_conn that      *)
(* decides when a request has been read (http_ctrl.rs).  There is no       *)
(* Content-Length handling: once the blank line after the head is there,   *)
(* one read with a 50 ms timeout looks for the rest of the body.           *)
(*                                                                         *)
(* A request is a number of units (bytes, or runs of them); its first      *)
(* HeadLen units end with the blank line.                                  *)
(***************************************************************************)
EXTENDS Naturals

CONSTANTS
  Sizes,    (* sizes of the requests clients send                          *)
  HeadLen,  (* where the body begins                                       *)
  Chunk,    (* most units one read returns: the 1024-byte chunk            *)
  MaxSize   (* MAX_REQUEST_BYTES                                           *)

ASSUME HttpConnAssumption ==
  /\ Sizes \subseteq Nat
  /\ HeadLen \in Nat \ {0} /\ Chunk \in Nat \ {0} /\ MaxSize \in Nat \ {0}

VARIABLES
  size,     (* the request the client means to send                        *)
  sent,     (* how much of it has reached the broker's socket              *)
  shut,     (* the client has closed its side                              *)
  buf,      (* how much handle_conn has buffered                           *)
  pc,       (* "read", "timed", "answered", "failed"                       *)
  stalled   (* history: the timed read gave up before all was sent         *)

vars == <<size, sent, shut, buf, pc, stalled>>

Init ==
  /\ size \in Sizes
  /\ sent = 0 /\ buf = 0
  /\ shut = FALSE /\ stalled = FALSE
  /\ pc = "read"

(* The client's segments arrive; it may close at any moment, and need not. *)
Arrive(n) ==
  /\ ~shut /\ sent + n <= size
  /\ sent' = sent + n
  /\ UNCHANGED <<size, shut, buf, pc, stalled>>

Shut ==
  /\ ~shut
  /\ shut' = TRUE
  /\ UNCHANGED <<size, sent, buf, pc, stalled>>

(* find_body_boundary *)
HasBoundary == buf >= HeadLen

(* A read returns what is there, up to a chunk; 0 at the end of the stream. *)
Readable(n) == n \in 1 .. Chunk /\ buf + n <= sent
AtEnd       == shut /\ buf = sent

MutantRead(n) ==
  /\ pc = "read" /\ Readable(n)
  /\ buf' = buf + Chunk
  /\ pc' = IF buf' >= MaxSize THEN "answered"
           ELSE IF HasBoundary' THEN "timed" ELSE "read"
  /\ UNCHANGED <<size, sent, shut, stalled>>
Read(n) ==
  /\ pc = "read" /\ Readable(n)
  /\ buf' = buf + n
  /\ pc' = IF buf' >= MaxSize THEN "answered"
           ELSE IF HasBoundary' THEN "timed" ELSE "read"
  /\ UNCHANGED <<size, sent, shut, stalled>>

ReadEnd ==
  /\ pc \in {"read", "timed"} /\ AtEnd
  /\ pc' = "answered"
  /\ UNCHANGED <<size, sent, shut, buf, stalled>>

(* The extra read; when it brings something the loop starts over. *)
MutantTimedRead(n) ==
  /\ pc = "timed" /\ Readable(n)
  /\ buf' = buf + n
  /\ pc' = "read"
  /\ UNCHANGED <<size, sent, shut, stalled>>
TimedRead(n) ==
  /\ pc = "timed" /\ Readable(n)
  /\ buf' = buf + n
  /\ pc' = IF buf' >= MaxSize THEN "answered" ELSE "read"
  /\ UNCHANGED <<size, sent, shut, stalled>>

MutantTimeout ==
  /\ pc = "timed"
  /\ pc' = "answered"
  /\ UNCHANGED <<size, sent, shut, buf, stalled>>
MutantRetries ==
  /\ pc = "timed" /\ buf = sent /\ ~shut
  /\ pc' = "read"
  /\ UNCHANGED <<size, sent, shut, buf, stalled>>
Timeout ==
  /\ pc = "timed" /\ buf = sent /\ ~shut
  /\ pc' = "answered"
  /\ stalled' = (sent < size)
  /\ UNCHANGED <<size, sent, shut, buf>>

(* A reset connection: the task returns the error, nobody is answered. *)
ReadError ==
  /\ pc \in {"read", "timed"}
  /\ pc' = "failed"
  /\ UNCHANGED <<size, sent, shut, buf, stalled>>

Client == Shut \/ \E n \in 1 .. size : Arrive(n)
Server == ReadEnd \/ Timeout \/ \E n \in 1 .. Chunk : Read(n) \/ TimedRead(n)

Next == Client \/ Server \/ ReadError

Spec == Init /\ [][Next]_vars

(* The runtime polls a ready socket and its timers; a client sends what it *)
(* means to send, and is free never to close.                              *)
FairSpec == Spec /\ WF_vars(Server) /\ WF_vars(\E n \in 1 .. size : Arrive(n))

-----------------------------------------------------------------------------
(* The buffer never runs ahead of what arrived, nor past the request.      *)
TypeOK ==
  /\ size \in Sizes /\ sent \in 0 .. size /\ buf \in 0 .. sent
  /\ shut \in BOOLEAN /\ stalled \in BOOLEAN
  /\ pc \in {"read", "timed", "answered", "failed"}

(* Whatever a client sends, a connection buffers less than the limit and   *)
(* one chunk: both reads of the loop check it (MAX_REQUEST_BYTES).         *)
BufferBounded ==
  /\ buf < MaxSize + Chunk
  /\ pc \in {"read", "timed"} => buf < MaxSize

(* The request that is acted on is the whole request, unless the client    *)
(* closed early, passed the limit, or paused for the whole timeout: a body *)
(* right behind its head is not cut off (handle_conn's extra read).        *)
WholeUnlessStalled ==
  pc = "answered" => buf = size \/ shut \/ stalled \/ buf >= MaxSize

-----------------------------------------------------------------------------
(* What the repository says and the code does not do: a run finds it       *)
(* violated.                                                               *)

(* "Bounded extra read keeps a slow body from hanging forever"             *)
(* (http_ctrl.rs): once the head is there the request gets its answer.     *)
HeadIsAnswered == HasBoundary ~> pc \in {"answered", "failed"}
=============================================================================
