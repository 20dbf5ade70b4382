--------------------------- MODULE AuthorizedKeys ---------------------------
(***************************************************************************)
(* add_ssh_key (authorized_keys.rs): append a public key to agent's        *)
(* authorized_keys unless a line with it is there.  Both listeners call it *)
(* without a lock, one task per connection, and `writeln!` on an unbuffered *)
(* file is two write(2) calls: the key, then the newline.                  *)
(*                                                                         *)
(* The file is a sequence of lines, each the sequence of keys written on   *)
(* it; it is `open` when the last line has no newline yet.                 *)
(***************************************************************************)
EXTENDS Naturals, Sequences, FiniteSets

CONSTANTS
  Tasks,      (* connections that can be open at the same time             *)
  Keys,       (* public keys that pass the validation                      *)
  Malformed,  (* a key that does not: multi-line, or of an unknown type    *)
  MaxLines,   (* bound: no new request once the file is this large         *)
  CanFail     (* a read or a write may fail, and the process may die       *)

ASSUME AuthorizedKeysAssumption ==
  /\ IsFiniteSet(Tasks) /\ Tasks # {}
  /\ Malformed \notin Keys /\ MaxLines \in Nat \ {0} /\ CanFail \in BOOLEAN

VARIABLES
  lines, open,   (* the file                                               *)
  pc, key,       (* per task: where add_ssh_key_to stands, and its key     *)
  acked,         (* history: the keys a client was told are added          *)
  alone,         (* history, per task: it began on a terminated file, and  *)
                 (* nobody else ran while it did                           *)
  failed,        (* history: a write has failed, or the process has died   *)
  misread        (* history: a read of the file has failed                 *)

Line == Seq(Keys)

vars == <<lines, open, pc, key, acked, alone, failed, misread>>

Init ==
  /\ lines \in {<<>>} \cup {<< <<k>> >> : k \in Keys}
  /\ open = FALSE
  /\ pc = [t \in Tasks |-> "idle"]
  /\ key = [t \in Tasks |-> Malformed]
  /\ acked = {}
  /\ alone = [t \in Tasks |-> FALSE] /\ failed = FALSE /\ misread = FALSE

Idle == \A t \in Tasks : pc[t] = "idle"

(* str::lines yields an unterminated last line too. *)
MutantHasFirst(k) == lines # <<>> /\ lines[1] = <<k>>
MutantHasLine(k) == \E i \in DOMAIN lines : \E j \in DOMAIN lines[i] : lines[i][j] = k
HasLine(k) == \E i \in DOMAIN lines : lines[i] = <<k>>

Room == Len(lines) < MaxLines /\ \A i \in DOMAIN lines : Len(lines[i]) < MaxLines

(* A call starts; from here on nobody else who runs is alone. *)
Call(t, k) ==
  /\ pc[t] = "idle" /\ (Room \/ k = Malformed)
  /\ pc' = [pc EXCEPT ![t] = "check"]
  /\ key' = [key EXCEPT ![t] = k]
  /\ alone' = [u \in Tasks |-> u = t /\ Idle /\ ~open]
  /\ UNCHANGED <<lines, open, acked, failed, misread>>

Return(t) == pc' = [pc EXCEPT ![t] = "idle"] /\ UNCHANGED <<key, alone>>

Reject(t) ==
  /\ pc[t] = "check" /\ key[t] = Malformed
  /\ Return(t)
  /\ UNCHANGED <<lines, open, acked, failed, misread>>

AlreadyThere(t) ==
  /\ pc[t] = "check" /\ HasLine(key[t])
  /\ acked' = acked \cup {key[t]}
  /\ Return(t)
  /\ UNCHANGED <<lines, open, failed, misread>>

MutantMissing(t) ==
  /\ pc[t] = "check" /\ ~HasLine(key[t])
  /\ pc' = [pc EXCEPT ![t] = "key"]
  /\ UNCHANGED <<lines, open, key, acked, alone, failed, misread>>
Missing(t) ==
  /\ pc[t] = "check" /\ key[t] # Malformed /\ ~HasLine(key[t])
  /\ pc' = [pc EXCEPT ![t] = "key"]
  /\ UNCHANGED <<lines, open, key, acked, alone, failed, misread>>

(* A file that cannot be read counts as empty (unwrap_or_default).         *)
Unread(t) ==
  /\ CanFail /\ pc[t] = "check" /\ key[t] # Malformed
  /\ misread' = TRUE
  /\ pc' = [pc EXCEPT ![t] = "key"]
  /\ UNCHANGED <<lines, open, key, acked, alone, failed>>

MutantWriteKey(t) ==
  /\ pc[t] = "key"
  /\ lines' = << <<key[t]>> >>
  /\ open' = TRUE
  /\ pc' = [pc EXCEPT ![t] = "newline"]
  /\ UNCHANGED <<key, acked, alone, failed, misread>>
(* O_APPEND: each write lands at the end of the file as it is then. *)
WriteKey(t) ==
  /\ pc[t] = "key"
  /\ lines' = IF open THEN [lines EXCEPT ![Len(lines)] = Append(@, key[t])]
                      ELSE Append(lines, <<key[t]>>)
  /\ open' = TRUE
  /\ pc' = [pc EXCEPT ![t] = "newline"]
  /\ UNCHANGED <<key, acked, alone, failed, misread>>

MutantWriteNewline(t) ==
  /\ pc[t] = "newline"
  /\ acked' = acked \cup {key[t]}
  /\ Return(t)
  /\ UNCHANGED <<lines, open, failed, misread>>
WriteNewline(t) ==
  /\ pc[t] = "newline"
  /\ lines' = IF open THEN lines ELSE Append(lines, <<>>)
  /\ open' = FALSE
  /\ acked' = acked \cup {key[t]}
  /\ Return(t)
  /\ UNCHANGED <<failed, misread>>

(* A write fails, and the caller is told. *)
Fail(t) ==
  /\ CanFail /\ pc[t] \in {"key", "newline"}
  /\ failed' = TRUE
  /\ Return(t)
  /\ UNCHANGED <<lines, open, acked, misread>>

Crash ==
  /\ CanFail
  /\ failed' = TRUE
  /\ pc' = [t \in Tasks |-> "idle"]
  /\ UNCHANGED <<lines, open, key, acked, alone, misread>>

Next ==
  \/ Crash
  \/ \E t \in Tasks :
       \/ \E k \in Keys \cup {Malformed} : Call(t, k)
       \/ Reject(t) \/ AlreadyThere(t) \/ Missing(t) \/ Unread(t)
       \/ WriteKey(t) \/ WriteNewline(t) \/ Fail(t)

Spec == Init /\ [][Next]_vars

-----------------------------------------------------------------------------
(* The file holds validated keys only, and is open only with a line to     *)
(* close; a task holds a key that passed the validation once it writes.    *)
TypeOK ==
  /\ lines \in Seq(Line) /\ open \in BOOLEAN
  /\ open => lines # <<>>
  /\ pc \in [Tasks -> {"idle", "check", "key", "newline"}]
  /\ key \in [Tasks -> Keys \cup {Malformed}]
  /\ \A t \in Tasks : pc[t] \in {"key", "newline"} => key[t] \in Keys
  /\ acked \in SUBSET Keys
  /\ alone \in [Tasks -> BOOLEAN] /\ failed \in BOOLEAN /\ misread \in BOOLEAN

(* k has a line of its own. *)
Listed(k) == \E i \in DOMAIN lines : lines[i] = <<k>>

(* A call that nobody overlapped, on a file no failed write left open, is  *)
(* answered ok only with its key on a line of its own, whatever the calls  *)
(* before it did to each other's lines (authorized_keys.rs,                *)
(* add_ssh_key_to).                                                        *)
LoneCallLands ==
  [][\A t \in Tasks :
       alone[t] /\ (AlreadyThere(t) \/ WriteNewline(t)) => Listed(key[t])']_vars

(* When no call is under way, the file ends with a newline, so that the    *)
(* next key starts a line: only a failed write or a crash leaves it open   *)
(* (authorized_keys.rs).                                                   *)
QuietFileIsTerminated == Idle /\ ~failed => ~open

(* However often a key is added, by calls that overlap in any way, it gets *)
(* no more lines of its own than calls can run at the same time: one, when *)
(* they do not overlap; whatever write fails, as long as the file can be   *)
(* read (add_ssh_key_to: "idempotent on a dup line").                      *)
LinesOf(k) == {i \in DOMAIN lines : lines[i] = <<k>>}
DuplicatesAreBounded ==
  ~misread => \A k \in Keys : Cardinality(LinesOf(k)) <= Cardinality(Tasks)

(* Whatever overlaps, fails or dies, add-key keeps this promise: a key     *)
(* whose client was answered ok is somewhere in the file, possibly on a    *)
(* line it shares, and what is in the file stays there                     *)
(* (authorized_keys.rs, add_ssh_key_to opens the file to append).          *)
Written(k) == \E i \in DOMAIN lines : \E j \in DOMAIN lines[i] : lines[i][j] = k
WrittenKeys == {k \in Keys : Written(k)}
Text == INSTANCE KeyStore WITH keys <- WrittenKeys
ImplementsTextStore == Text!Spec

-----------------------------------------------------------------------------
(* What the repository says and the code does not do: a run finds it       *)
(* violated.                                                               *)

(* "the broker appends it to ~agent/.ssh/authorized_keys" (http_ctrl.rs):  *)
(* a key whose client was answered ok is on a line of the file.            *)
AckedKeyHasLine == \A k \in acked : Listed(k)
=============================================================================
