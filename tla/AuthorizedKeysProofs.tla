------------------------ MODULE AuthorizedKeysProofs ------------------------
(***************************************************************************)
(* What add-key guarantees to a call that nobody overlaps, and to all of   *)
(* them whatever overlaps and fails, for any number of calls and keys.     *)
(***************************************************************************)
EXTENDS AuthorizedKeys, SequenceTheorems, FiniteSetTheorems, TLAPS

(* A line of the file is a sequence of keys, a new one among them.         *)
LEMMA LineFacts ==
  /\ <<>> \in Line
  /\ \A k \in Keys : <<k>> \in Line
  /\ \A l \in Line, k \in Keys : Append(l, k) \in Line
  /\ \A x : <<x>> \in Line => x \in Keys
<1>1. \A x : <<x>> \in Seq(Keys) => x \in Keys
  <2> SUFFICES ASSUME NEW x, <<x>> \in Seq(Keys) PROVE x \in Keys
    OBVIOUS
  <2>1. <<x>>[1] \in Keys
    OBVIOUS
  <2> QED
    BY <2>1
<1> QED
  BY <1>1 DEF Line

(* What the two writes do to a well-formed file. *)
LEMMA FileFacts ==
  ASSUME NEW f \in Seq(Line), NEW k \in Keys
  PROVE  /\ Append(f, <<k>>) \in Seq(Line) /\ Append(f, <<k>>) # <<>>
         /\ Append(f, <<>>) \in Seq(Line)
         /\ f # <<>> => /\ Len(f) \in DOMAIN f
                        /\ [f EXCEPT ![Len(f)] = Append(@, k)] \in Seq(Line)
                        /\ [f EXCEPT ![Len(f)] = Append(@, k)] # <<>>
<1> USE LineFacts
<1>1. /\ Append(f, <<k>>) \in Seq(Line) /\ Append(f, <<k>>) # <<>>
      /\ Append(f, <<>>) \in Seq(Line)
  OBVIOUS
<1>2. ASSUME f # <<>>
      PROVE  /\ Len(f) \in DOMAIN f
             /\ [f EXCEPT ![Len(f)] = Append(@, k)] \in Seq(Line)
             /\ [f EXCEPT ![Len(f)] = Append(@, k)] # <<>>
  <2>1. Len(f) \in DOMAIN f
    BY <1>2
  <2>2. f[Len(f)] \in Line
    BY <2>1
  <2>3. Append(f[Len(f)], k) \in Line
    BY <2>2
  <2>4. [f EXCEPT ![Len(f)] = Append(@, k)] \in Seq(Line)
    BY <2>1, <2>3
  <2>5. [f EXCEPT ![Len(f)] = Append(@, k)] # <<>>
    BY <1>2
  <2> QED
    BY <2>1, <2>4, <2>5
<1> QED
  BY <1>1, <1>2

(* The file as the image ships it is well formed.                          *)
LEMMA TypeInit == Init => TypeOK
<1> SUFFICES ASSUME Init PROVE TypeOK
  OBVIOUS
<1>1. \A l \in Line : <<l>> \in Seq(Line)
  OBVIOUS
<1>2. lines \in Seq(Line)
  <2>1. CASE lines = <<>>
    BY <2>1
  <2>2. ASSUME NEW k \in Keys, lines = << <<k>> >> PROVE lines \in Seq(Line)
    BY <1>1, <2>2, LineFacts, Zenon
  <2> QED
    BY <2>1, <2>2, Zenon DEF Init
<1> QED
  BY <1>2 DEF Init, TypeOK

(* Every step of add_ssh_key_to, and a crash, keeps the types.             *)
LEMMA TypeNext == TypeOK /\ [Next]_vars => TypeOK'
<1> SUFFICES ASSUME TypeOK, [Next]_vars PROVE TypeOK'
  OBVIOUS
<1> USE DEF TypeOK
<1>1. CASE Crash
  BY <1>1 DEF Crash
<1>2. ASSUME NEW t \in Tasks, NEW k \in Keys \cup {Malformed}, Call(t, k) PROVE TypeOK'
  <2>1. alone' \in [Tasks -> BOOLEAN]
    BY <1>2, Zenon DEF Call
  <2>2. pc' = [pc EXCEPT ![t] = "check"] /\ key' = [key EXCEPT ![t] = k]
    BY <1>2, Zenon DEF Call
  <2>3. UNCHANGED <<lines, open, acked, failed, misread>>
    BY <1>2 DEF Call
  <2> QED
    BY <2>1, <2>2, <2>3
<1>3. ASSUME NEW t \in Tasks, Reject(t) \/ Fail(t) PROVE TypeOK'
  <2>1. failed' \in BOOLEAN
    BY <1>3, Zenon DEF Reject, Fail
  <2>2. UNCHANGED <<lines, open, acked, key, alone, misread>> /\ pc' = [pc EXCEPT ![t] = "idle"]
    BY <1>3 DEF Reject, Fail, Return
  <2> QED
    BY <2>1, <2>2
<1>4. ASSUME NEW t \in Tasks, AlreadyThere(t) PROVE TypeOK'
  <2>1. \A i \in DOMAIN lines : lines[i] \in Line
    OBVIOUS
  <2>2. HasLine(key[t]) => key[t] \in Keys
    BY <2>1, LineFacts DEF HasLine
  <2> QED
    BY <1>4, <2>2 DEF AlreadyThere, Return
<1>5. ASSUME NEW t \in Tasks, Missing(t) \/ Unread(t) PROVE TypeOK'
  <2>1. misread' \in BOOLEAN
    BY <1>5, Zenon DEF Missing, Unread
  <2>2. /\ key[t] # Malformed /\ pc' = [pc EXCEPT ![t] = "key"]
        /\ UNCHANGED <<lines, open, key, acked, alone, failed>>
    BY <1>5 DEF Missing, Unread
  <2>3. \A u \in Tasks : pc'[u] \in {"key", "newline"} => key'[u] \in Keys
    BY <2>2
  <2> QED
    BY <2>1, <2>2, <2>3
<1>6. ASSUME NEW t \in Tasks, WriteKey(t) PROVE TypeOK'
  <2>1. key[t] \in Keys
    BY <1>6 DEF WriteKey
  <2>2. CASE open
    <3>1. lines' = [lines EXCEPT ![Len(lines)] = Append(@, key[t])]
      BY <1>6, <2>2 DEF WriteKey
    <3> QED
      BY <1>6, <2>1, <2>2, <3>1, FileFacts DEF WriteKey
  <2>3. CASE ~open
    <3>1. lines' = Append(lines, <<key[t]>>)
      BY <1>6, <2>3 DEF WriteKey
    <3> QED
      BY <1>6, <2>1, <3>1, FileFacts DEF WriteKey
  <2> QED
    BY <2>2, <2>3
<1>7. ASSUME NEW t \in Tasks, WriteNewline(t) PROVE TypeOK'
  <2>1. key[t] \in Keys
    BY <1>7 DEF WriteNewline
  <2> QED
    BY <1>7, <2>1, FileFacts DEF WriteNewline, Return
<1>8. CASE UNCHANGED vars
  BY <1>8 DEF vars
<1> QED
  BY <1>1, <1>2, <1>3, <1>4, <1>5, <1>6, <1>7, <1>8 DEF Next

(* The file stays well formed whatever overlaps and fails: a key that did  *)
(* not pass the validation never reaches it.                               *)
THEOREM TypeCorrect == Spec => []TypeOK
  BY TypeInit, TypeNext, PTL DEF Spec

-----------------------------------------------------------------------------
(* A file that lacks its last newline waits for one.                       *)

OpenAwaitsNewline == open /\ ~failed => \E t \in Tasks : pc[t] = "newline"

(* Every step keeps it: who opens a line goes on to write its newline, and *)
(* another's newline closes it as well.                                    *)
LEMMA OpenAwaitsNewlineNext ==
  ASSUME TypeOK, OpenAwaitsNewline, [Next]_vars
  PROVE  OpenAwaitsNewline'
<1> USE DEF TypeOK, OpenAwaitsNewline
<1>1. ASSUME NEW t \in Tasks,
             \/ \E k \in Keys \cup {Malformed} : Call(t, k)
             \/ Reject(t) \/ AlreadyThere(t) \/ Missing(t) \/ Unread(t)
      PROVE  OpenAwaitsNewline'
  <2>1. UNCHANGED <<open, failed>> /\ pc[t] # "newline" /\ pc' = [pc EXCEPT ![t] = pc'[t]]
    BY <1>1 DEF Call, Reject, AlreadyThere, Missing, Unread, Return
  <2> QED
    BY <2>1
<1>2. ASSUME NEW t \in Tasks, WriteKey(t) PROVE OpenAwaitsNewline'
  BY <1>2 DEF WriteKey
<1>3. ASSUME NEW t \in Tasks, WriteNewline(t) PROVE OpenAwaitsNewline'
  BY <1>3 DEF WriteNewline
<1>4. CASE UNCHANGED vars
  BY <1>4 DEF vars
<1> QED
  BY <1>1, <1>2, <1>3, <1>4 DEF Next, Crash, Fail

(* As long as no write has failed, the file is terminated whenever no call *)
(* is under way, however many calls overlapped.                            *)
THEOREM QuietFileTerminated == Spec => []QuietFileIsTerminated
<1>1. Init => OpenAwaitsNewline
  BY DEF Init, OpenAwaitsNewline
<1>2. OpenAwaitsNewline => QuietFileIsTerminated
  BY DEF OpenAwaitsNewline, QuietFileIsTerminated, Idle
<1>3. TypeOK /\ OpenAwaitsNewline /\ [Next]_vars => OpenAwaitsNewline'
  BY OpenAwaitsNewlineNext
<1> QED
  BY <1>1, <1>2, <1>3, TypeCorrect, PTL DEF Spec

-----------------------------------------------------------------------------
(* A call that runs alone, under every history of other calls.             *)

(* Appending a line adds its key and disturbs no other line. *)
LEMMA AppendLists ==
  ASSUME NEW f \in Seq(Line), NEW l \in Line, NEW x
  PROVE  (\E i \in DOMAIN Append(f, l) : Append(f, l)[i] = x)
           <=> x = l \/ \E i \in DOMAIN f : f[i] = x
<1>1. DOMAIN Append(f, l) = 1 .. (Len(f) + 1) /\ DOMAIN f = 1 .. Len(f) /\ Len(f) \in Nat
  OBVIOUS
<1>2. Append(f, l)[Len(f) + 1] = l
  OBVIOUS
<1>3. \A i \in 1 .. Len(f) : Append(f, l)[i] = f[i]
  OBVIOUS
<1> QED
  BY <1>1, <1>2, <1>3

(* A key written to a terminated file gets a line of its own.              *)
LEMMA WriteKeyLists ==
  ASSUME TypeOK, ~open, NEW t \in Tasks, WriteKey(t)
  PROVE  key[t] \in Keys /\ Listed(key[t])'
<1>1. key[t] \in Keys /\ lines \in Seq(Line)
  BY DEF TypeOK, WriteKey
<1>2. lines' = Append(lines, <<key[t]>>)
  BY DEF WriteKey
<1>3. <<key[t]>> \in Line
  BY <1>1, LineFacts
<1>4. \E i \in DOMAIN lines' : lines'[i] = <<key[t]>>
  BY <1>1, <1>2, <1>3, AppendLists
<1>5. key' = key
  BY DEF WriteKey
<1> QED
  BY <1>1, <1>4, <1>5 DEF Listed

LoneInv ==
  \A t \in Tasks :
    alone[t] /\ pc[t] # "idle" =>
      /\ \A u \in Tasks \ {t} : pc[u] = "idle"
      /\ pc[t] \in {"check", "key"} => ~open
      /\ pc[t] = "newline" => open /\ Listed(key[t])

(* Every step keeps it, those of calls that overlap others included.       *)
LEMMA LoneInvNext ==
  ASSUME TypeOK, LoneInv, [Next]_vars
  PROVE  LoneInv'
<1> USE DEF TypeOK, LoneInv
<1>1. CASE Crash
  BY <1>1 DEF Crash
<1>2. ASSUME NEW t \in Tasks, NEW k \in Keys \cup {Malformed}, Call(t, k) PROVE LoneInv'
  BY <1>2 DEF Call, Idle
<1>3. ASSUME NEW t \in Tasks, Reject(t) \/ AlreadyThere(t) \/ Fail(t) PROVE LoneInv'
  BY <1>3 DEF Reject, AlreadyThere, Fail, Return, Listed
<1>4. ASSUME NEW t \in Tasks, Missing(t) \/ Unread(t) PROVE LoneInv'
  BY <1>4 DEF Missing, Unread, Listed
<1>5. ASSUME NEW t \in Tasks, WriteKey(t) PROVE LoneInv'
  <2>1. \A u \in Tasks \ {t} : ~alone[u] \/ pc[u] = "idle"
    BY <1>5 DEF WriteKey
  <2>2. alone[t] => Listed(key[t])'
    BY <1>5, WriteKeyLists DEF WriteKey
  <2> QED
    BY <1>5, <2>1, <2>2 DEF WriteKey, Listed
<1>6. ASSUME NEW t \in Tasks, WriteNewline(t) PROVE LoneInv'
  BY <1>6 DEF WriteNewline, Return, Listed
<1>7. CASE UNCHANGED vars
  BY <1>7 DEF vars, Listed
<1> QED
  BY <1>1, <1>2, <1>3, <1>4, <1>5, <1>6, <1>7 DEF Next

(* A call that nobody overlapped, on a terminated file, leaves its key on  *)
(* a line, whatever other calls wrote and failed to write before it.       *)
THEOREM LoneCallsLand == Spec => LoneCallLands
<1>1. Init => LoneInv
  BY DEF Init, LoneInv
<1>2. ASSUME TypeOK, LoneInv, NEW t \in Tasks, alone[t], AlreadyThere(t)
      PROVE  Listed(key[t])'
  BY <1>2 DEF AlreadyThere, HasLine, Return, Listed
<1>3. ASSUME TypeOK, LoneInv, NEW t \in Tasks, alone[t], WriteNewline(t)
      PROVE  Listed(key[t])'
  BY <1>3 DEF LoneInv, WriteNewline, Return, Listed
<1>4. TypeOK /\ LoneInv /\ [Next]_vars
        => [\A t \in Tasks :
              alone[t] /\ (AlreadyThere(t) \/ WriteNewline(t)) => Listed(key[t])']_vars
  BY <1>2, <1>3
<1>5. TypeOK /\ LoneInv /\ [Next]_vars => LoneInv'
  BY LoneInvNext
<1> QED
  BY <1>1, <1>4, <1>5, TypeCorrect, PTL DEF Spec, LoneCallLands

-----------------------------------------------------------------------------
(* Refinement of KeyStore by the text of the file, whatever overlaps, fails *)
(* or dies.                                                                *)

(* A line appended to the file adds its keys to the text and loses none. *)
LEMMA AppendLineText ==
  ASSUME NEW f \in Seq(Line), NEW l \in Line, NEW k
  PROVE  (\E i \in DOMAIN Append(f, l) :
            \E j \in DOMAIN Append(f, l)[i] : Append(f, l)[i][j] = k)
           <=> \/ \E j \in DOMAIN l : l[j] = k
               \/ \E i \in DOMAIN f : \E j \in DOMAIN f[i] : f[i][j] = k
<1>1. DOMAIN Append(f, l) = 1 .. (Len(f) + 1) /\ DOMAIN f = 1 .. Len(f) /\ Len(f) \in Nat
  OBVIOUS
<1>2. Append(f, l)[Len(f) + 1] = l
  OBVIOUS
<1>3. \A i \in 1 .. Len(f) : Append(f, l)[i] = f[i]
  OBVIOUS
<1>4. \A i \in 1 .. (Len(f) + 1) : i = Len(f) + 1 \/ i \in 1 .. Len(f)
  BY <1>1
<1> QED
  BY <1>1, <1>2, <1>3, <1>4

(* A key appended to the last line joins the text, which loses none. *)
LEMMA AppendKeyText ==
  ASSUME NEW f \in Seq(Line), f # <<>>, NEW k \in Keys, NEW x
  PROVE  LET g == [f EXCEPT ![Len(f)] = Append(@, k)]
         IN  (\E i \in DOMAIN g : \E j \in DOMAIN g[i] : g[i][j] = x)
               <=> x = k \/ \E i \in DOMAIN f : \E j \in DOMAIN f[i] : f[i][j] = x
<1> DEFINE n == Len(f)
           g == [f EXCEPT ![n] = Append(@, k)]
<1>1. n \in DOMAIN f /\ DOMAIN g = DOMAIN f
  OBVIOUS
<1>2. f[n] \in Seq(Keys)
  BY <1>1 DEF Line
<1>3. g[n] = Append(f[n], k) /\ \A i \in DOMAIN f \ {n} : g[i] = f[i]
  BY <1>1
<1> HIDE DEF n, g
<1>4. (\E j \in DOMAIN Append(f[n], k) : Append(f[n], k)[j] = x)
        <=> x = k \/ \E j \in DOMAIN f[n] : f[n][j] = x
  <2>1. /\ DOMAIN Append(f[n], k) = 1 .. (Len(f[n]) + 1)
        /\ DOMAIN f[n] = 1 .. Len(f[n]) /\ Len(f[n]) \in Nat
    BY <1>2
  <2>2. /\ Append(f[n], k)[Len(f[n]) + 1] = k
        /\ \A j \in 1 .. Len(f[n]) : Append(f[n], k)[j] = f[n][j]
    BY <1>2
  <2>3. \A j \in 1 .. (Len(f[n]) + 1) : j = Len(f[n]) + 1 \/ j \in 1 .. Len(f[n])
    BY <2>1
  <2> QED
    BY <2>1, <2>2, <2>3
<1>5. (\E i \in DOMAIN g : \E j \in DOMAIN g[i] : g[i][j] = x)
        <=> x = k \/ \E i \in DOMAIN f : \E j \in DOMAIN f[i] : f[i][j] = x
  BY <1>1, <1>3, <1>4, Zenon
<1> QED
  BY <1>5 DEF g, n

(* The first write puts the key in the text, wherever it lands. *)
LEMMA WriteKeyText ==
  ASSUME TypeOK, NEW t \in Tasks, WriteKey(t)
  PROVE  /\ key[t] \in Keys
         /\ \A x : Written(x)' <=> x = key[t] \/ Written(x)
<1>1. key[t] \in Keys /\ lines \in Seq(Line) /\ (open => lines # <<>>)
  BY DEF TypeOK, WriteKey
<1>2. CASE open
  <2>1. lines' = [lines EXCEPT ![Len(lines)] = Append(@, key[t])] /\ lines # <<>>
    BY <1>1, <1>2 DEF WriteKey
  <2>2. ASSUME NEW x PROVE Written(x)' <=> x = key[t] \/ Written(x)
    <3> DEFINE g == [lines EXCEPT ![Len(lines)] = Append(@, key[t])]
    <3>1. (\E i \in DOMAIN g : \E j \in DOMAIN g[i] : g[i][j] = x)
            <=> x = key[t] \/ Written(x)
      BY <1>1, <2>1, AppendKeyText DEF Written
    <3>2. lines' = g
      BY <2>1
    <3> HIDE DEF g
    <3> QED
      BY <3>1, <3>2, Zenon DEF Written
  <2> QED
    BY <1>1, <2>2
<1>3. CASE ~open
  <2>1. lines' = Append(lines, <<key[t]>>) /\ <<key[t]>> \in Line
    BY <1>1, <1>3, LineFacts DEF WriteKey
  <2>2. \A x : (\E j \in DOMAIN <<key[t]>> : <<key[t]>>[j] = x) <=> x = key[t]
    OBVIOUS
  <2>3. ASSUME NEW x PROVE Written(x)' <=> x = key[t] \/ Written(x)
    <3> DEFINE g == Append(lines, <<key[t]>>)
               l == <<key[t]>>
    <3>1. (\E i \in DOMAIN g : \E j \in DOMAIN g[i] : g[i][j] = x)
            <=> (\E j \in DOMAIN l : l[j] = x) \/ Written(x)
      BY <1>1, <2>1, AppendLineText DEF Written
    <3>2. lines' = g /\ ((\E j \in DOMAIN l : l[j] = x) <=> x = key[t])
      BY <2>1, <2>2
    <3> HIDE DEF g, l
    <3> QED
      BY <3>1, <3>2, Zenon DEF Written
  <2> QED
    BY <1>1, <2>3
<1> QED
  BY <1>2, <1>3 DEF TypeOK

(* The second write leaves the text as it is. *)
LEMMA WriteNewlineText ==
  ASSUME TypeOK, NEW t \in Tasks, WriteNewline(t), NEW x
  PROVE  Written(x)' <=> Written(x)
<1>1. lines \in Seq(Line) /\ <<>> \in Line
  BY LineFacts DEF TypeOK
<1>2. CASE open
  BY <1>2 DEF WriteNewline, Written
<1>3. CASE ~open
  <2>1. lines' = Append(lines, <<>>)
    BY <1>3 DEF WriteNewline
  <2>2. ~ \E j \in DOMAIN <<>> : <<>>[j] = x
    OBVIOUS
  <2> QED
    BY <1>1, <2>1, <2>2, AppendLineText DEF Written
<1> QED
  BY <1>2, <1>3

(* Once a call has written its key, the key is in the text until the call  *)
(* is answered.                                                            *)
NewlineFollowsKey == \A t \in Tasks : pc[t] = "newline" => Written(key[t])

(* Every step keeps it: what is in the text stays there.                   *)
LEMMA NewlineFollowsKeyNext ==
  ASSUME TypeOK, NewlineFollowsKey, [Next]_vars
  PROVE  NewlineFollowsKey'
<1> USE DEF TypeOK, NewlineFollowsKey
<1>1. CASE Crash
  BY <1>1 DEF Crash
<1>2. ASSUME NEW t \in Tasks,
             \/ \E k \in Keys \cup {Malformed} : Call(t, k)
             \/ Reject(t) \/ AlreadyThere(t) \/ Missing(t) \/ Unread(t) \/ Fail(t)
      PROVE  NewlineFollowsKey'
  <2>1. /\ lines' = lines /\ pc'[t] # "newline"
        /\ \A u \in Tasks \ {t} : pc'[u] = pc[u] /\ key'[u] = key[u]
    BY <1>2 DEF Call, Reject, AlreadyThere, Missing, Unread, Fail, Return
  <2> QED
    BY <2>1 DEF Written
<1>3. ASSUME NEW t \in Tasks, WriteKey(t) PROVE NewlineFollowsKey'
  <2>1. pc' = [pc EXCEPT ![t] = "newline"] /\ key' = key
    BY <1>3 DEF WriteKey
  <2>2. \A u \in Tasks : pc'[u] = "newline" => Written(key[u])'
    BY <1>3, <2>1, WriteKeyText
  <2> QED
    BY <2>1, <2>2
<1>4. ASSUME NEW t \in Tasks, WriteNewline(t) PROVE NewlineFollowsKey'
  <2>1. pc' = [pc EXCEPT ![t] = "idle"] /\ key' = key
    BY <1>4 DEF WriteNewline, Return
  <2>2. \A u \in Tasks : pc'[u] = "newline" => Written(key[u])'
    BY <1>4, <2>1, WriteNewlineText
  <2> QED
    BY <2>1, <2>2
<1>5. CASE UNCHANGED vars
  BY <1>5 DEF vars, Written
<1> QED
  BY <1>1, <1>2, <1>3, <1>4, <1>5 DEF Next

(* Every step of add_ssh_key_to puts one key into the text, acknowledges   *)
(* one that is there, or leaves both alone.                                *)
LEMMA TextRefines ==
  ASSUME TypeOK, NewlineFollowsKey, [Next]_vars
  PROVE  [Text!Next]_<<WrittenKeys, acked>>
<1> USE DEF Text!Next
<1>1. ASSUME UNCHANGED <<lines, acked>> PROVE UNCHANGED <<WrittenKeys, acked>>
  BY <1>1 DEF WrittenKeys, Written
<1>2. ASSUME NEW t \in Tasks, AlreadyThere(t) PROVE \E k \in Keys : Text!Ack(k)
  <2>1. \A i \in DOMAIN lines : lines[i] \in Line
    BY DEF TypeOK
  <2>2. PICK i \in DOMAIN lines : lines[i] = <<key[t]>>
    BY <1>2 DEF AlreadyThere, HasLine
  <2>3. key[t] \in Keys
    BY <2>1, <2>2, LineFacts
  <2>4. 1 \in DOMAIN lines[i] /\ lines[i][1] = key[t]
    BY <2>2
  <2>5. key[t] \in WrittenKeys
    BY <2>3, <2>4 DEF WrittenKeys, Written
  <2>6. WrittenKeys' = WrittenKeys
    BY <1>2 DEF AlreadyThere, WrittenKeys, Written
  <2> QED
    BY <1>2, <2>3, <2>5, <2>6 DEF AlreadyThere, Text!Ack
<1>3. ASSUME NEW t \in Tasks, WriteKey(t) PROVE \E k \in Keys : Text!Add(k)
  <2>1. WrittenKeys' = WrittenKeys \cup {key[t]} /\ key[t] \in Keys
    BY <1>3, WriteKeyText DEF WrittenKeys
  <2> QED
    BY <1>3, <2>1 DEF WriteKey, Text!Add
<1>4. ASSUME NEW t \in Tasks, WriteNewline(t) PROVE \E k \in Keys : Text!Ack(k)
  <2>1. key[t] \in Keys /\ Written(key[t]) /\ acked' = acked \cup {key[t]}
    BY <1>4 DEF TypeOK, NewlineFollowsKey, WriteNewline
  <2>2. WrittenKeys' = WrittenKeys
    BY <1>4, WriteNewlineText DEF WrittenKeys
  <2> QED
    BY <2>1, <2>2 DEF Text!Ack, WrittenKeys
<1>5. ASSUME NEW t \in Tasks,
             \/ \E k \in Keys \cup {Malformed} : Call(t, k)
             \/ Reject(t) \/ Missing(t) \/ Unread(t) \/ Fail(t)
      PROVE  UNCHANGED <<lines, acked>>
  BY <1>5 DEF Call, Reject, Missing, Unread, Fail
<1> QED
  BY <1>1, <1>2, <1>3, <1>4, <1>5 DEF Next, Crash, vars

(* Whatever calls overlap, whatever write fails and whenever the process   *)
(* dies: a key that was acknowledged is in the text of the file, and the   *)
(* text only grows.                                                        *)
THEOREM TextKeepsEveryKey == Spec => ImplementsTextStore
<1>1. Init => NewlineFollowsKey
  BY DEF Init, NewlineFollowsKey
<1>2. Init => Text!Init
  BY DEF Init, Text!Init, WrittenKeys
<1>3. TypeOK /\ NewlineFollowsKey /\ [Next]_vars => NewlineFollowsKey'
  BY NewlineFollowsKeyNext
<1>4. TypeOK /\ NewlineFollowsKey /\ [Next]_vars => [Text!Next]_<<WrittenKeys, acked>>
  BY TextRefines
<1> QED
  BY <1>1, <1>2, <1>3, <1>4, TypeCorrect, PTL DEF Spec, ImplementsTextStore, Text!Spec

-----------------------------------------------------------------------------
(* How often a key is in the file.                                         *)

(* Once k has a line, only calls that missed it before will still write it. *)
Adders(k) == {t \in Tasks : pc[t] = "key" /\ key[t] = k}
Counted(k) ==
  Listed(k) => Cardinality(LinesOf(k)) + Cardinality(Adders(k)) <= Cardinality(Tasks)
AddersAreCounted == ~misread => \A k \in Keys : Counted(k)

(* The line that a key would be appended to has one already.               *)
OpenLineHasKey == open => lines[Len(lines)] # <<>>

(* The counted sets are finite, and a key without a line counts for none.  *)
LEMMA CountFacts ==
  ASSUME TypeOK, NEW k
  PROVE  /\ IsFiniteSet(LinesOf(k)) /\ IsFiniteSet(Adders(k)) /\ IsFiniteSet(Tasks)
         /\ Cardinality(LinesOf(k)) \in Nat /\ Cardinality(Adders(k)) \in Nat
         /\ Cardinality(Tasks) \in Nat /\ Cardinality(Tasks) >= 1
         /\ Cardinality(Adders(k)) <= Cardinality(Tasks)
         /\ ~Listed(k) => Cardinality(LinesOf(k)) = 0
<1>1. IsFiniteSet(1 .. Len(lines))
  BY FS_Interval DEF TypeOK
<1>2. LinesOf(k) \subseteq 1 .. Len(lines) /\ Adders(k) \subseteq Tasks
  BY DEF LinesOf, Adders, TypeOK
<1>3. IsFiniteSet(LinesOf(k)) /\ IsFiniteSet(Adders(k)) /\ IsFiniteSet(Tasks)
  BY <1>1, <1>2, FS_Subset, AuthorizedKeysAssumption
<1>4. Cardinality(Adders(k)) <= Cardinality(Tasks)
  BY <1>2, FS_Subset, AuthorizedKeysAssumption
<1>5. Cardinality(Tasks) # 0
  BY <1>3, FS_EmptySet, AuthorizedKeysAssumption
<1>6. ~Listed(k) => LinesOf(k) = {}
  BY DEF Listed, LinesOf
<1> QED
  BY <1>3, <1>4, <1>5, <1>6, FS_CardinalityType, FS_EmptySet

(* Fewer lines and fewer writers keep the count.                           *)
LEMMA FewerCounted ==
  ASSUME TypeOK, TypeOK', NEW k, Counted(k),
         LinesOf(k)' \subseteq LinesOf(k), Adders(k)' \subseteq Adders(k)
  PROVE  Counted(k)'
<1>1. Listed(k)' => Listed(k)
  BY DEF Listed, LinesOf
<1>2. /\ Cardinality(LinesOf(k)') <= Cardinality(LinesOf(k))
      /\ Cardinality(Adders(k)') <= Cardinality(Adders(k))
  BY CountFacts, FS_Subset
<1>3. /\ Cardinality(LinesOf(k)') \in Nat /\ Cardinality(Adders(k)') \in Nat
      /\ Cardinality(LinesOf(k)) \in Nat /\ Cardinality(Adders(k)) \in Nat
      /\ Cardinality(Tasks) \in Nat
  BY CountFacts, FS_Subset, FS_CardinalityType
<1> QED
  BY <1>1, <1>2, <1>3 DEF Counted

(* A key that gets a line is a writer less.                                *)
LEMMA WriterCounted ==
  ASSUME TypeOK, ~open, NEW t \in Tasks, WriteKey(t), Counted(key[t])
  PROVE  Counted(key[t])'
<1> DEFINE k == key[t]
           n == Len(lines) + 1
<1>1. lines' = Append(lines, <<k>>) /\ key' = key /\ pc[t] = "key"
      /\ pc' = [pc EXCEPT ![t] = "newline"]
  BY DEF WriteKey
<1>2. LinesOf(k)' = LinesOf(k) \cup {n} /\ n \notin LinesOf(k)
  <2>1. /\ DOMAIN lines = 1 .. Len(lines) /\ DOMAIN lines' = 1 .. n /\ Len(lines) \in Nat
        /\ lines'[n] = <<k>> /\ \A i \in 1 .. Len(lines) : lines'[i] = lines[i]
    BY <1>1 DEF TypeOK
  <2>2. \A i \in 1 .. n : i = n \/ i \in 1 .. Len(lines)
    BY <2>1
  <2> QED
    BY <1>1, <2>1, <2>2 DEF LinesOf
<1>3. Adders(k)' = Adders(k) \ {t} /\ t \in Adders(k)
  BY <1>1 DEF Adders, TypeOK
<1> HIDE DEF k, n
<1>4. Cardinality(LinesOf(k)') = Cardinality(LinesOf(k)) + 1
  BY <1>2, CountFacts, FS_AddElement
<1>5. Cardinality(Adders(k)') = Cardinality(Adders(k)) - 1
  BY <1>3, CountFacts, FS_RemoveElement
<1>6. /\ Cardinality(LinesOf(k)) \in Nat /\ Cardinality(Adders(k)) \in Nat
      /\ Cardinality(Tasks) \in Nat /\ Cardinality(Adders(k)) <= Cardinality(Tasks)
      /\ ~Listed(k) => Cardinality(LinesOf(k)) = 0
  BY CountFacts
<1>7. Cardinality(LinesOf(k)') + Cardinality(Adders(k)') <= Cardinality(Tasks)
  BY <1>4, <1>5, <1>6 DEF Counted, k
<1> QED
  BY <1>1, <1>7 DEF Counted, k

(* Where the first write leaves the lines of a key.                        *)
LEMMA WriteKeyCounts ==
  ASSUME TypeOK, TypeOK', OpenLineHasKey, NEW t \in Tasks, WriteKey(t),
         NEW k \in Keys, Counted(k)
  PROVE  Counted(k)'
<1>1. /\ key[t] \in Keys /\ lines \in Seq(Line) /\ key' = key /\ pc[t] = "key"
      /\ pc' = [pc EXCEPT ![t] = "newline"]
  BY DEF TypeOK, WriteKey
<1>2. Adders(k)' \subseteq Adders(k)
  BY <1>1 DEF Adders, TypeOK
<1>3. CASE open
  <2> DEFINE n == Len(lines)
  <2>1. /\ lines' = [lines EXCEPT ![n] = Append(@, key[t])]
        /\ n \in DOMAIN lines /\ lines[n] # <<>> /\ lines[n] \in Seq(Keys)
    BY <1>1, <1>3 DEF WriteKey, TypeOK, OpenLineHasKey, Line
  <2>2. Append(lines[n], key[t]) # <<k>>
    <3>1. \A l \in Seq(Keys), x \in Keys : l # <<>> => Append(l, x) # <<k>>
      <4> SUFFICES ASSUME NEW l \in Seq(Keys), NEW x \in Keys, l # <<>>, Append(l, x) = <<k>>
                   PROVE  FALSE
        OBVIOUS
      <4>1. Len(l) \in Nat /\ Len(Append(l, x)) = Len(l) + 1
        OBVIOUS
      <4>2. Len(<<k>>) = 1
        OBVIOUS
      <4>3. Len(l) = 0
        BY <4>1, <4>2
      <4> QED
        BY <4>3
    <3> QED
      BY <2>1, <1>1, <3>1
  <2>3. LinesOf(k)' \subseteq LinesOf(k)
    BY <2>1, <2>2 DEF LinesOf
  <2> QED
    BY <1>2, <2>3, FewerCounted
<1>4. CASE ~open /\ k = key[t]
  BY <1>1, <1>4, WriterCounted
<1>5. CASE ~open /\ k # key[t]
  <2>1. lines' = Append(lines, <<key[t]>>) /\ <<key[t]>> # <<k>>
    BY <1>5 DEF WriteKey
  <2>2. LinesOf(k)' \subseteq LinesOf(k)
    BY <1>1, <2>1 DEF LinesOf
  <2> QED
    BY <1>2, <2>2, FewerCounted
<1> QED
  BY <1>3, <1>4, <1>5

(* Every step keeps the count: a call that misses a key finds no line of   *)
(* it, a call that writes it is a writer less.                             *)
LEMMA CountedNext ==
  ASSUME TypeOK, OpenLineHasKey, AddersAreCounted, [Next]_vars
  PROVE  OpenLineHasKey' /\ AddersAreCounted'
<1>0. TypeOK'
  BY TypeNext
<1>1. CASE UNCHANGED <<lines, open, misread>> /\ \A k : Adders(k)' \subseteq Adders(k)
  <2>1. \A k : LinesOf(k)' \subseteq LinesOf(k)
    BY <1>1 DEF LinesOf
  <2> QED
    BY <1>0, <1>1, <2>1, FewerCounted DEF AddersAreCounted, OpenLineHasKey
<1>2. ASSUME NEW t \in Tasks,
             \/ \E k \in Keys \cup {Malformed} : Call(t, k)
             \/ Reject(t) \/ AlreadyThere(t) \/ Fail(t)
      PROVE  UNCHANGED <<lines, open, misread>> /\ \A k : Adders(k)' \subseteq Adders(k)
  <2>1. /\ UNCHANGED <<lines, open, misread>> /\ pc'[t] # "key"
        /\ \A u \in Tasks \ {t} : pc'[u] = pc[u] /\ key'[u] = key[u]
    BY <1>2 DEF TypeOK, Call, Reject, AlreadyThere, Fail, Return
  <2> QED
    BY <2>1 DEF Adders
<1>3. ASSUME Crash
      PROVE  UNCHANGED <<lines, open, misread>> /\ \A k : Adders(k)' \subseteq Adders(k)
  BY <1>3 DEF Crash, Adders
<1>4. ASSUME UNCHANGED vars
      PROVE  UNCHANGED <<lines, open, misread>> /\ \A k : Adders(k)' \subseteq Adders(k)
  BY <1>4 DEF vars, Adders
<1>5. ASSUME NEW t \in Tasks, Missing(t) PROVE OpenLineHasKey' /\ AddersAreCounted'
  <2>1. /\ UNCHANGED <<lines, open, key, misread>> /\ ~Listed(key[t])
        /\ pc' = [pc EXCEPT ![t] = "key"]
    BY <1>5 DEF Missing, HasLine, Listed
  <2>2. ASSUME NEW k \in Keys, Counted(k) PROVE Counted(k)'
    <3>1. CASE k = key[t]
      BY <2>1, <3>1 DEF Counted, Listed
    <3>2. CASE k # key[t]
      <4>1. Adders(k)' \subseteq Adders(k) /\ LinesOf(k)' \subseteq LinesOf(k)
        BY <2>1, <3>2 DEF Adders, LinesOf, TypeOK
      <4> QED
        BY <1>0, <2>2, <4>1, FewerCounted
    <3> QED
      BY <3>1, <3>2
  <2> QED
    BY <2>1, <2>2 DEF AddersAreCounted, OpenLineHasKey
<1>6. ASSUME NEW t \in Tasks, Unread(t) PROVE OpenLineHasKey' /\ AddersAreCounted'
  BY <1>6 DEF Unread, AddersAreCounted, OpenLineHasKey
<1>7. ASSUME NEW t \in Tasks, WriteKey(t) PROVE OpenLineHasKey' /\ AddersAreCounted'
  <2>1. AddersAreCounted'
    BY <1>0, <1>7, WriteKeyCounts DEF AddersAreCounted, WriteKey
  <2>2. lines'[Len(lines')] # <<>>
    <3>1. key[t] \in Keys /\ lines \in Seq(Line) /\ (open => lines # <<>>)
      BY <1>7 DEF TypeOK, WriteKey
    <3>2. CASE open
      <4>1. /\ lines' = [lines EXCEPT ![Len(lines)] = Append(@, key[t])]
            /\ Len(lines) \in DOMAIN lines /\ lines[Len(lines)] \in Seq(Keys)
        BY <1>7, <3>1, <3>2 DEF WriteKey, Line
      <4>2. Len(lines') = Len(lines)
        BY <3>1, <4>1
      <4> QED
        BY <3>1, <4>1, <4>2
    <3>3. CASE ~open
      <4>1. lines' = Append(lines, <<key[t]>>)
        BY <1>7, <3>3 DEF WriteKey
      <4> QED
        BY <3>1, <4>1
    <3> QED
      BY <3>2, <3>3
  <2> QED
    BY <2>1, <2>2 DEF OpenLineHasKey
<1>8. ASSUME NEW t \in Tasks, WriteNewline(t) PROVE OpenLineHasKey' /\ AddersAreCounted'
  <2>1. /\ ~open' /\ key' = key /\ misread' = misread /\ pc' = [pc EXCEPT ![t] = "idle"]
        /\ lines' = lines \/ lines' = Append(lines, <<>>)
    BY <1>8 DEF WriteNewline, Return
  <2>2. \A k : LinesOf(k)' \subseteq LinesOf(k)
    <3>1. lines \in Seq(Line) /\ \A k : <<>> # <<k>>
      BY DEF TypeOK
    <3>2. CASE lines' = lines
      BY <3>2 DEF LinesOf
    <3>3. CASE lines' = Append(lines, <<>>)
      <4>1. /\ DOMAIN lines = 1 .. Len(lines) /\ DOMAIN lines' = 1 .. (Len(lines) + 1)
            /\ Len(lines) \in Nat /\ lines'[Len(lines) + 1] = <<>>
            /\ \A i \in 1 .. Len(lines) : lines'[i] = lines[i]
        BY <3>1, <3>3
      <4>2. \A i \in 1 .. (Len(lines) + 1) : i = Len(lines) + 1 \/ i \in 1 .. Len(lines)
        BY <4>1
      <4> QED
        BY <3>1, <4>1, <4>2 DEF LinesOf
    <3> QED
      BY <2>1, <3>2, <3>3
  <2>3. \A k : Adders(k)' \subseteq Adders(k)
    BY <2>1 DEF Adders, TypeOK
  <2> QED
    BY <1>0, <2>1, <2>2, <2>3, FewerCounted DEF AddersAreCounted, OpenLineHasKey
<1> QED
  BY <1>1, <1>2, <1>3, <1>4, <1>5, <1>6, <1>7, <1>8 DEF Next

(* A key has at most as many lines of its own as calls can run at once,    *)
(* whatever they do to each other and whatever write fails; one, when they *)
(* do not overlap (authorized_keys.rs, "idempotent on a dup line").        *)
THEOREM DuplicatesStayBounded == Spec => []DuplicatesAreBounded
<1>1. Init => OpenLineHasKey /\ AddersAreCounted
  <2> SUFFICES ASSUME Init, NEW k \in Keys PROVE Counted(k)
    BY DEF Init, OpenLineHasKey, AddersAreCounted
  <2>1. TypeOK
    BY TypeInit
  <2>2. LinesOf(k) \subseteq {1} /\ Adders(k) = {}
    BY DEF Init, LinesOf, Adders
  <2>3. Cardinality({1}) = 1 /\ IsFiniteSet({1})
    BY FS_Singleton
  <2>4. Cardinality(LinesOf(k)) <= 1
    BY <2>2, <2>3, FS_Subset
  <2>5. Cardinality(Adders(k)) = 0
    BY <2>2, FS_EmptySet
  <2> QED
    BY <2>1, <2>4, <2>5, CountFacts DEF Counted
<1>2. TypeOK /\ AddersAreCounted => DuplicatesAreBounded
  <2> SUFFICES ASSUME TypeOK, NEW k \in Keys, Counted(k)
               PROVE  Cardinality(LinesOf(k)) <= Cardinality(Tasks)
    BY DEF AddersAreCounted, DuplicatesAreBounded
  <2> QED
    BY CountFacts DEF Counted
<1>3. TypeOK /\ OpenLineHasKey /\ AddersAreCounted /\ [Next]_vars
        => OpenLineHasKey' /\ AddersAreCounted'
  BY CountedNext
<1> QED
  BY <1>1, <1>2, <1>3, TypeCorrect, PTL DEF Spec

=============================================================================
