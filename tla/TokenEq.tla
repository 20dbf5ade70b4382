------------------------------ MODULE TokenEq ------------------------------
(***************************************************************************)
(* constant_time_eq (creds.rs): the compare behind the add-key bearer      *)
(* check.  The loop runs to the longer length whatever the bytes are, and  *)
(* reads 0 past the end of the shorter one; the lengths are folded in      *)
(* through their difference as a u8.                                       *)
(*                                                                         *)
(* `diff` is only OR-ed into and compared with 0, so the model keeps       *)
(* whether a bit of it is set.                                             *)
(***************************************************************************)
EXTENDS Naturals, Sequences

CONSTANTS
  Width,    (* how many values a u8 has: 256                               *)
  MaxLen    (* bound: the longest input TLC enumerates                     *)

ASSUME TokenEqAssumption == Width \in Nat \ {0} /\ MaxLen \in Nat

Byte   == 0 .. Width - 1
Strings == UNION {[1 .. n -> Byte] : n \in 0 .. MaxLen}

VARIABLES a, b,   (* the arguments                                         *)
          i,      (* the bytes compared so far                             *)
          diff    (* diff # 0                                              *)

varsE == <<a, b, i, diff>>

(* (a.len() ^ b.len()) as u8: only the low byte of the lengths counts.     *)
MutantLengths(x, y) == FALSE
LengthsDiffer(x, y) == Len(x) % Width # Len(y) % Width

Longer(x, y) == IF Len(x) < Len(y) THEN Len(y) ELSE Len(x)

(* s.get(k).copied().unwrap_or(0) *)
ByteAt(s, k) == IF k \in DOMAIN s THEN s[k] ELSE 0

InitE ==
  /\ a \in Strings /\ b \in Strings
  /\ i = 0
  /\ diff = LengthsDiffer(a, b)

MutantLastByte ==
  /\ i < Longer(a, b)
  /\ i' = i + 1
  /\ diff' = (ByteAt(a, i + 1) # ByteAt(b, i + 1))
  /\ UNCHANGED <<a, b>>
MutantEarlyExit ==
  /\ i < Longer(a, b) /\ ~diff
  /\ i' = i + 1
  /\ diff' = (diff \/ ByteAt(a, i + 1) # ByteAt(b, i + 1))
  /\ UNCHANGED <<a, b>>
Fold ==
  /\ i < Longer(a, b)
  /\ i' = i + 1
  /\ diff' = (diff \/ ByteAt(a, i + 1) # ByteAt(b, i + 1))
  /\ UNCHANGED <<a, b>>

NextE == Fold

SpecE == InitE /\ [][NextE]_varsE /\ WF_varsE(Fold)

-----------------------------------------------------------------------------
Done == i = Longer(a, b)

(* The arguments are byte strings, and the loop stays inside the longer.   *)
FoldTypeOK ==
  /\ a \in Seq(Byte) /\ b \in Seq(Byte)
  /\ i \in 0 .. Longer(a, b)
  /\ diff \in BOOLEAN

Short      == Len(a) < Width /\ Len(b) < Width
NoZeroByte == \A s \in {a, b} : \A k \in DOMAIN s : s[k] # 0

(* The answer is equality, for tokens shorter than 256 bytes and for       *)
(* tokens of any length without a NUL byte (constant_time_eq, creds.rs).   *)
DecidesEquality == Done /\ (Short \/ NoZeroByte) => (diff <=> a # b)

(* "no early exit on the first mismatch" (creds.rs): the compare always    *)
(* reaches the end of the longer input, wherever the bytes differ.         *)
RunsToTheEnd == <>[]Done

-----------------------------------------------------------------------------
(* What diff has collected when i bytes are compared: a difference of the  *)
(* lengths, or of any byte before.                                         *)
Collected ==
  diff <=> \/ LengthsDiffer(a, b)
           \/ \E k \in 1 .. i : ByteAt(a, k) # ByteAt(b, k)

(* The inductive invariant of the proofs: the loop stays inside the longer *)
(* input, and diff forgets nothing (constant_time_eq, creds.rs).           *)
FoldInv == FoldTypeOK /\ Collected
=============================================================================
