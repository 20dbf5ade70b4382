--------------------------- MODULE TokenEqProofs ---------------------------
(***************************************************************************)
(* constant_time_eq decides equality of any two tokens shorter than the    *)
(* range of a u8, and of any two without a NUL byte, whatever that range.  *)
(***************************************************************************)
EXTENDS TokenEq, TLAPS

(* The arguments TLC enumerates are byte strings.                          *)
LEMMA StringsAreBytes == Strings \subseteq Seq(Byte)
  BY TokenEqAssumption DEF Strings

(* Longer is a number, and the longer input's length.                      *)
LEMMA LongerFacts ==
  ASSUME NEW x \in Seq(Byte), NEW y \in Seq(Byte)
  PROVE  /\ Longer(x, y) \in Nat
         /\ Len(x) <= Longer(x, y) /\ Len(y) <= Longer(x, y)
         /\ Longer(x, y) \in {Len(x), Len(y)}
  BY DEF Longer

(* Before the first byte is compared diff knows of the lengths only.       *)
LEMMA InvInit == InitE => FoldInv
<1> SUFFICES ASSUME InitE PROVE FoldInv
  OBVIOUS
<1>1. a \in Seq(Byte) /\ b \in Seq(Byte)
  BY StringsAreBytes DEF InitE
<1>2. i = 0 /\ diff \in BOOLEAN
  BY DEF InitE, LengthsDiffer
<1>3. Longer(a, b) \in Nat
  BY <1>1, LongerFacts
<1>4. Collected
  BY DEF InitE, Collected
<1> QED
  BY <1>1, <1>2, <1>3, <1>4 DEF FoldInv, FoldTypeOK

(* One more byte is compared: diff keeps what it had, and the loop does    *)
(* not leave the longer input.                                             *)
LEMMA InvFold ==
  ASSUME FoldInv, Fold
  PROVE  FoldInv'
<1> USE DEF FoldInv
<1>1. /\ a' = a /\ b' = b /\ i \in Nat /\ i' = i + 1
      /\ Longer(a, b)' = Longer(a, b) /\ Longer(a, b) \in Nat
  BY LongerFacts DEF FoldTypeOK, Fold, Longer
<1>2. FoldTypeOK'
  <2>1. diff' \in BOOLEAN
    BY DEF Fold
  <2> QED
    BY <1>1, <2>1 DEF FoldTypeOK, Fold
<1>3. Collected'
  <2>1. 1 .. i' = (1 .. i) \cup {i + 1}
    BY <1>1
  <2> QED
    BY <1>1, <2>1 DEF Collected, Fold
<1> QED
  BY <1>2, <1>3

(* diff has collected the length difference and the bytes seen so far, and *)
(* the compare is well typed, its loop inside the longer input.            *)
THEOREM Invariant == SpecE => []FoldInv
<1>1. FoldInv /\ [NextE]_varsE => FoldInv'
  <2> SUFFICES ASSUME FoldInv, UNCHANGED varsE PROVE FoldInv'
    BY InvFold DEF NextE
  <2> QED
    BY DEF FoldInv, FoldTypeOK, Collected, varsE, Longer
<1> QED
  BY <1>1, InvInit, PTL DEF SpecE

(* What the finished loop says of the two inputs, when a differing length  *)
(* cannot hide: it does not vanish in the low byte, or the byte that only  *)
(* the longer input has is not 0.                                          *)
LEMMA SameEverywhere ==
  ASSUME FoldTypeOK, Done, Collected, Short \/ NoZeroByte, ~diff
  PROVE  a = b
<1>1. /\ a \in Seq(Byte) /\ b \in Seq(Byte)
      /\ Len(a) \in Nat /\ Len(b) \in Nat
      /\ Longer(a, b) \in Nat
      /\ Len(a) <= Longer(a, b) /\ Len(b) <= Longer(a, b)
  BY LongerFacts DEF FoldTypeOK
<1>2. /\ Len(a) % Width = Len(b) % Width
      /\ \A k \in 1 .. Longer(a, b) : ByteAt(a, k) = ByteAt(b, k)
  BY DEF Collected, Done, LengthsDiffer
<1>3. Len(a) = Len(b)
  <2>1. CASE Short
    <3>1. Len(a) % Width = Len(a) /\ Len(b) % Width = Len(b)
      BY <1>1, <2>1, TokenEqAssumption DEF Short
    <3> QED  BY <3>1, <1>2
  <2>2. CASE NoZeroByte
    <3>1. ASSUME Len(a) < Len(b) PROVE FALSE
      <4>1. Len(b) \in 1 .. Longer(a, b) /\ Len(b) \in DOMAIN b /\ Len(b) \notin DOMAIN a
        BY <1>1, <3>1
      <4> QED  BY <4>1, <1>2, <2>2 DEF ByteAt, NoZeroByte
    <3>2. ASSUME Len(b) < Len(a) PROVE FALSE
      <4>1. Len(a) \in 1 .. Longer(a, b) /\ Len(a) \in DOMAIN a /\ Len(a) \notin DOMAIN b
        BY <1>1, <3>2
      <4> QED  BY <4>1, <1>2, <2>2 DEF ByteAt, NoZeroByte
    <3> QED  BY <3>1, <3>2, <1>1
  <2> QED  BY <2>1, <2>2
<1>4. \A k \in 1 .. Len(a) : a[k] = b[k]
  BY <1>1, <1>2, <1>3 DEF ByteAt
<1> QED  BY <1>1, <1>3, <1>4

(* Equal inputs leave no difference to collect.                            *)
LEMMA EqualAccepted ==
  ASSUME Collected, a = b
  PROVE  ~diff
  BY DEF Collected, LengthsDiffer

(* The answer of constant_time_eq is equality: for tokens shorter than     *)
(* Width bytes, and for tokens of any length with no NUL byte.             *)
THEOREM CompareIsEquality == SpecE => []DecidesEquality
<1>1. FoldTypeOK /\ Collected => DecidesEquality
  <2> SUFFICES ASSUME FoldTypeOK, Collected, Done, Short \/ NoZeroByte
               PROVE  diff <=> a # b
    BY DEF DecidesEquality
  <2>1. ~diff => a = b
    BY SameEverywhere
  <2>2. a = b => ~diff
    BY EqualAccepted
  <2> QED  BY <2>1, <2>2 DEF FoldTypeOK
<1>2. FoldInv => FoldTypeOK /\ Collected
  BY DEF FoldInv
<1> QED  BY <1>1, <1>2, Invariant, PTL
=============================================================================
