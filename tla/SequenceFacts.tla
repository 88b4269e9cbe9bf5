---------------------------- MODULE SequenceFacts ----------------------------
(***************************************************************************)
(* What the proofs need to know about indices: the searches of the vectors *)
(* and lists return the least or the greatest one of a set, and a deletion *)
(* moves the elements behind it up.                                        *)
(***************************************************************************)
EXTENDS Integers, Sequences, TLAPS, WellFoundedInduction

\* A nonempty set of indices has a least one.
LEMMA LeastElement ==
  ASSUME NEW I \in SUBSET Nat, I # {}
  PROVE  \E x \in I : \A y \in I : x <= y
<1> DEFINE R == {ss \in Nat \X Nat : ss[1] < ss[2]}
<1>1. IsWellFoundedOn(R, Nat)
  BY NatLessThanWellFounded DEF OpToRel
<1>2. PICK x \in I : \A y \in I : ~ (<<y, x>> \in R)
  <2> HIDE DEF R
  <2> QED BY <1>1, WFMin
<1>3. ASSUME NEW y \in I PROVE x <= y
  <2>1. y \in Nat /\ x \in Nat OBVIOUS
  <2>2. ~(<<y, x>> \in R) BY <1>2
  <2>3. QED BY <2>1, <2>2, SMT
<1>4. QED BY <1>3

\* A nonempty set of indices of a sequence has a greatest one.
LEMMA GreatestElement ==
  ASSUME NEW n \in Nat, NEW I \in SUBSET (1 .. n), I # {}
  PROVE  \E x \in I : \A y \in I : x >= y
<1> DEFINE J == {n - i : i \in I}
<1>1. J \in SUBSET Nat /\ J # {}
  <2>1. J # {} OBVIOUS
  <2>2. ASSUME NEW i \in I PROVE n - i \in Nat
    <3>1. i \in 1 .. n OBVIOUS
    <3>2. QED BY <3>1
  <2>3. QED BY <2>1, <2>2
<1> HIDE DEF J
<1>2. PICK j \in J : \A k \in J : j <= k BY <1>1, LeastElement
<1>3. PICK x \in I : j = n - x BY <1>2 DEF J
<1>4. ASSUME NEW y \in I PROVE x >= y
  <2>1. n - y \in J BY DEF J
  <2>2. n - x <= n - y /\ x \in Nat /\ y \in Nat BY <1>2, <1>3, <2>1
  <2>3. QED BY <2>2
<1>5. QED BY <1>4

\* A sequence without its i-th element.
LEMMA WithoutElement ==
  ASSUME NEW S, NEW s \in Seq(S), NEW i \in 1 .. Len(s)
  PROVE  LET r == SubSeq(s, 1, i - 1) \o SubSeq(s, i + 1, Len(s))
         IN  /\ r \in Seq(S)
             /\ Len(r) = Len(s) - 1
             /\ \A j \in 1 .. Len(r) : r[j] = IF j < i THEN s[j] ELSE s[j + 1]
<1> DEFINE A == SubSeq(s, 1, i - 1)
<1> DEFINE B == SubSeq(s, i + 1, Len(s))
<1> DEFINE r == A \o B
<1>1. A \in Seq(S) /\ Len(A) = i - 1 /\ \A j \in 1 .. i - 1 : A[j] = s[j]
  OBVIOUS
<1>2. /\ B \in Seq(S) /\ Len(B) = Len(s) - i
      /\ \A j \in 1 .. Len(s) - i : B[j] = s[i + j]
  OBVIOUS
<1> HIDE DEF A, B
<1>3. r \in Seq(S) /\ Len(r) = Len(s) - 1
  <2>1. A \in Seq(S) /\ B \in Seq(S) BY <1>1, <1>2
  <2>2. r \in Seq(S) BY <2>1
  <2>3. Len(r) = Len(A) + Len(B) BY <2>1
  <2>4. Len(s) \in Nat OBVIOUS
  <2>5. QED BY <1>1, <1>2, <2>2, <2>3, <2>4
<1>4. ASSUME NEW j \in 1 .. Len(r)
      PROVE  r[j] = IF j < i THEN s[j] ELSE s[j + 1]
  <2>1. CASE j < i
    <3>1. j \in 1 .. Len(A) BY <2>1, <1>1
    <3>2. r[j] = A[j] BY <3>1, <1>1, <1>2, SMTT(30)
    <3>3. QED BY <3>2, <2>1, <1>1
  <2>2. CASE j >= i
    <3> DEFINE k == j - (i - 1)
    <3>1. k \in 1 .. Len(s) - i /\ j = Len(A) + k /\ i + k = j + 1
      BY <2>2, <1>1, <1>3
    <3> HIDE DEF k
    <3>2. r[j] = B[k] BY <3>1, <1>1, <1>2, SMTT(30)
    <3>3. r[j] = s[i + k] BY <3>1, <3>2, <1>2
    <3>4. QED BY <3>1, <3>3, <2>2, <1>3
  <2>3. QED BY <2>1, <2>2, <1>3
<1> HIDE DEF r
<1>5. QED BY <1>3, <1>4 DEF r, A, B

=============================================================================
