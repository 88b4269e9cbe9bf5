-------------------------- MODULE LayerManager_proofs --------------------------
(***************************************************************************)
(* Proofs about LayerManager: for every well-formed text the links are     *)
(* those that the text says, and the stack stays inside of mp_Stack.       *)
(*                                                                         *)
(* The stack of LinkLayer is the path of the parentheses that are open at  *)
(* the last word read, and each link is one word of the text: the words    *)
(* read so far account for all of them.                                    *)
(***************************************************************************)
EXTENDS LayerManager, FiniteSetTheorems, SequenceFacts, TLAPS

-----------------------------------------------------------------------------
(* Maxima, minima and counts. *)

LEMMA MaxIs ==
  ASSUME NEW S \in SUBSET Int, NEW m \in S, \A x \in S : m >= x
  PROVE  Max(S) = m
<1>1. PICK x : x = Max(S) OBVIOUS
<1>2. x \in S /\ \A y \in S : x >= y BY <1>1 DEF Max
<1>3. x >= m /\ m >= x /\ x \in Int /\ m \in Int BY <1>2
<1>4. x = m BY ONLY <1>3
<1>5. QED BY <1>1, <1>4

LEMMA MinOfOne ==
  ASSUME NEW m \in Int
  PROVE  Min({m}) = m
<1>1. PICK x : x = Min({m}) OBVIOUS
<1>2. x \in {m} BY <1>1 DEF Min
<1>3. QED BY <1>1, <1>2

\* A sequence without its last element.
LEMMA FrontOf ==
  ASSUME NEW S, NEW s \in Seq(S), Len(s) > 0
  PROVE  /\ Front(s) \in Seq(S) /\ Len(Front(s)) = Len(s) - 1
         /\ \A k \in 1 .. Len(s) - 1 : Front(s)[k] = s[k]
<1>1. PICK i \in 1 .. Len(s) : i = Len(s) OBVIOUS
<1>2. /\ SubSeq(s, 1, i - 1) \in Seq(S)
      /\ Len(SubSeq(s, 1, i - 1)) = i - 1
      /\ \A k \in 1 .. i - 1 : SubSeq(s, 1, i - 1)[k] = s[k]
  OBVIOUS
<1>3. Front(s) = SubSeq(s, 1, i - 1) BY <1>1 DEF Front
<1>4. QED BY ONLY <1>1, <1>2, <1>3

\* How many parentheses are open behind word j that were not before word i.
Depth(t, i, j) == Opens(t, i, j) - Closes(t, i, j)

Turn(w) == IF w.mode = "(" THEN 1 ELSE IF w.mode = ")" THEN -1 ELSE 0

LEMMA OpensStep ==
  ASSUME NEW t, NEW i \in Nat, NEW j \in Nat, i <= j + 1
  PROVE  /\ Opens(t, i, j) \in Nat
         /\ i = j + 1 => Opens(t, i, j) = 0
         /\ Opens(t, i, j + 1) = Opens(t, i, j) + IF t[j + 1].mode = "(" THEN 1 ELSE 0
<1> DEFINE S == {k \in i .. j : t[k].mode = "("}
<1> DEFINE R == {k \in i .. j + 1 : t[k].mode = "("}
<1>1. IsFiniteSet(S) /\ Cardinality(S) \in Nat
  <2>1. IsFiniteSet(i .. j) BY FS_Interval
  <2>2. S \in SUBSET (i .. j) OBVIOUS
  <2>3. IsFiniteSet(S) BY <2>1, <2>2, FS_Subset
  <2>4. QED BY <2>3, FS_CardinalityType
<1>2. i = j + 1 => S = {} OBVIOUS
<1>3. j + 1 \notin S OBVIOUS
<1>4. R = IF t[j + 1].mode = "(" THEN S \cup {j + 1} ELSE S OBVIOUS
<1>5. Opens(t, i, j) = Cardinality(S) /\ Opens(t, i, j + 1) = Cardinality(R) BY DEF Opens
<1> HIDE DEF S, R
<1>6. Cardinality(S \cup {j + 1}) = Cardinality(S) + 1 BY <1>1, <1>3, FS_AddElement
<1>7. QED BY <1>1, <1>2, <1>4, <1>5, <1>6, FS_EmptySet

LEMMA ClosesStep ==
  ASSUME NEW t, NEW i \in Nat, NEW j \in Nat, i <= j + 1
  PROVE  /\ Closes(t, i, j) \in Nat
         /\ i = j + 1 => Closes(t, i, j) = 0
         /\ Closes(t, i, j + 1) = Closes(t, i, j) + IF t[j + 1].mode = ")" THEN 1 ELSE 0
<1> DEFINE S == {k \in i .. j : t[k].mode = ")"}
<1> DEFINE R == {k \in i .. j + 1 : t[k].mode = ")"}
<1>1. IsFiniteSet(S) /\ Cardinality(S) \in Nat
  <2>1. IsFiniteSet(i .. j) BY FS_Interval
  <2>2. S \in SUBSET (i .. j) OBVIOUS
  <2>3. IsFiniteSet(S) BY <2>1, <2>2, FS_Subset
  <2>4. QED BY <2>3, FS_CardinalityType
<1>2. i = j + 1 => S = {} OBVIOUS
<1>3. j + 1 \notin S OBVIOUS
<1>4. R = IF t[j + 1].mode = ")" THEN S \cup {j + 1} ELSE S OBVIOUS
<1>5. Closes(t, i, j) = Cardinality(S) /\ Closes(t, i, j + 1) = Cardinality(R) BY DEF Closes
<1> HIDE DEF S, R
<1>6. Cardinality(S \cup {j + 1}) = Cardinality(S) + 1 BY <1>1, <1>3, FS_AddElement
<1>7. QED BY <1>1, <1>2, <1>4, <1>5, <1>6, FS_EmptySet

\* A word changes the depth by its own turn.
LEMMA DepthStep ==
  ASSUME NEW t, NEW i \in Nat, NEW j \in Nat, i <= j + 1
  PROVE  /\ Depth(t, i, j) \in Int
         /\ Opens(t, i, j) > Closes(t, i, j) <=> Depth(t, i, j) > 0
         /\ i = j + 1 => Depth(t, i, j) = 0
         /\ Depth(t, i, j + 1) = Depth(t, i, j) + Turn(t[j + 1])
<1>1. /\ Opens(t, i, j) \in Nat
      /\ i = j + 1 => Opens(t, i, j) = 0
      /\ Opens(t, i, j + 1) = Opens(t, i, j) + IF t[j + 1].mode = "(" THEN 1 ELSE 0
  BY OpensStep
<1>2. /\ Closes(t, i, j) \in Nat
      /\ i = j + 1 => Closes(t, i, j) = 0
      /\ Closes(t, i, j + 1) = Closes(t, i, j) + IF t[j + 1].mode = ")" THEN 1 ELSE 0
  BY ClosesStep
<1>3. "(" # ")" OBVIOUS
<1>4. QED BY ONLY <1>1, <1>2, <1>3 DEF Depth, Turn

-----------------------------------------------------------------------------
(* The path of open parentheses. *)

\* The parentheses open behind word p.
OpenAt(t, p) == {j \in 2 .. p : t[j].mode = "(" /\ \A k \in j .. p : Depth(t, j, k) > 0}

\* They are path, the outermost first, each one deeper than the one before.
PathTo(t, p, path) ==
  /\ path \in Seq(2 .. p)
  /\ \A j : j \in OpenAt(t, p) <=> \E k \in 1 .. Len(path) : path[k] = j
  /\ \A k \in 1 .. Len(path) : Depth(t, path[k], p) = Len(path) - k + 1
  /\ \A k, m \in 1 .. Len(path) : k < m => path[k] < path[m]
  /\ Depth(t, 1, p) = Len(path)

LEMMA OpenStep ==
  ASSUME NEW t, NEW p \in Nat \ {0}, NEW j
  PROVE  j \in OpenAt(t, p + 1) <=>
           \/ j \in OpenAt(t, p) /\ Depth(t, j, p + 1) > 0
           \/ j = p + 1 /\ t[j].mode = "("
<1>1. ASSUME j \in OpenAt(t, p + 1), j # p + 1
      PROVE  j \in OpenAt(t, p) /\ Depth(t, j, p + 1) > 0
  BY <1>1 DEF OpenAt
<1>2. ASSUME j \in OpenAt(t, p + 1) PROVE t[j].mode = "("
  BY <1>2 DEF OpenAt
<1>3. ASSUME j \in OpenAt(t, p), Depth(t, j, p + 1) > 0
      PROVE  j \in OpenAt(t, p + 1)
  <2>1. j \in 2 .. p + 1 /\ t[j].mode = "(" BY <1>3 DEF OpenAt
  <2>2. ASSUME NEW k \in j .. p + 1 PROVE Depth(t, j, k) > 0
    <3>1. k = p + 1 \/ k \in j .. p BY <2>1
    <3>2. QED BY <3>1, <1>3 DEF OpenAt
  <2>3. QED BY <2>1, <2>2 DEF OpenAt
<1>4. ASSUME j = p + 1, t[j].mode = "("
      PROVE  j \in OpenAt(t, p + 1)
  <2>1. Depth(t, j, j) = 1
    <3>1. /\ Depth(t, p + 1, p) = 0
          /\ Depth(t, p + 1, p + 1) = Depth(t, p + 1, p) + Turn(t[p + 1])
      BY DepthStep
    <3>2. Turn(t[p + 1]) = 1 BY <1>4 DEF Turn
    <3>3. QED BY <3>1, <3>2, <1>4
  <2>2. \A k \in j .. p + 1 : k = j BY <1>4
  <2>3. j \in 2 .. p + 1 BY <1>4
  <2>4. QED BY <2>1, <2>2, <2>3, <1>4 DEF OpenAt
<1>5. QED BY <1>1, <1>2, <1>3, <1>4

\* How the depth behind an open parenthesis changes.
LEMMA PathDepth ==
  ASSUME NEW t, NEW p \in Nat \ {0}, NEW path, PathTo(t, p, path)
  PROVE  /\ \A k \in 1 .. Len(path) :
              Depth(t, path[k], p + 1) = Len(path) - k + 1 + Turn(t[p + 1])
         /\ Depth(t, 1, p + 1) = Len(path) + Turn(t[p + 1])
<1>1. ASSUME NEW k \in 1 .. Len(path)
      PROVE  Depth(t, path[k], p + 1) = Len(path) - k + 1 + Turn(t[p + 1])
  <2>1. path[k] \in 2 .. p BY DEF PathTo
  <2>2. path[k] \in Nat /\ path[k] <= p + 1 BY <2>1
  <2>3. Depth(t, path[k], p + 1) = Depth(t, path[k], p) + Turn(t[p + 1]) BY <2>2, DepthStep
  <2>4. QED BY <2>3 DEF PathTo
<1>2. Depth(t, 1, p + 1) = Depth(t, 1, p) + Turn(t[p + 1])
  BY DepthStep
<1>3. QED BY <1>1, <1>2 DEF PathTo

\* The first word opens nothing, nor does a named word later.
LEMMA PathFirst ==
  ASSUME NEW t, Named(t[1])
  PROVE  PathTo(t, 1, << >>)
<1>1. Depth(t, 1, 0) = 0 /\ Depth(t, 1, 0 + 1) = Depth(t, 1, 0) + Turn(t[0 + 1])
  BY DepthStep
<1>2. Turn(t[1]) = 0 BY DEF Turn, Named
<1>3. Depth(t, 1, 1) = 0 BY <1>1, <1>2
<1>4. \A j : j \notin OpenAt(t, 1) BY DEF OpenAt
<1>5. << >> \in Seq(2 .. 1) /\ Len(<< >>) = 0 OBVIOUS
<1>6. QED BY <1>3, <1>4, <1>5 DEF PathTo

LEMMA PathNamed ==
  ASSUME NEW t, NEW p \in Nat \ {0}, NEW path, PathTo(t, p, path), Named(t[p + 1])
  PROVE  PathTo(t, p + 1, path)
<1>1. Turn(t[p + 1]) = 0 /\ t[p + 1].mode # "(" BY DEF Turn, Named
<1>2. Len(path) \in Nat /\ path \in Seq(2 .. p + 1)
  <2>1. path \in Seq(2 .. p) BY DEF PathTo
  <2>2. 2 .. p \subseteq 2 .. p + 1 OBVIOUS
  <2>3. QED BY <2>1, <2>2
<1>3. \A k \in 1 .. Len(path) : Depth(t, path[k], p + 1) = Len(path) - k + 1
  <2>1. \A k \in 1 .. Len(path) : Depth(t, path[k], p + 1) = Len(path) - k + 1 + 0
    BY <1>1, PathDepth
  <2>2. QED BY ONLY <2>1, <1>2
<1>4. Depth(t, 1, p + 1) = Len(path)
  <2>1. Depth(t, 1, p + 1) = Len(path) + 0 BY <1>1, PathDepth
  <2>2. QED BY ONLY <2>1, <1>2
<1>5. ASSUME NEW j
      PROVE  j \in OpenAt(t, p + 1) <=> \E k \in 1 .. Len(path) : path[k] = j
  <2>1. j \in OpenAt(t, p + 1) <=> j \in OpenAt(t, p) /\ Depth(t, j, p + 1) > 0
    BY <1>1, OpenStep
  <2>2. j \in OpenAt(t, p) <=> \E k \in 1 .. Len(path) : path[k] = j BY DEF PathTo
  <2>3. ASSUME NEW k \in 1 .. Len(path), path[k] = j PROVE Depth(t, j, p + 1) > 0
    BY <2>3, <1>2, <1>3
  <2>4. QED BY <2>1, <2>2, <2>3
<1>6. QED BY <1>2, <1>3, <1>4, <1>5 DEF PathTo

LEMMA PathOpen ==
  ASSUME NEW t, NEW p \in Nat \ {0}, NEW path, PathTo(t, p, path), t[p + 1].mode = "("
  PROVE  PathTo(t, p + 1, Append(path, p + 1))
<1> DEFINE after == Append(path, p + 1)
<1>1. Turn(t[p + 1]) = 1 BY DEF Turn
<1>2. path \in Seq(2 .. p + 1) /\ \A k \in 1 .. Len(path) : path[k] \in 2 .. p
  <2>1. path \in Seq(2 .. p) BY DEF PathTo
  <2>2. 2 .. p \subseteq 2 .. p + 1 OBVIOUS
  <2>3. QED BY <2>1, <2>2
<1>3. /\ after \in Seq(2 .. p + 1) /\ Len(after) = Len(path) + 1 /\ Len(path) \in Nat
      /\ \A k \in 1 .. Len(path) : after[k] = path[k]
      /\ after[Len(path) + 1] = p + 1
  <2>1. p + 1 \in 2 .. p + 1 OBVIOUS
  <2>2. QED BY <2>1, <1>2
<1> HIDE DEF after
<1>4. ASSUME NEW k \in 1 .. Len(after)
      PROVE  Depth(t, after[k], p + 1) = Len(after) - k + 1
  <2>1. CASE k \in 1 .. Len(path)
    <3>1. Depth(t, path[k], p + 1) = Len(path) - k + 1 + 1 BY <1>1, <2>1, PathDepth
    <3>2. QED BY <3>1, <2>1, <1>3
  <2>2. CASE k = Len(path) + 1
    <3>1. Depth(t, p + 1, p) = 0 /\ Depth(t, p + 1, p + 1) = Depth(t, p + 1, p) + Turn(t[p + 1])
      BY DepthStep
    <3>2. QED BY <3>1, <2>2, <1>1, <1>3
  <2>3. QED BY <2>1, <2>2, <1>3
<1>5. Depth(t, 1, p + 1) = Len(after) BY <1>1, <1>3, PathDepth
<1>6. ASSUME NEW j
      PROVE  j \in OpenAt(t, p + 1) <=> \E k \in 1 .. Len(after) : after[k] = j
  <2>1. j \in OpenAt(t, p + 1) <=>
          (j \in OpenAt(t, p) /\ Depth(t, j, p + 1) > 0) \/ (j = p + 1 /\ t[j].mode = "(")
    BY OpenStep
  <2>2. j \in OpenAt(t, p) <=> \E k \in 1 .. Len(path) : path[k] = j BY DEF PathTo
  <2>3. ASSUME NEW k \in 1 .. Len(path), path[k] = j PROVE Depth(t, j, p + 1) > 0
    <3>1. Depth(t, path[k], p + 1) = Len(after) - k + 1 BY <1>3, <1>4
    <3>2. QED BY <3>1, <2>3, <1>3
  <2>4. (\E k \in 1 .. Len(after) : after[k] = j) <=>
          ((\E k \in 1 .. Len(path) : path[k] = j) \/ j = p + 1)
    <3>1. 1 .. Len(after) = (1 .. Len(path)) \cup {Len(path) + 1} BY <1>3
    <3>2. QED BY <3>1, <1>3
  <2>5. QED BY <2>1, <2>2, <2>3, <2>4
<1>7. ASSUME NEW k \in 1 .. Len(after), NEW m \in 1 .. Len(after), k < m
      PROVE  after[k] < after[m]
  <2>1. k \in 1 .. Len(path) /\ after[k] = path[k] /\ path[k] \in 2 .. p
    BY <1>2, <1>3, <1>7
  <2>2. CASE m = Len(path) + 1 BY <2>1, <2>2, <1>3
  <2>3. CASE m \in 1 .. Len(path) BY <2>1, <2>3, <1>3, <1>7 DEF PathTo
  <2>4. QED BY <2>2, <2>3, <1>3
<1>8. QED BY <1>3, <1>4, <1>5, <1>6, <1>7 DEF PathTo, after

\* A closing parenthesis takes the innermost one from the path.
LEMMA PathClose ==
  ASSUME NEW t, NEW p \in Nat \ {0}, NEW path, PathTo(t, p, path), Len(path) > 0,
         t[p + 1].mode = ")"
  PROVE  PathTo(t, p + 1, Front(path))
<1> DEFINE after == Front(path)
<1>1. Turn(t[p + 1]) = -1 /\ t[p + 1].mode # "(" BY DEF Turn
<1>2. path \in Seq(2 .. p + 1) /\ Len(path) \in Nat
  <2>1. path \in Seq(2 .. p) BY DEF PathTo
  <2>2. 2 .. p \subseteq 2 .. p + 1 OBVIOUS
  <2>3. QED BY <2>1, <2>2
<1>3. /\ after \in Seq(2 .. p + 1) /\ Len(after) = Len(path) - 1
      /\ \A k \in 1 .. Len(path) - 1 : after[k] = path[k]
  BY <1>2, FrontOf
<1> HIDE DEF after
<1>4. \A k \in 1 .. Len(path) : Depth(t, path[k], p + 1) = Len(path) - k
  <2>1. \A k \in 1 .. Len(path) : Depth(t, path[k], p + 1) = Len(path) - k + 1 + (-1)
    BY <1>1, PathDepth
  <2>2. QED BY <2>1, <1>2
<1>5. \A k \in 1 .. Len(after) : Depth(t, after[k], p + 1) = Len(after) - k + 1
  BY <1>2, <1>3, <1>4
<1>6. Depth(t, 1, p + 1) = Len(after)
  <2>1. Depth(t, 1, p + 1) = Len(path) + (-1) BY <1>1, PathDepth
  <2>2. QED BY <2>1, <1>2, <1>3
<1>7. ASSUME NEW j
      PROVE  j \in OpenAt(t, p + 1) <=> \E k \in 1 .. Len(after) : after[k] = j
  <2>1. j \in OpenAt(t, p + 1) <=> j \in OpenAt(t, p) /\ Depth(t, j, p + 1) > 0
    BY <1>1, OpenStep
  <2>2. j \in OpenAt(t, p) <=> \E k \in 1 .. Len(path) : path[k] = j BY DEF PathTo
  <2>3. ASSUME NEW k \in 1 .. Len(path), path[k] = j
        PROVE  Depth(t, j, p + 1) > 0 <=> k < Len(path)
    BY <2>3, <1>2, <1>4
  <2>4. (\E k \in 1 .. Len(after) : after[k] = j) <=>
          \E k \in 1 .. Len(path) : path[k] = j /\ k < Len(path)
    <3>1. 1 .. Len(after) = {k \in 1 .. Len(path) : k < Len(path)} BY <1>2, <1>3
    <3>2. QED BY <3>1, <1>3, Zenon
  <2>5. QED BY ONLY <2>1, <2>2, <2>3, <2>4
<1>8. \A k, m \in 1 .. Len(after) : k < m => after[k] < after[m]
  <2>1. \A k, m \in 1 .. Len(path) : k < m => path[k] < path[m] BY DEF PathTo
  <2>2. \A k \in 1 .. Len(after) : k \in 1 .. Len(path) /\ after[k] = path[k] BY <1>2, <1>3
  <2>3. QED BY <2>1, <2>2, Zenon
<1>9. QED BY <1>3, <1>5, <1>6, <1>7, <1>8 DEF PathTo, after

\* The innermost open parenthesis is the one behind a word's parent.
LEMMA ParentAt ==
  ASSUME NEW t, NEW q \in Nat, q >= 2, Named(t[q]), NEW path, PathTo(t, q, path), Len(path) > 0
  PROVE  Parent(t, q) = path[Len(path)] - 1
<1> DEFINE S == {j \in 1 .. q - 2 : t[j + 1].mode = "(" /\
                   \A k \in j + 1 .. q - 1 : Opens(t, j + 1, k) > Closes(t, j + 1, k)}
<1> DEFINE last == path[Len(path)]
<1>1. ASSUME NEW j \in S PROVE j + 1 \in OpenAt(t, q)
  <2>1. j \in 1 .. q - 2 /\ t[j + 1].mode = "(" OBVIOUS
  <2>2. ASSUME NEW k \in j + 1 .. q - 1 PROVE Depth(t, j + 1, k) > 0
    <3>1. j + 1 \in Nat /\ k \in Nat /\ j + 1 <= k + 1 BY <2>1
    <3>2. Opens(t, j + 1, k) > Closes(t, j + 1, k) OBVIOUS
    <3>3. QED BY <3>1, <3>2, DepthStep
  <2>3. Depth(t, j + 1, q) > 0
    <3>1. q - 1 \in j + 1 .. q - 1 /\ q - 1 \in Nat /\ j + 1 \in Nat BY <2>1
    <3>2. Depth(t, j + 1, q - 1) \in Int BY <2>1, <3>1, DepthStep
    <3> HIDE DEF S
    <3>3. Depth(t, j + 1, q - 1 + 1) = Depth(t, j + 1, q - 1) + Turn(t[q - 1 + 1])
      BY <3>1, DepthStep
    <3>4. Turn(t[q]) = 0 BY DEF Turn, Named
    <3>5. Depth(t, j + 1, q - 1) > 0 BY <2>2, <3>1
    <3>6. QED BY <3>2, <3>3, <3>4, <3>5
  <2>4. QED BY <2>1, <2>2, <2>3 DEF OpenAt
<1>2. ASSUME NEW i \in OpenAt(t, q) PROVE i - 1 \in S
  <2>1. i \in 2 .. q /\ t[i].mode = "(" BY DEF OpenAt
  <2>2. i # q BY <2>1 DEF Named
  <2>3. i - 1 \in 1 .. q - 2 /\ i - 1 + 1 = i BY <2>1, <2>2
  <2>4. ASSUME NEW k \in i .. q - 1 PROVE Opens(t, i, k) > Closes(t, i, k)
    <3>1. Depth(t, i, k) > 0 BY <2>1 DEF OpenAt
    <3>2. i \in Nat /\ k \in Nat /\ i <= k + 1 BY <2>1
    <3>3. QED BY <3>1, <3>2, DepthStep
  <2>5. QED BY <2>1, <2>3, <2>4
<1>3. S \in SUBSET Int OBVIOUS
<1>4. Parent(t, q) = Max(S) BY DEF Parent
<1> HIDE DEF S
<1>5. path \in Seq(2 .. q) /\ Len(path) \in 1 .. Len(path) /\ last \in 2 .. q BY DEF PathTo
<1>6. last - 1 \in S
  <2>1. last \in OpenAt(t, q) BY <1>5 DEF PathTo
  <2>2. QED BY <2>1, <1>2
<1>7. ASSUME NEW j \in S PROVE last - 1 >= j
  <2>1. PICK k \in 1 .. Len(path) : path[k] = j + 1 BY <1>1 DEF PathTo
  <2>2. k < Len(path) => path[k] < last BY <1>5 DEF PathTo
  <2>3. k = Len(path) \/ k < Len(path) BY <1>5
  <2>4. path[k] <= last BY <2>2, <2>3, <1>5
  <2>5. j \in Int BY <1>3
  <2>6. QED BY <2>1, <2>4, <2>5, <1>5
<1> HIDE DEF last
<1>8. Max(S) = last - 1 BY <1>3, <1>6, <1>7, MaxIs
<1>9. QED BY <1>4, <1>8 DEF last

-----------------------------------------------------------------------------
(* The links, word by word. *)

\* Those of the words that are not behind word p.
UpTo(words, p) == {i \in words : i <= p}

\* The word behind the others is the last that Listed lists.
LEMMA ListedNext ==
  ASSUME NEW t, NEW p \in Nat, NEW W \in SUBSET (1 .. p)
  PROVE  /\ Cardinality(W) \in Nat
         /\ DOMAIN Listed(t, W) = 1 .. Cardinality(W)
         /\ Listed(t, W \cup {p + 1}) =
              [k \in 1 .. Cardinality(W) + 1 |-> Listed(t, W \cup {p + 1})[k]]
         /\ \A k \in 1 .. Cardinality(W) : Listed(t, W \cup {p + 1})[k] = Listed(t, W)[k]
         /\ Listed(t, W \cup {p + 1})[Cardinality(W) + 1] = t[p + 1].name
<1> DEFINE V == W \cup {p + 1}
<1> DEFINE n == Cardinality(W)
<1> DEFINE before(U, i) == {j \in U : j < i}
<1>1. IsFiniteSet(W) /\ n \in Nat
  <2>1. IsFiniteSet(1 .. p) BY FS_Interval
  <2>2. IsFiniteSet(W) BY <2>1, FS_Subset
  <2>3. QED BY <2>2, FS_CardinalityType
<1>2. Cardinality(V) = n + 1
  <2>1. p + 1 \notin W OBVIOUS
  <2>2. QED BY <2>1, <1>1, FS_AddElement
<1>3. before(V, p + 1) = W
  <2>1. \A j \in W : j < p + 1 OBVIOUS
  <2>2. ~(p + 1 < p + 1) OBVIOUS
  <2>3. QED BY <2>1, <2>2
<1>4. ASSUME NEW i \in W
      PROVE  before(V, i) = before(W, i) /\ Cardinality(before(W, i)) \in 0 .. n - 1
  <2>1. before(V, i) = before(W, i) OBVIOUS
  <2>2. before(W, i) \in SUBSET W /\ i \notin before(W, i) OBVIOUS
  <2>3. IsFiniteSet(before(W, i)) /\ Cardinality(before(W, i)) <= n
    BY <2>2, <1>1, FS_Subset
  <2>4. Cardinality(before(W, i)) \in Nat BY <2>3, FS_CardinalityType
  <2>5. Cardinality(before(W, i)) # n BY <2>2, <1>1, FS_Subset
  <2>6. QED BY <2>1, <2>3, <2>4, <2>5, <1>1
<1>5. ASSUME NEW k \in 1 .. n
      PROVE  {i \in V : Cardinality(before(V, i)) = k - 1}
               = {i \in W : Cardinality(before(W, i)) = k - 1}
  <2> HIDE DEF before
  <2>1. Cardinality(before(V, p + 1)) # k - 1
    <3>1. Cardinality(before(V, p + 1)) = n BY <1>3
    <3> HIDE DEF n
    <3>2. QED BY <3>1, <1>1
  <2>2. QED BY <2>1, <1>4
<1>6. ASSUME NEW m, m = n + 1
      PROVE  {i \in V : Cardinality(before(V, i)) = m - 1} = {p + 1}
  <2>0. n = m - 1 BY <1>1, <1>6
  <2> HIDE DEF before
  <2>1. Cardinality(before(V, p + 1)) = m - 1 BY <2>0, <1>3
  <2>2. ASSUME NEW i \in W PROVE Cardinality(before(V, i)) # m - 1
    <3>1. Cardinality(before(V, i)) \in 0 .. n - 1 BY <1>4
    <3> HIDE DEF n
    <3>2. QED BY <3>1, <2>0, <1>1
  <2>3. QED BY <2>1, <2>2
<1>7. Min({p + 1}) = p + 1 BY MinOfOne
<1>8. /\ Listed(t, W) = [k \in 1 .. n |->
           t[Min({i \in W : Cardinality(before(W, i)) = k - 1})].name]
      /\ Listed(t, V) = [k \in 1 .. Cardinality(V) |->
           t[Min({i \in V : Cardinality(before(V, i)) = k - 1})].name]
  BY DEF Listed
<1> HIDE DEF before, V, n
<1>9. ASSUME NEW k \in 1 .. n PROVE Listed(t, V)[k] = Listed(t, W)[k]
  <2>1. k \in 1 .. Cardinality(V) BY <1>1, <1>2
  <2>2. QED BY <2>1, <1>5, <1>8
<1>10. Listed(t, V)[n + 1] = t[p + 1].name
  <2> DEFINE m == n + 1
  <2>1. m \in 1 .. Cardinality(V) BY <1>1, <1>2
  <2>2. {i \in V : Cardinality(before(V, i)) = m - 1} = {p + 1} BY <1>6
  <2> HIDE DEF m
  <2>3. Listed(t, V)[m] = t[Min({i \in V : Cardinality(before(V, i)) = m - 1})].name
    BY <2>1, <1>8
  <2>4. Listed(t, V)[m] = t[p + 1].name BY <2>2, <2>3, <1>7
  <2>5. QED BY <2>4 DEF m
<1>11. DOMAIN Listed(t, W) = 1 .. n /\ Listed(t, V) = [k \in 1 .. n + 1 |-> Listed(t, V)[k]]
  BY <1>2, <1>8
<1>12. QED BY <1>1, <1>9, <1>10, <1>11 DEF V, n

\* The last word is the one that counts for Placed.
LEMMA PlacedLast ==
  ASSUME NEW t, NEW W \in SUBSET Nat, NEW q \in W, \A w \in W : w <= q
  PROVE  Placed(t, W) = IF t[q].mode = "*" THEN t[Parent(t, q)].name ELSE t[q].name
<1>1. W \in SUBSET Int OBVIOUS
<1>2. \A w \in W : q >= w BY <1>1
<1>3. Max(W) = q BY <1>1, <1>2, MaxIs
<1>4. W # {} OBVIOUS
<1>5. QED BY <1>3, <1>4 DEF Placed

LEMMA WordsNext ==
  ASSUME NEW W \in SUBSET Nat, NEW p \in Nat, NEW q \in Nat, q = p \/ q = p + 1
  PROVE  /\ UpTo(W, q) = IF q \in W THEN UpTo(W, p) \cup {q} ELSE UpTo(W, p)
         /\ UpTo(W, p) \in SUBSET Nat /\ \A w \in UpTo(W, q) : w <= q
<1>1. \A i \in W : i <= q <=> i <= p \/ i = q OBVIOUS
<1>2. UpTo(W, q) = IF q \in W THEN UpTo(W, p) \cup {q} ELSE UpTo(W, p)
  BY <1>1 DEF UpTo
<1>3. QED BY <1>2 DEF UpTo

\* All words of a text that link are in front of one without a layer.
Intact(t, p) == \A j \in 1 .. p : Named(t[j]) => t[j].name # Null

LEMMA LinkingWords ==
  ASSUME NEW t \in Seq(Word), NEW q \in 1 .. Len(t)
  PROVE  /\ q \in Linking(t) <=> t[q].mode \in Mode /\ Intact(t, q)
         /\ \A n : WordsAbove(t, n) \in SUBSET (Nat \ {0})
         /\ \A n : WordsBelow(t, n) \in SUBSET (Nat \ {0})
         /\ \A n : q \in WordsAbove(t, n) <=>
              q \in Linking(t) /\ t[q].mode \in {"*", "+"} /\ t[Parent(t, q)].name = n
         /\ \A n : q \in WordsBelow(t, n) <=>
              /\ q \in Linking(t)
              /\ \/ t[q].mode = "*" /\ t[q].name = n
                 \/ t[q].mode = "-" /\ t[Parent(t, q)].name = n
<1>1. DOMAIN t = 1 .. Len(t) OBVIOUS
<1>2. Linking(t) \in SUBSET (Nat \ {0}) BY <1>1 DEF Linking
<1>3. q \in Linking(t) <=> t[q].mode \in Mode /\ Intact(t, q)
  BY <1>1 DEF Linking, Intact
<1>4. QED BY <1>2, <1>3 DEF WordsAbove, WordsBelow

\* Names are those of layers, one layer each.
LEMMA LayerFound ==
  ASSUME mp_aLayers = [i \in 1 .. Len(mp_aLayers) |-> i], Len(mp_aLayers) = Len(Created)
  PROVE  /\ GetLayer(Null) = Null
         /\ \A n \in Name : GetLayer(n) \in Layer /\ Created[GetLayer(n)] = n
<1> DEFINE hits(n) == {i \in DOMAIN mp_aLayers : Created[mp_aLayers[i]] = n}
<1>1. DOMAIN mp_aLayers = Layer /\ \A i \in Layer : mp_aLayers[i] = i BY DEF Layer
<1>2. /\ Created \in Seq(Name) /\ ToSet(Created) = Name /\ IsInjective(Created)
      /\ Null \notin Name
  BY LinkingAssumption
<1>3. DOMAIN Created = Layer /\ \A i \in Layer : Created[i] \in Name /\ i \in Int
  BY <1>2 DEF Layer
<1>4. hits(Null) = {} BY <1>1, <1>2, <1>3
<1>5. GetLayer(Null) = Null BY <1>4 DEF GetLayer
<1>6. ASSUME NEW n \in Name PROVE GetLayer(n) \in Layer /\ Created[GetLayer(n)] = n
  <2>1. PICK l \in Layer : Created[l] = n BY <1>2, <1>3 DEF ToSet
  <2>2. hits(n) = {l} BY <2>1, <1>1, <1>2, <1>3 DEF IsInjective
  <2>3. Min({l}) = l BY <1>3, MinOfOne
  <2>4. GetLayer(n) = IF hits(n) = {} THEN Null ELSE mp_aLayers[Min(hits(n))] BY DEF GetLayer
  <2> HIDE DEF hits
  <2>5. GetLayer(n) = mp_aLayers[l] BY <2>2, <2>3, <2>4
  <2>6. QED BY <2>1, <2>5, <1>1
<1>7. QED BY <1>5, <1>6

\* What a well-formed text says of each of its words.
LEMMA TextWords ==
  ASSUME NEW t \in Text
  PROVE  /\ t \in Seq(Word) /\ Len(t) \in Nat \ {0}
         /\ \A i \in 1 .. Len(t) :
              /\ t[i].blanks \in Nat /\ t[i].name \in Name \cup {Null}
              /\ t[i].mode \in Mode \cup {"", "(", ")"}
              /\ t[i].mode = "" <=> i = 1
              /\ t[i].mode = "(" => Named(t[i - 1])
              /\ i > 1 => t[i].blanks >= 1 /\ (t[i].blanks # 1 => t[i].mode = "-")
              /\ i > 1 => IF t[i].mode = "(" THEN Depth(t, 1, i - 1) < MAX_LAYER_NUMBER
                                             ELSE Depth(t, 1, i - 1) > 0
<1>1. t \in Seq(Word) /\ WellFormed(t) BY LinkingAssumption
<1>2. DOMAIN t = 1 .. Len(t) /\ Len(t) \in Nat \ {0}
  <2>1. t # << >> BY <1>1, Zenon DEF WellFormed
  <2>2. QED BY <1>1, <2>1
<1>3. ASSUME NEW i \in 1 .. Len(t)
      PROVE  /\ t[i].mode = "" <=> i = 1
             /\ t[i].mode = "(" => Named(t[i - 1])
             /\ t[i].blanks = (IF i = 1 THEN 0 ELSE 1) \/ (t[i].mode = "-" /\ t[i].blanks > 1)
  BY <1>1, <1>2, Zenon DEF WellFormed
<1>4. ASSUME NEW i \in 1 .. Len(t), i > 1
      PROVE  IF t[i].mode = "(" THEN Depth(t, 1, i - 1) < MAX_LAYER_NUMBER
                                ELSE Depth(t, 1, i - 1) > 0
  <2>1. i \in 2 .. Len(t) BY <1>4
  <2>2. QED BY <2>1, <1>1, Zenon DEF WellFormed, Depth
<1>5. ASSUME NEW i \in 1 .. Len(t)
      PROVE  /\ t[i].blanks \in Nat /\ t[i].name \in Name \cup {Null}
             /\ t[i].mode \in Mode \cup {"", "(", ")"}
  <2>1. t[i] \in Word BY <1>1
  <2>2. QED BY <2>1 DEF Word
<1>6. ASSUME NEW i \in 1 .. Len(t), i > 1
      PROVE  t[i].blanks >= 1 /\ (t[i].blanks # 1 => t[i].mode = "-")
  <2>1. t[i].blanks = 1 \/ (t[i].mode = "-" /\ t[i].blanks > 1)
    <3>1. i # 1 BY <1>6
    <3>2. QED BY <3>1, <1>3, Zenon
  <2>2. t[i].blanks \in Nat BY <1>5
  <2>3. QED BY ONLY <2>1, <2>2
<1>7. QED BY <1>1, <1>2, <1>3, <1>4, <1>5, <1>6

-----------------------------------------------------------------------------
(* The inductive invariant. *)

\* The nodes are the words in their order, a "-" possibly more than once: f says
\* which word a node is.
Copied(f) ==
  /\ f \in [1 .. Len(nodes) -> 1 .. Len(text)]
  /\ \A k \in 1 .. Len(nodes) :
       /\ nodes[k] = text[f[k]]
       /\ k = 1 => f[k] = 1
       /\ k > 1 => f[k] = f[k - 1] + 1 \/ (f[k] = f[k - 1] /\ text[f[k]].mode = "-")

\* Where MakeList is in the text.
Scanned(f) ==
  /\ nodes = << >> => pcList.word = 1 /\ pcList.blanks = 0
  /\ nodes # << >> =>
       \/ pcList.word = f[Len(nodes)] + 1
       \/ pcList.word = f[Len(nodes)] /\ text[pcList.word].mode = "-"
  /\ pcList.word <= Len(text) /\ pcList.blanks > 0 => text[pcList.word].mode = "-"

\* The word that LinkLayer has read last.
LastRead(f) == IF pNode = 1 THEN 0 ELSE f[pNode - 1]

\* The stack holds the layers in front of the open parentheses.
StackIs(p, path) ==
  /\ PathTo(text, p, path)
  /\ Len(stack) = Len(path)
  /\ \A k \in 1 .. Len(path) : NameOf(stack[k]) = text[path[k] - 1].name

\* pLayer is the layer last named and the stack the path to it, up to the first
\* name that no layer has.
ReaderAt(p) ==
  IF pLayer = Null
  THEN IF p = 0 THEN stack = << >> ELSE ~Intact(text, p)
  ELSE /\ p # 0
       /\ Intact(text, p)
       /\ Named(text[p]) => NameOf(pLayer) = text[p].name
       /\ \E path : StackIs(p, path)

NamesOf(s) == [i \in DOMAIN s |-> NameOf(s[i])]

\* The links are those of the words up to p.
LinksTo(p) ==
  \A l \in Layer :
    /\ NamesOf(upper[l]) = Listed(text, UpTo(WordsAbove(text, Created[l]), p))
    /\ NameOf(under[l]) = Placed(text, UpTo(WordsBelow(text, Created[l]), p))

Shape ==
  /\ text \in Text
  /\ mp_aLayers = [i \in 1 .. Len(mp_aLayers) |-> i]
  /\ nodes # << >> => Len(mp_aLayers) = Len(Created)
  /\ ~ListMade => pNode = 1

ReadSoFar(f) ==
  /\ Copied(f)
  /\ Scanned(f)
  /\ ReaderAt(LastRead(f))
  /\ LinksTo(LastRead(f))

IInv == TypeOK /\ Shape /\ \E f : ReadSoFar(f)

\* Reading word q behind word p.
Reads(p, q) ==
  /\ text \in Text /\ p \in 0 .. Len(text) /\ q \in 1 .. Len(text)
  /\ q = p + 1 \/ (q = p /\ text[q].mode = "-")
  /\ Node = text[q]
  /\ mp_aLayers = [i \in 1 .. Len(mp_aLayers) |-> i]
  /\ Len(mp_aLayers) = Len(Created)

\* A node that is read stands for a word, the next one or the same again.
LEMMA NodeRead ==
  ASSUME TypeOK, Shape, Reading, NEW f, Copied(f), Scanned(f)
  PROVE  /\ Reads(LastRead(f), f[pNode])
         /\ Shape' /\ Copied(f)' /\ Scanned(f)'
         /\ LastRead(f)' = f[pNode]
<1> DEFINE q == f[pNode]
<1> DEFINE p == LastRead(f)
<1>1. /\ ListMade /\ pNode \in 1 .. Len(nodes) /\ pNode' = pNode + 1
      /\ mp_aLayers' = mp_aLayers /\ pcList' = pcList /\ nodes' = nodes /\ text' = text
  BY DEF Reading, TypeOK
<1>2. Len(text) \in Nat \ {0} BY TextWords DEF Shape
<1>3. f \in [1 .. Len(nodes) -> 1 .. Len(text)] BY DEF Copied
<1>4. q \in 1 .. Len(text) /\ Node = text[q] BY <1>1, <1>3 DEF Copied, Node
<1>5. p \in 0 .. Len(text) /\ (q = p + 1 \/ (q = p /\ text[q].mode = "-"))
  <2>1. CASE pNode = 1
    <3>1. p = 0 BY <2>1 DEF LastRead
    <3>2. q = 1 BY <2>1, <1>1 DEF Copied
    <3>3. QED BY <3>1, <3>2, <1>2
  <2>2. CASE pNode # 1
    <3>1. p = f[pNode - 1] BY <2>2 DEF LastRead
    <3>2. pNode > 1 /\ pNode - 1 \in 1 .. Len(nodes) BY <2>2, <1>1
    <3>3. p \in 1 .. Len(text) BY <3>1, <3>2, <1>3
    <3>4. q = f[pNode - 1] + 1 \/ (q = f[pNode - 1] /\ text[q].mode = "-")
      BY <3>2, <1>1, Zenon DEF Copied
    <3> HIDE DEF p, q
    <3>5. QED BY <3>1, <3>3, <3>4, <1>2
  <2>3. QED BY <2>1, <2>2
<1>6. nodes # << >> BY <1>1
<1>7. Reads(p, q) BY <1>4, <1>5, <1>6 DEF Reads, Shape
<1>8. ListMade' /\ Shape' BY <1>1 DEF Shape, ListMade
<1>9. Copied(f)' /\ Scanned(f)' BY <1>1 DEF Copied, Scanned
<1>10. LastRead(f)' = q
  <2>1. pNode' # 1 /\ pNode' - 1 = pNode BY <1>1
  <2>2. QED BY <2>1 DEF LastRead
<1>11. QED BY <1>7, <1>8, <1>9, <1>10

-----------------------------------------------------------------------------
(* The steps of LinkLayer. *)

\* A word that does not link leaves what the links have to be.
LEMMA LinksKept ==
  ASSUME NEW p, NEW q, Reads(p, q), q \notin Linking(text), LinksTo(p)
  PROVE  LinksTo(q)
<1>1. text \in Seq(Word) BY TextWords DEF Reads
<1>2. p \in Nat /\ q \in Nat /\ (q = p \/ q = p + 1) /\ q \in 1 .. Len(text)
  BY <1>1 DEF Reads
<1>3. ASSUME NEW n PROVE UpTo(WordsAbove(text, n), q) = UpTo(WordsAbove(text, n), p)
  <2>1. q \notin WordsAbove(text, n) BY DEF WordsAbove
  <2>2. WordsAbove(text, n) \in SUBSET Nat BY <1>1, <1>2, LinkingWords
  <2>3. QED BY <2>1, <2>2, <1>2, WordsNext
<1>4. ASSUME NEW n PROVE UpTo(WordsBelow(text, n), q) = UpTo(WordsBelow(text, n), p)
  <2>1. q \notin WordsBelow(text, n) BY DEF WordsBelow
  <2>2. WordsBelow(text, n) \in SUBSET Nat BY <1>1, <1>2, LinkingWords
  <2>3. QED BY <2>1, <2>2, <1>2, WordsNext
<1>5. QED BY <1>3, <1>4 DEF LinksTo

\* Layers and their names.
LEMMA LayerNames ==
  /\ Null \notin Layer /\ Null \notin Name
  /\ \A l \in Layer : NameOf(l) = Created[l] /\ Created[l] \in Name
  /\ \A l, m \in Layer : Created[l] = Created[m] => l = m
<1>1. /\ Created \in Seq(Name) /\ IsInjective(Created) /\ Null \notin Name \cup Nat
  BY LinkingAssumption
<1>2. DOMAIN Created = Layer /\ Layer \subseteq Nat BY <1>1 DEF Layer
<1>3. Null \notin Layer /\ Null \notin Name BY <1>1, <1>2
<1>4. \A l \in Layer : NameOf(l) = Created[l] /\ Created[l] \in Name
  BY <1>1, <1>2, <1>3 DEF NameOf
<1>5. \A l, m \in Layer : Created[l] = Created[m] => l = m
  BY <1>1, <1>2 DEF IsInjective
<1>6. QED BY <1>3, <1>4, <1>5

\* Named words leave the path and the intact names alone, if they have a name.
LEMMA IntactNext ==
  ASSUME NEW p, NEW q, Reads(p, q)
  PROVE  /\ ~Intact(text, p) => ~Intact(text, q)
         /\ Named(text[q]) /\ text[q].name = Null => ~Intact(text, q)
         /\ Intact(text, p) /\ (Named(text[q]) => text[q].name # Null) => Intact(text, q)
<1>1. Len(text) \in Nat BY TextWords DEF Reads
<1>2. q \in 1 .. q /\ 1 .. p \subseteq 1 .. q /\ 1 .. q \subseteq (1 .. p) \cup {q}
  BY <1>1 DEF Reads
<1>3. QED BY <1>2 DEF Intact

LEMMA FirstRead ==
  ASSUME TypeOK, NEW p, NEW q, Reads(p, q), LinkFirst, ReaderAt(p), LinksTo(p)
  PROVE  pLayer' \in Layer \cup {Null} /\ ReaderAt(q)' /\ LinksTo(q)'
<1>1. /\ text' = text /\ upper' = upper /\ under' = under /\ stack' = stack
      /\ pLayer = Null
      /\ pLayer' = IF text[q].mode = "" THEN GetLayer(text[q].name) ELSE Null
  BY DEF LinkFirst, Reading, Reads
<1>0. text' = text /\ stack' = stack BY <1>1
<1>2. text \in Text /\ p \in 0 .. Len(text) /\ q \in 1 .. Len(text) /\ (q = p + 1 \/ q = p)
  BY DEF Reads
<1>3. text \in Seq(Word) /\ Len(text) \in Nat \ {0} /\ (text[q].mode = "" <=> q = 1)
      /\ text[q].name \in Name \cup {Null}
  BY <1>2, TextWords
<1>4. q \notin Linking(text) => LinksTo(q)'
  <2>1. q \notin Linking(text) => LinksTo(q) BY LinksKept
  <2>2. QED BY <2>1, <1>1 DEF LinksTo
<1>5. CASE q = 1
  <2>1. text[1].mode = "" /\ pLayer' = GetLayer(text[1].name) BY <1>1, <1>3, <1>5
  <2>2. q \notin Linking(text)
    <3>1. text[q].mode \notin Mode BY <2>1, <1>5, Zenon DEF Mode
    <3>2. QED BY <3>1, <1>2, <1>3, LinkingWords
  <2>3. Named(text[1]) BY <2>1, Zenon DEF Named
  <2>4. stack = << >>
    <3>1. CASE p = 0 BY <3>1, <1>1 DEF ReaderAt
    <3>2. CASE p # 0
      <4>1. p = q BY <3>2, <1>2, <1>5
      <4>2. text[q].mode = "-" BY <4>1, <1>5, <1>2 DEF Reads
      <4>3. QED BY <4>2, <2>1, <1>5, Zenon
    <3>3. QED BY <3>1, <3>2
  <2>5. CASE text[1].name = Null
    <3>1. pLayer' = Null BY <2>1, <2>5, LayerFound DEF Reads
    <3>2. ~Intact(text, 1) BY <2>3, <2>5 DEF Intact
    <3>3. ReaderAt(q)' BY <3>1, <3>2, <1>0, <1>5 DEF ReaderAt
    <3>4. QED BY <3>1, <3>3, <2>2, <1>4
  <2>6. CASE text[1].name # Null
    <3>1. text[1].name \in Name BY <2>6, <1>3, <1>5
    <3>2. pLayer' \in Layer /\ Created[pLayer'] = text[1].name
      BY <3>1, <2>1, LayerFound DEF Reads
    <3>3. pLayer' # Null /\ NameOf(pLayer') = text[1].name BY <3>2, LayerNames
    <3>4. Intact(text, 1) BY <2>6 DEF Intact
    <3>5. StackIs(1, << >>)'
      <4>1. PathTo(text, 1, << >>) BY <2>3, PathFirst
      <4>2. Len(stack) = Len(<< >>) /\ 1 .. Len(<< >>) = {} BY <2>4
      <4>3. QED BY <4>1, <4>2, <1>1 DEF StackIs
    <3>6. ReaderAt(1)' BY <3>3, <3>4, <3>5, <1>0 DEF ReaderAt
    <3>7. QED BY <3>2, <3>6, <2>2, <1>4, <1>5
  <2>7. QED BY <2>5, <2>6
<1>6. CASE q # 1
  <2>1. pLayer' = Null BY <1>1, <1>3, <1>6
  <2>2. ~Intact(text, p)
    <3>1. p # 0 BY <1>2, <1>6
    <3>2. QED BY <3>1, <1>1 DEF ReaderAt
  <2>3. ~Intact(text, q) BY <2>2, IntactNext
  <2>4. q \notin Linking(text) BY <2>3, <1>2, <1>3, LinkingWords
  <2>5. ReaderAt(q)'
    <3>1. q # 0 BY <1>2
    <3>2. QED BY <2>1, <2>3, <3>1, <1>0 DEF ReaderAt
  <2>6. QED BY <2>1, <2>4, <2>5, <1>4
<1>7. QED BY <1>5, <1>6

\* With a layer there are a stack and a path.
LEMMA LayerRead ==
  ASSUME NEW p, NEW q, Reads(p, q), ReaderAt(p), pLayer # Null
  PROVE  /\ p \in 1 .. Len(text) /\ p \in Nat \ {0} /\ q \in 2 .. Len(text)
         /\ text \in Seq(Word) /\ Len(text) \in Nat
         /\ Intact(text, p)
         /\ Named(text[p]) => NameOf(pLayer) = text[p].name
         /\ \E path : StackIs(p, path)
<1>1. /\ p # 0
      /\ Intact(text, p)
      /\ Named(text[p]) => NameOf(pLayer) = text[p].name
      /\ \E path : StackIs(p, path)
  BY DEF ReaderAt
<1>2. text \in Seq(Word) /\ Len(text) \in Nat BY TextWords DEF Reads
<1>3. p \in 1 .. Len(text) BY <1>1, <1>2 DEF Reads
<1>4. q # 1
  <2>1. SUFFICES ASSUME q = 1 PROVE FALSE OBVIOUS
  <2>2. p = 1 /\ text[1].mode = "-" BY <2>1, <1>3 DEF Reads
  <2>3. text[1].mode = "" BY <1>3, <2>2, TextWords DEF Reads
  <2>4. QED BY <2>2, <2>3, Zenon
<1>5. q \in 2 .. Len(text) BY <1>4, <1>2 DEF Reads
<1>6. QED BY <1>1, <1>2, <1>3, <1>5

LEMMA OpenRead ==
  ASSUME TypeOK, NEW p, NEW q, Reads(p, q), LinkOpen, ReaderAt(p), LinksTo(p)
  PROVE  /\ stack' \in Seq(Layer) /\ Len(stack') <= MAX_LAYER_NUMBER
         /\ ReaderAt(q)' /\ LinksTo(q)'
<1>1. /\ text' = text /\ upper' = upper /\ under' = under /\ pLayer' = pLayer
      /\ pLayer # Null /\ text[q].mode = "(" /\ Push
  BY DEF LinkOpen, Reading, Reads
<1>2. /\ p \in 1 .. Len(text) /\ p \in Nat \ {0} /\ q \in 2 .. Len(text)
      /\ text \in Seq(Word) /\ Len(text) \in Nat
      /\ Intact(text, p)
      /\ Named(text[p]) => NameOf(pLayer) = text[p].name
      /\ \E path : StackIs(p, path)
  BY <1>1, LayerRead
<1>3. PICK path : StackIs(p, path) BY <1>2
<1>4. q = p + 1 /\ q \in 1 .. Len(text) /\ q > 1
  <2>1. text[q].mode # "-" BY <1>1
  <2>2. QED BY <2>1, <1>2 DEF Reads
<1>5. NameOf(pLayer) = text[p].name
  <2>1. Named(text[q - 1]) BY <1>1, <1>4, TextWords DEF Reads
  <2>2. q - 1 = p BY <1>4, <1>2
  <2>3. QED BY <2>1, <2>2, <1>2
<1>6. Len(stack) < MAX_LAYER_NUMBER
  <2>1. Depth(text, 1, q - 1) < MAX_LAYER_NUMBER BY <1>1, <1>4, TextWords DEF Reads
  <2>2. q - 1 = p BY <1>4, <1>2
  <2>3. QED BY <2>1, <2>2, <1>3 DEF StackIs, PathTo
<1>7. stack \in Seq(Layer) /\ MAX_LAYER_NUMBER \in Nat /\ pLayer \in Layer
  BY <1>1, LinkingAssumption DEF TypeOK
<1>8. /\ stack' = Append(stack, pLayer) /\ stack' \in Seq(Layer)
      /\ Len(stack) \in Nat /\ Len(stack') = Len(stack) + 1
      /\ \A k \in 1 .. Len(stack) : stack'[k] = stack[k]
      /\ stack'[Len(stack) + 1] = pLayer
  <2>1. Len(stack) \in Nat BY <1>7
  <2>2. ~(Len(stack) - 1 >= MAX_LAYER_NUMBER) BY <2>1, <1>6, <1>7
  <2>3. stack' = Append(stack, pLayer) BY <2>2, <1>1 DEF Push
  <2>4. QED BY <2>1, <2>3, <1>7
<1>9. StackIs(q, Append(path, p + 1))'
  <2> DEFINE after == Append(path, p + 1)
  <2>1. PathTo(text, q, after) BY <1>1, <1>2, <1>3, <1>4, PathOpen DEF StackIs
  <2>2. /\ Len(after) = Len(path) + 1
        /\ \A k \in 1 .. Len(path) : after[k] = path[k]
        /\ after[Len(path) + 1] = p + 1
    <3>1. path \in Seq(2 .. p) BY <1>3 DEF StackIs, PathTo
    <3>2. path \in Seq(Int) BY <3>1, <1>2
    <3>3. QED BY <3>2, <1>2
  <2> HIDE DEF after
  <2>3. Len(stack) = Len(path) BY <1>3 DEF StackIs
  <2>4. ASSUME NEW k \in 1 .. Len(after)
        PROVE  NameOf(stack'[k]) = text[after[k] - 1].name
    <3>1. CASE k \in 1 .. Len(path)
      <4>1. stack'[k] = stack[k] /\ after[k] = path[k] BY <3>1, <2>2, <2>3, <1>8
      <4>2. QED BY <4>1, <3>1, <1>3 DEF StackIs
    <3>2. CASE k = Len(path) + 1
      <4>1. stack'[k] = pLayer /\ after[k] - 1 = p BY <3>2, <2>2, <2>3, <1>2, <1>8
      <4>2. QED BY <4>1, <1>5
    <3>3. QED BY <3>1, <3>2, <2>2, <2>3, <1>8
  <2>5. QED BY <2>1, <2>2, <2>3, <2>4, <1>1, <1>8 DEF StackIs, after
<1>10. ~Named(text[q]) /\ text[q].mode \notin Mode BY <1>1 DEF Named, Mode
<1>11. Intact(text, q) BY <1>2, <1>10, IntactNext
<1>12. ReaderAt(q)'
  <2>1. q # 0 BY <1>2
  <2>2. QED BY <2>1, <1>1, <1>9, <1>10, <1>11 DEF ReaderAt
<1>13. LinksTo(q)'
  <2>1. q \notin Linking(text) BY <1>2, <1>4, <1>10, LinkingWords
  <2>2. LinksTo(q) BY <2>1, LinksKept
  <2>3. QED BY <2>2, <1>1 DEF LinksTo
<1>14. QED BY <1>6, <1>7, <1>8, <1>12, <1>13

\* In front of any word but an opening parenthesis one is open.
LEMMA SomeOpen ==
  ASSUME NEW p, NEW q, Reads(p, q), ReaderAt(p), pLayer # Null, text[q].mode # "(",
         NEW path, StackIs(p, path)
  PROVE  Len(path) \in Nat /\ Len(path) > 0
<1>1. p \in Nat \ {0} /\ q \in 2 .. Len(text) BY LayerRead
<1>2. q \in 1 .. Len(text) /\ q > 1 /\ q - 1 \in Nat BY <1>1
<1>3. Depth(text, 1, q - 1) > 0 BY <1>2, TextWords DEF Reads
<1>4. Depth(text, 1, p) = Len(path) /\ Len(path) \in Nat BY DEF StackIs, PathTo
<1>5. CASE q = p + 1
  <2>1. q - 1 = p BY <1>1, <1>5
  <2>2. QED BY <2>1, <1>3, <1>4
<1>6. CASE q = p /\ text[q].mode = "-"
  <2>1. PICK j \in Nat : j = q - 1 /\ q = j + 1 BY <1>2
  <2>2. Depth(text, 1, j) \in Int /\ Depth(text, 1, j + 1) = Depth(text, 1, j) + Turn(text[j + 1])
    <3>1. 1 \in Nat /\ 1 <= j + 1 OBVIOUS
    <3>2. QED BY <3>1, DepthStep
  <2>3. Turn(text[q]) = 0 BY <1>6 DEF Turn
  <2>4. Depth(text, 1, q) = Depth(text, 1, j) BY <2>1, <2>2, <2>3
  <2>5. QED BY <2>1, <2>4, <1>3, <1>4, <1>6
<1>7. QED BY <1>5, <1>6 DEF Reads

LEMMA CloseRead ==
  ASSUME TypeOK, NEW p, NEW q, Reads(p, q), LinkClose, ReaderAt(p), LinksTo(p)
  PROVE  /\ stack' \in Seq(Layer) /\ Len(stack') <= MAX_LAYER_NUMBER
         /\ ReaderAt(q)' /\ LinksTo(q)'
<1>1. /\ text' = text /\ upper' = upper /\ under' = under /\ pLayer' = pLayer
      /\ pLayer # Null /\ text[q].mode = ")" /\ Pop
  BY DEF LinkClose, Reading, Reads
<1>2. /\ p \in 1 .. Len(text) /\ p \in Nat \ {0} /\ q \in 2 .. Len(text)
      /\ text \in Seq(Word) /\ Len(text) \in Nat
      /\ Intact(text, p)
      /\ \E path : StackIs(p, path)
  BY <1>1, LayerRead
<1>3. PICK path : StackIs(p, path) BY <1>2
<1>4. q = p + 1 /\ q \in 1 .. Len(text)
  <2>1. text[q].mode # "-" BY <1>1
  <2>2. QED BY <2>1, <1>2 DEF Reads
<1>5. Len(path) \in Nat /\ Len(path) > 0
  <2>1. text[q].mode # "(" BY <1>1
  <2>2. QED BY <2>1, <1>1, <1>3, SomeOpen
<1>6. stack \in Seq(Layer) /\ Len(stack) = Len(path) /\ Len(stack) <= MAX_LAYER_NUMBER
      /\ MAX_LAYER_NUMBER \in Nat
  BY <1>3, LinkingAssumption DEF TypeOK, StackIs
<1>7. /\ stack' \in Seq(Layer) /\ Len(stack') = Len(path) - 1
      /\ \A k \in 1 .. Len(path) - 1 : stack'[k] = stack[k]
  <2>1. stack # << >> BY <1>5, <1>6
  <2>2. stack' = Front(stack) BY <2>1, <1>1 DEF Pop
  <2>3. Len(stack) > 0 BY <1>5, <1>6
  <2>4. /\ Front(stack) \in Seq(Layer) /\ Len(Front(stack)) = Len(stack) - 1
        /\ \A k \in 1 .. Len(stack) - 1 : Front(stack)[k] = stack[k]
    BY <2>3, <1>6, FrontOf
  <2>5. QED BY <2>2, <2>4, <1>6
<1>8. StackIs(q, Front(path))'
  <2>1. PathTo(text, q, Front(path)) BY <1>1, <1>2, <1>3, <1>4, <1>5, PathClose DEF StackIs
  <2>2. path \in Seq(2 .. p) BY <1>3 DEF StackIs, PathTo
  <2>3. /\ Len(Front(path)) = Len(path) - 1
        /\ \A k \in 1 .. Len(path) - 1 : Front(path)[k] = path[k]
    BY <2>2, <1>5, FrontOf
  <2>4. ASSUME NEW k \in 1 .. Len(Front(path))
        PROVE  NameOf(stack'[k]) = text[Front(path)[k] - 1].name
    <3>1. k \in 1 .. Len(path) - 1 /\ k \in 1 .. Len(path) BY <2>3, <1>5
    <3>2. stack'[k] = stack[k] /\ Front(path)[k] = path[k] BY <3>1, <2>3, <1>7
    <3>3. QED BY <3>1, <3>2, <1>3 DEF StackIs
  <2>5. QED BY <2>1, <2>3, <2>4, <1>1, <1>7 DEF StackIs
<1>9. ~Named(text[q]) /\ text[q].mode \notin Mode BY <1>1 DEF Named, Mode
<1>10. Intact(text, q) BY <1>2, <1>9, IntactNext
<1>11. ReaderAt(q)'
  <2>1. q # 0 BY <1>2
  <2>2. QED BY <2>1, <1>1, <1>8, <1>9, <1>10 DEF ReaderAt
<1>12. LinksTo(q)'
  <2>1. q \notin Linking(text) BY <1>2, <1>4, <1>9, LinkingWords
  <2>2. LinksTo(q) BY <2>1, LinksKept
  <2>3. QED BY <2>2, <1>1 DEF LinksTo
<1>13. QED BY <1>5, <1>6, <1>7, <1>11, <1>12

\* One more layer above, one more word.
LEMMA UpperNext ==
  ASSUME NEW t, NEW p \in Nat, NEW W \in SUBSET (Nat \ {0}), p + 1 \in W,
         NEW s \in Seq(Layer), NEW l \in Layer, NameOf(l) = t[p + 1].name,
         NamesOf(s) = Listed(t, UpTo(W, p))
  PROVE  NamesOf(Append(s, l)) = Listed(t, UpTo(W, p + 1))
<1> DEFINE V == UpTo(W, p)
<1> DEFINE n == Cardinality(V)
<1> DEFINE r == Append(s, l)
<1>1. V \in SUBSET (1 .. p)
  <2>1. ASSUME NEW i \in V PROVE i \in 1 .. p
    <3>1. i \in Nat \ {0} /\ i <= p BY DEF UpTo
    <3>2. QED BY <3>1
  <2>2. QED BY <2>1
<1>2. UpTo(W, p + 1) = V \cup {p + 1}
  <2>1. W \in SUBSET Nat /\ p + 1 \in Nat OBVIOUS
  <2>2. QED BY <2>1, WordsNext
<1> HIDE DEF V
<1>3. /\ n \in Nat
      /\ DOMAIN Listed(t, V) = 1 .. n
      /\ Listed(t, V \cup {p + 1}) = [k \in 1 .. n + 1 |-> Listed(t, V \cup {p + 1})[k]]
      /\ \A k \in 1 .. n : Listed(t, V \cup {p + 1})[k] = Listed(t, V)[k]
      /\ Listed(t, V \cup {p + 1})[n + 1] = t[p + 1].name
  BY <1>1, ListedNext
<1> HIDE DEF n
<1>4. DOMAIN s = 1 .. n /\ \A k \in 1 .. n : NameOf(s[k]) = Listed(t, V)[k]
  <2>1. NamesOf(s) = Listed(t, V) BY DEF V
  <2>2. DOMAIN NamesOf(s) = DOMAIN s /\ \A k \in DOMAIN s : NamesOf(s)[k] = NameOf(s[k])
    BY DEF NamesOf
  <2>3. QED BY <2>1, <2>2, <1>3
<1>5. Len(s) = n BY <1>3, <1>4
<1>6. DOMAIN r = 1 .. n + 1 /\ r[n + 1] = l /\ \A k \in 1 .. n : r[k] = s[k]
  BY <1>3, <1>5
<1> HIDE DEF r
<1>7. ASSUME NEW k \in 1 .. n + 1 PROVE NameOf(r[k]) = Listed(t, V \cup {p + 1})[k]
  <2>1. CASE k = n + 1 BY <2>1, <1>3, <1>6
  <2>2. CASE k \in 1 .. n BY <2>2, <1>3, <1>4, <1>6
  <2>3. QED BY <2>1, <2>2, <1>3
<1>8. /\ NamesOf(r) = [k \in 1 .. n + 1 |-> NameOf(r[k])]
  BY <1>6 DEF NamesOf
<1>9. NamesOf(r) = Listed(t, V \cup {p + 1}) BY <1>3, <1>7, <1>8
<1>10. QED BY <1>2, <1>9 DEF r

\* What a named word does, in terms of the text: Top is the layer of its parent.
LEMMA NamedWord ==
  ASSUME TypeOK, NEW p, NEW q, Reads(p, q), LinkNamed, ReaderAt(p)
  PROVE  /\ text' = text /\ stack' = stack /\ pLayer' = GetLayer(text[q].name)
         /\ Named(text[q]) /\ text[q].mode \in Mode
         /\ \/ text[q].mode = "*" /\ SetUpperUnderLayer(Top, pLayer')
            \/ text[q].mode = "+" /\ SetUpperLayer(Top, pLayer') /\ under' = under
            \/ text[q].mode = "-" /\ SetUnderLayer(Top, pLayer') /\ upper' = upper
         /\ Top \in Layer /\ NameOf(Top) = text[Parent(text, q)].name
         /\ \E path : StackIs(q, path)'
<1>1. /\ text' = text /\ stack' = stack /\ pLayer # Null /\ Named(text[q])
  BY DEF LinkNamed, Reading, Reads
<1>2. /\ p \in Nat \ {0} /\ q \in 2 .. Len(text)
      /\ text \in Seq(Word) /\ Len(text) \in Nat
      /\ \E path : StackIs(p, path)
  BY <1>1, LayerRead
<1>3. q \in 1 .. Len(text) /\ q # 1 /\ q \in Nat /\ q >= 2 BY <1>2
<1>4. text[q].mode \in Mode
  <2>1. text[q].mode \in Mode \cup {"", "(", ")"} /\ (text[q].mode = "" <=> q = 1)
    BY <1>3, TextWords DEF Reads
  <2>2. text[q].mode # "" BY <2>1, <1>3, Zenon
  <2>3. QED BY <2>1, <2>2, <1>1, Zenon DEF Named
<1>5. text[q].mode = "*" \/ text[q].mode = "+" \/ text[q].mode = "-"
  BY <1>4, Zenon DEF Mode
<1>6. Node = text[q] BY DEF Reads
<1>7. pLayer' = GetLayer(text[q].name)
  <2>1. text[q].mode # "" BY <1>5, Zenon
  <2>2. QED BY <2>1, <1>6, Zenon DEF LinkNamed
<1>8. text[q].mode = "*" => SetUpperUnderLayer(Top, pLayer')
  <2>1. SUFFICES ASSUME text[q].mode = "*" PROVE SetUpperUnderLayer(Top, pLayer') OBVIOUS
  <2>2. QED BY <2>1, <1>6, Zenon DEF LinkNamed
<1>9. text[q].mode = "+" => SetUpperLayer(Top, pLayer') /\ under' = under
  <2>1. SUFFICES ASSUME text[q].mode = "+" PROVE SetUpperLayer(Top, pLayer') /\ under' = under
    OBVIOUS
  <2>2. QED BY <2>1, <1>6, Zenon DEF LinkNamed
<1>10. text[q].mode = "-" => SetUnderLayer(Top, pLayer') /\ upper' = upper
  <2>1. SUFFICES ASSUME text[q].mode = "-" PROVE SetUnderLayer(Top, pLayer') /\ upper' = upper
    OBVIOUS
  <2>2. QED BY <2>1, <1>6, Zenon DEF LinkNamed
<1>11. PICK path : StackIs(p, path) BY <1>2
<1>12. PathTo(text, q, path)
  <2>1. CASE q = p BY <2>1, <1>11 DEF StackIs
  <2>2. CASE q = p + 1 BY <2>2, <1>1, <1>2, <1>11, PathNamed DEF StackIs
  <2>3. QED BY <2>1, <2>2 DEF Reads
<1>13. Len(path) \in Nat /\ Len(path) > 0
  <2>1. text[q].mode # "(" BY <1>5
  <2>2. QED BY <2>1, <1>1, <1>11, SomeOpen
<1>14. Parent(text, q) = path[Len(path)] - 1 BY <1>1, <1>3, <1>12, <1>13, ParentAt
<1>15. Top = stack[Len(path)] /\ Top \in Layer
  <2>1. stack \in Seq(Layer) /\ Len(stack) = Len(path) BY <1>11 DEF TypeOK, StackIs
  <2>2. stack # << >> /\ Len(path) \in 1 .. Len(stack) BY <2>1, <1>13
  <2>3. Top = stack[Len(stack)] BY <2>2 DEF Top, Last
  <2>4. QED BY <2>1, <2>2, <2>3
<1>16. NameOf(Top) = text[Parent(text, q)].name
  <2>1. Len(path) \in 1 .. Len(path) BY <1>13
  <2>2. NameOf(stack[Len(path)]) = text[path[Len(path)] - 1].name BY <2>1, <1>11 DEF StackIs
  <2>3. QED BY <2>2, <1>14, <1>15
<1>17. StackIs(q, path)' BY <1>1, <1>11, <1>12 DEF StackIs
<1>18. QED BY <1>1, <1>4, <1>5, <1>7, <1>8, <1>9, <1>10, <1>15, <1>16, <1>17

\* A name without a layer links nothing.
LEMMA NoLayerRead ==
  ASSUME TypeOK, NEW p, NEW q, Reads(p, q), LinkNamed, ReaderAt(p), LinksTo(p),
         text[q].name = Null
  PROVE  pLayer' = Null /\ upper' = upper /\ under' = under /\ ReaderAt(q)' /\ LinksTo(q)'
<1>1. /\ text' = text /\ stack' = stack /\ pLayer' = GetLayer(text[q].name)
      /\ Named(text[q])
      /\ \/ text[q].mode = "*" /\ SetUpperUnderLayer(Top, pLayer')
         \/ text[q].mode = "+" /\ SetUpperLayer(Top, pLayer') /\ under' = under
         \/ text[q].mode = "-" /\ SetUnderLayer(Top, pLayer') /\ upper' = upper
  BY NamedWord
<1>2. pLayer' = Null BY <1>1, LayerFound DEF Reads
<1>3. upper' = upper /\ under' = under
  BY <1>1, <1>2 DEF SetUpperUnderLayer, SetUpperLayer, SetUnderLayer
<1>4. ~Intact(text, q) BY <1>1, IntactNext
<1>5. text \in Seq(Word) /\ q \in 1 .. Len(text) /\ q # 0
  <2>1. text \in Text /\ q \in 1 .. Len(text) BY DEF Reads
  <2>2. text \in Seq(Word) BY <2>1, TextWords
  <2>3. q # 0 BY <2>1
  <2>4. QED BY <2>1, <2>2, <2>3
<1>6. ReaderAt(q)' BY <1>1, <1>2, <1>4, <1>5 DEF ReaderAt
<1>7. LinksTo(q)'
  <2>1. q \notin Linking(text) BY <1>4, <1>5, LinkingWords
  <2>2. LinksTo(q) BY <2>1, LinksKept
  <2>3. QED BY <2>2, <1>1, <1>3 DEF LinksTo
<1>8. QED BY <1>2, <1>3, <1>6, <1>7

\* A name with a layer links that layer and the one of the word's parent.
LEMMA LayerLinked ==
  ASSUME TypeOK, NEW p, NEW q, Reads(p, q), LinkNamed, ReaderAt(p), LinksTo(p),
         text[q].name # Null
  PROVE  /\ pLayer' \in Layer
         /\ upper' \in [Layer -> Seq(Layer)] /\ under' \in [Layer -> Layer \cup {Null}]
         /\ ReaderAt(q)' /\ LinksTo(q)'
<1> DEFINE top == Top
<1> DEFINE layer == pLayer'
<1> DEFINE above(n) == WordsAbove(text, n)
<1> DEFINE below(n) == WordsBelow(text, n)
<1>1. /\ text' = text /\ stack' = stack /\ layer = GetLayer(text[q].name)
      /\ Named(text[q]) /\ text[q].mode \in Mode
      /\ \/ text[q].mode = "*" /\ SetUpperUnderLayer(top, layer)
         \/ text[q].mode = "+" /\ SetUpperLayer(top, layer) /\ under' = under
         \/ text[q].mode = "-" /\ SetUnderLayer(top, layer) /\ upper' = upper
      /\ top \in Layer /\ NameOf(top) = text[Parent(text, q)].name
      /\ \E path : StackIs(q, path)'
  BY NamedWord
<1>2. /\ p \in Nat \ {0} /\ q \in 2 .. Len(text) /\ text \in Seq(Word) /\ Len(text) \in Nat
      /\ Intact(text, p)
  <2>1. pLayer # Null BY DEF LinkNamed
  <2>2. QED BY <2>1, LayerRead
<1>3. q \in 1 .. Len(text) /\ p \in Nat /\ q \in Nat /\ q # 0 /\ (q = p \/ q = p + 1)
      /\ (text[q].mode # "-" => q = p + 1)
  BY <1>2 DEF Reads
<1>4. layer \in Layer /\ Created[layer] = text[q].name
  <2>1. text \in Text BY DEF Reads
  <2>2. text[q].name \in Name \cup {Null} BY <2>1, <1>3, TextWords
  <2>3. text[q].name \in Name BY <2>2
  <2>4. QED BY <2>3, <1>1, LayerFound DEF Reads
<1>5. layer # Null /\ NameOf(layer) = text[q].name BY <1>4, LayerNames
<1>6. Created[top] = text[Parent(text, q)].name BY <1>1, LayerNames
<1>7. Intact(text, q) BY <1>2, IntactNext
<1>8. q \in Linking(text) BY <1>1, <1>2, <1>3, <1>7, LinkingWords
<1>9. ReaderAt(q)' BY <1>1, <1>3, <1>5, <1>7 DEF ReaderAt
<1>10. upper \in [Layer -> Seq(Layer)] /\ under \in [Layer -> Layer \cup {Null}]
  BY DEF TypeOK
<1>11. ASSUME NEW l \in Layer
       PROVE  /\ NamesOf(upper[l]) = Listed(text, UpTo(above(Created[l]), p))
              /\ NameOf(under[l]) = Placed(text, UpTo(below(Created[l]), p))
  BY DEF LinksTo
<1>12. ASSUME NEW n
       PROVE  /\ above(n) \in SUBSET (Nat \ {0}) /\ below(n) \in SUBSET (Nat \ {0})
              /\ q \in above(n) <=> text[q].mode \in {"*", "+"} /\ Created[top] = n
              /\ q \in below(n) <=> \/ text[q].mode = "*" /\ Created[layer] = n
                                    \/ text[q].mode = "-" /\ Created[top] = n
  BY <1>2, <1>3, <1>4, <1>6, <1>8, LinkingWords
<1> HIDE DEF top, layer, above, below
<1>13. ASSUME NEW n, q \notin above(n)
       PROVE  UpTo(above(n), q) = UpTo(above(n), p)
  <2>1. above(n) \in SUBSET Nat BY <1>12
  <2>2. QED BY <2>1, <1>3, <1>13, WordsNext
<1>14. ASSUME NEW n, q \notin below(n)
       PROVE  UpTo(below(n), q) = UpTo(below(n), p)
  <2>1. below(n) \in SUBSET Nat BY <1>12
  <2>2. QED BY <2>1, <1>3, <1>14, WordsNext
<1>15. ASSUME NEW n, q \in below(n)
       PROVE  Placed(text, UpTo(below(n), q)) =
                IF text[q].mode = "*" THEN Created[top] ELSE Created[layer]
  <2>1. below(n) \in SUBSET Nat BY <1>12
  <2>2. q \in UpTo(below(n), q) /\ UpTo(below(n), q) \in SUBSET Nat
        /\ \A w \in UpTo(below(n), q) : w <= q
    BY <2>1, <1>3, <1>15 DEF UpTo
  <2>3. QED BY <2>2, <1>4, <1>6, PlacedLast
<1>16. ASSUME NEW l \in Layer, NEW s, q \in above(Created[l]), s = Append(upper[l], layer)
       PROVE  NamesOf(s) = Listed(text, UpTo(above(Created[l]), q))
  <2>1. q = p + 1
    <3>1. text[q].mode \in {"*", "+"} BY <1>12, <1>16
    <3>2. QED BY <3>1, <1>3
  <2>2. above(Created[l]) \in SUBSET (Nat \ {0}) /\ p + 1 \in above(Created[l])
    BY <2>1, <1>12, <1>16
  <2>3. upper[l] \in Seq(Layer) /\ layer \in Layer /\ NameOf(layer) = text[p + 1].name
    BY <2>1, <1>4, <1>5, <1>10
  <2>4. NamesOf(upper[l]) = Listed(text, UpTo(above(Created[l]), p)) BY <1>11
  <2>5. NamesOf(Append(upper[l], layer)) = Listed(text, UpTo(above(Created[l]), p + 1))
    BY <2>2, <2>3, <2>4, <1>3, UpperNext
  <2>6. QED BY <2>1, <2>5, <1>16
\* Which links change.
<1>17. /\ upper' \in [Layer -> Seq(Layer)]
       /\ \A l \in Layer : upper'[l] =
            IF text[q].mode \in {"*", "+"} /\ l = top THEN Append(upper[l], layer) ELSE upper[l]
  <2>1. upper' = IF text[q].mode \in {"*", "+"}
                 THEN [upper EXCEPT ![top] = Append(@, layer)] ELSE upper
    BY <1>1, <1>5 DEF SetUpperUnderLayer, SetUpperLayer, SetUnderLayer
  <2>2. Append(upper[top], layer) \in Seq(Layer) BY <1>1, <1>4, <1>10
  <2>3. QED BY <2>1, <2>2, <1>1, <1>10
<1>18. /\ under' \in [Layer -> Layer \cup {Null}]
       /\ \A l \in Layer : under'[l] =
            IF text[q].mode = "*" /\ l = layer THEN top
            ELSE IF text[q].mode = "-" /\ l = top THEN layer ELSE under[l]
  <2>1. top # Null BY <1>1, LayerNames
  <2>2. under' = IF text[q].mode = "*" THEN [under EXCEPT ![layer] = top]
                 ELSE IF text[q].mode = "-" THEN [under EXCEPT ![top] = layer] ELSE under
    BY <2>1, <1>1, <1>5 DEF SetUpperUnderLayer, SetUpperLayer, SetUnderLayer
  <2>3. QED BY <2>2, <1>1, <1>4, <1>10
<1>19. ASSUME NEW l \in Layer
       PROVE  NamesOf(upper'[l]) = Listed(text, UpTo(above(Created[l]), q))
  <2>1. q \in above(Created[l]) <=> text[q].mode \in {"*", "+"} /\ l = top
    BY <1>1, <1>12, LayerNames
  <2>2. CASE q \in above(Created[l])
    <3>1. upper'[l] = Append(upper[l], layer) BY <2>1, <2>2, <1>17
    <3>2. QED BY <3>1, <2>2, <1>16
  <2>3. CASE q \notin above(Created[l])
    <3>1. upper'[l] = upper[l] BY <2>1, <2>3, <1>17
    <3>2. QED BY <3>1, <2>3, <1>11, <1>13
  <2>4. QED BY <2>2, <2>3
<1>20. ASSUME NEW l \in Layer
       PROVE  NameOf(under'[l]) = Placed(text, UpTo(below(Created[l]), q))
  <2>1. q \in below(Created[l]) <=> \/ text[q].mode = "*" /\ l = layer
                                    \/ text[q].mode = "-" /\ l = top
    BY <1>1, <1>4, <1>12, LayerNames
  <2>2. CASE q \in below(Created[l])
    <3>1. under'[l] = IF text[q].mode = "*" THEN top ELSE layer BY <2>1, <2>2, <1>18
    <3>2. NameOf(top) = Created[top] /\ NameOf(layer) = Created[layer]
      BY <1>1, <1>4, LayerNames
    <3>3. QED BY <3>1, <3>2, <2>2, <1>15
  <2>3. CASE q \notin below(Created[l])
    <3>1. under'[l] = under[l] BY <2>1, <2>3, <1>18
    <3>2. QED BY <3>1, <2>3, <1>11, <1>14
  <2>4. QED BY <2>2, <2>3
<1>21. LinksTo(q)' BY <1>1, <1>19, <1>20 DEF LinksTo, above, below
<1>22. pLayer' \in Layer BY <1>4 DEF layer
<1>23. QED BY <1>9, <1>17, <1>18, <1>21, <1>22

-----------------------------------------------------------------------------
(* Every behaviour. *)

\* Every step of LinkLayer keeps the invariant.
LEMMA LinkStep ==
  ASSUME IInv, LinkLayer
  PROVE  IInv'
<1>1. TypeOK /\ Shape BY DEF IInv
<1>2. PICK f : ReadSoFar(f) BY DEF IInv
<1>3. PICK p, q : p = LastRead(f) /\ q = f[pNode] OBVIOUS
<1>4. Reading BY DEF LinkLayer, LinkFirst, LinkOpen, LinkClose, LinkNamed
<1>5. /\ Copied(f) /\ Scanned(f) /\ ReaderAt(p) /\ LinksTo(p)
      /\ Reads(p, q) /\ Shape' /\ Copied(f)' /\ Scanned(f)' /\ LastRead(f)' = q
  <2>1. Copied(f) /\ Scanned(f) /\ ReaderAt(p) /\ LinksTo(p) BY <1>2, <1>3 DEF ReadSoFar
  <2>2. QED BY <2>1, <1>1, <1>3, <1>4, NodeRead
<1>6. /\ stack' \in Seq(Layer) /\ Len(stack') <= MAX_LAYER_NUMBER
      /\ pLayer' \in Layer \cup {Null}
      /\ upper' \in [Layer -> Seq(Layer)] /\ under' \in [Layer -> Layer \cup {Null}]
      /\ ReaderAt(q)' /\ LinksTo(q)'
  <2>1. /\ stack \in Seq(Layer) /\ Len(stack) <= MAX_LAYER_NUMBER
        /\ pLayer \in Layer \cup {Null}
        /\ upper \in [Layer -> Seq(Layer)] /\ under \in [Layer -> Layer \cup {Null}]
    BY <1>1 DEF TypeOK
  <2>2. CASE LinkFirst
    <3>1. stack' = stack /\ upper' = upper /\ under' = under BY <2>2 DEF LinkFirst
    <3>2. pLayer' \in Layer \cup {Null} /\ ReaderAt(q)' /\ LinksTo(q)'
      BY <1>1, <1>5, <2>2, FirstRead
    <3>3. QED BY <3>1, <3>2, <2>1
  <2>3. CASE LinkOpen
    <3>1. pLayer' = pLayer /\ upper' = upper /\ under' = under BY <2>3 DEF LinkOpen
    <3>2. /\ stack' \in Seq(Layer) /\ Len(stack') <= MAX_LAYER_NUMBER
          /\ ReaderAt(q)' /\ LinksTo(q)'
      BY <1>1, <1>5, <2>3, OpenRead
    <3>3. QED BY <3>1, <3>2, <2>1
  <2>4. CASE LinkClose
    <3>1. pLayer' = pLayer /\ upper' = upper /\ under' = under BY <2>4 DEF LinkClose
    <3>2. /\ stack' \in Seq(Layer) /\ Len(stack') <= MAX_LAYER_NUMBER
          /\ ReaderAt(q)' /\ LinksTo(q)'
      BY <1>1, <1>5, <2>4, CloseRead
    <3>3. QED BY <3>1, <3>2, <2>1
  <2>5. CASE LinkNamed
    <3>1. stack' = stack BY <2>5 DEF LinkNamed
    <3>2. CASE text[q].name = Null
      <4>1. pLayer' = Null /\ upper' = upper /\ under' = under /\ ReaderAt(q)' /\ LinksTo(q)'
        BY <1>1, <1>5, <2>5, <3>2, NoLayerRead
      <4>2. QED BY <4>1, <3>1, <2>1
    <3>3. CASE text[q].name # Null
      <4>1. /\ pLayer' \in Layer
            /\ upper' \in [Layer -> Seq(Layer)] /\ under' \in [Layer -> Layer \cup {Null}]
            /\ ReaderAt(q)' /\ LinksTo(q)'
        BY <1>1, <1>5, <2>5, <3>3, LayerLinked
      <4>2. QED BY <4>1, <3>1, <2>1
    <3>4. QED BY <3>2, <3>3
  <2>6. QED BY <2>2, <2>3, <2>4, <2>5 DEF LinkLayer
<1>7. TypeOK'
  <2>1. /\ pNode \in 1 .. Len(nodes) /\ pNode' = pNode + 1 /\ nodes' = nodes
        /\ mp_aLayers' = mp_aLayers /\ pcList' = pcList /\ text' = text
    BY <1>1, <1>4 DEF Reading, TypeOK
  <2>2. /\ mp_aLayers \in Seq(Layer) /\ Len(mp_aLayers) <= Len(Created)
        /\ pcList \in [word : 1 .. Len(text) + 1, blanks : Nat]
        /\ nodes \in Seq(Word) /\ text \in Seq(Word)
    BY <1>1 DEF TypeOK
  <2>3. pNode' \in 1 .. Len(nodes) + 1
    <3>1. Len(nodes) \in Nat BY <2>2
    <3>2. QED BY <2>1, <3>1
  <2>4. QED BY <2>1, <2>2, <2>3, <1>6 DEF TypeOK
<1>8. ReaderAt(LastRead(f))' /\ LinksTo(LastRead(f))'
  BY <1>5, <1>6
<1>9. ReadSoFar(f)' BY <1>5, <1>8 DEF ReadSoFar
<1>10. QED BY <1>5, <1>7, <1>9 DEF IInv

LEMMA AddStep ==
  ASSUME IInv, AddLayer
  PROVE  IInv'
<1>1. /\ Len(mp_aLayers) < Len(Created)
      /\ mp_aLayers' = Append(mp_aLayers, Len(mp_aLayers) + 1)
      /\ nodes' = nodes /\ pcList' = pcList /\ text' = text /\ pNode' = pNode
      /\ pLayer' = pLayer /\ stack' = stack /\ upper' = upper /\ under' = under
  BY DEF AddLayer
<1>2. TypeOK /\ Shape BY DEF IInv
<1>3. PICK f : ReadSoFar(f) BY DEF IInv
<1>4. /\ mp_aLayers \in Seq(Layer) /\ Len(mp_aLayers) \in Nat /\ Len(Created) \in Nat
      /\ mp_aLayers = [i \in 1 .. Len(mp_aLayers) |-> i]
  BY <1>2, LinkingAssumption DEF TypeOK, Shape
<1>5. /\ mp_aLayers' \in Seq(Layer) /\ Len(mp_aLayers') = Len(mp_aLayers) + 1
      /\ Len(mp_aLayers') <= Len(Created)
      /\ mp_aLayers' = [i \in 1 .. Len(mp_aLayers') |-> i]
  <2>1. Len(mp_aLayers) + 1 \in Layer BY <1>1, <1>4 DEF Layer
  <2>2. /\ mp_aLayers' \in Seq(Layer) /\ Len(mp_aLayers') = Len(mp_aLayers) + 1
        /\ DOMAIN mp_aLayers' = 1 .. Len(mp_aLayers')
        /\ \A i \in 1 .. Len(mp_aLayers) : mp_aLayers'[i] = mp_aLayers[i]
        /\ mp_aLayers'[Len(mp_aLayers) + 1] = Len(mp_aLayers) + 1
    BY <2>1, <1>1, <1>4
  <2>3. \A i \in 1 .. Len(mp_aLayers) : mp_aLayers[i] = i BY <1>4
  <2>4. \A i \in 1 .. Len(mp_aLayers') : mp_aLayers'[i] = i BY <2>2, <2>3, <1>4
  <2>5. mp_aLayers' = [i \in 1 .. Len(mp_aLayers') |-> mp_aLayers'[i]] BY <2>2
  <2>6. QED BY <2>2, <2>4, <2>5, <1>1, <1>4
<1>6. TypeOK' BY <1>1, <1>2, <1>5 DEF TypeOK
<1>7. Shape'
  <2>1. nodes = << >> BY <1>1, <1>2, <1>4 DEF Shape
  <2>2. QED BY <2>1, <1>1, <1>2, <1>5 DEF Shape, ListMade
<1>8. ReadSoFar(f)'
  <2>1. Copied(f)' /\ Scanned(f)' BY <1>1, <1>3 DEF ReadSoFar, Copied, Scanned
  <2>2. ReaderAt(LastRead(f))' /\ LinksTo(LastRead(f))'
    BY <1>1, <1>3 DEF ReadSoFar, ReaderAt, LinksTo, LastRead, StackIs
  <2>3. QED BY <2>1, <2>2 DEF ReadSoFar
<1>9. QED BY <1>6, <1>7, <1>8 DEF IInv

\* MakeList copies the next word, or the same once more.
LEMMA MakeStep ==
  ASSUME IInv, MakeList
  PROVE  IInv'
<1>1. PICK w, b : w = pcList.word /\ b = pcList.blanks OBVIOUS
<1>2. TypeOK /\ Shape BY DEF IInv
<1>3. PICK f : ReadSoFar(f) BY DEF IInv
<1>4. /\ Len(mp_aLayers) = Len(Created)
      /\ nodes' = Append(nodes, text[w])
      /\ mp_aLayers' = mp_aLayers /\ text' = text /\ pNode' = pNode
      /\ pLayer' = pLayer /\ stack' = stack /\ upper' = upper /\ under' = under
  BY <1>1 DEF MakeList
<1>5. /\ nodes \in Seq(Word) /\ text \in Seq(Word) /\ Len(nodes) \in Nat /\ Len(text) \in Nat
      /\ w \in 1 .. Len(text) /\ b \in Nat /\ pcList = [word |-> w, blanks |-> b]
  <2>1. nodes \in Seq(Word) /\ text \in Seq(Word)
        /\ pcList \in [word : 1 .. Len(text) + 1, blanks : Nat]
    BY <1>2 DEF TypeOK
  <2>2. w \in DOMAIN text BY <1>1 DEF MakeList
  <2>3. QED BY <2>1, <2>2, <1>1
<1>6. PICK v, c : /\ pcList' = [word |-> v, blanks |-> c]
                  /\ v = IF b > 0 THEN w ELSE w + 1
                  /\ c = IF b > 0 THEN b - 1
                         ELSE IF w = Len(text) THEN 0 ELSE text[w + 1].blanks - 1
  <2>1. pcList' = IF b > 0 THEN [pcList EXCEPT !.blanks = @ - 1]
                  ELSE [word |-> w + 1,
                        blanks |-> IF w = Len(text) THEN 0 ELSE text[w + 1].blanks - 1]
    BY <1>1 DEF MakeList
  <2>2. [pcList EXCEPT !.blanks = @ - 1] = [word |-> w, blanks |-> b - 1] BY <1>5
  <2>3. QED BY <2>1, <2>2
<1>7. /\ v \in 1 .. Len(text) + 1 /\ c \in Nat
      /\ v = w + 1 \/ (v = w /\ text[w].mode = "-")
      /\ v <= Len(text) /\ c > 0 => text[v].mode = "-"
  <2>1. CASE b > 0
    <3>1. v = w /\ c = b - 1 BY <2>1, <1>6
    <3>2. text[w].mode = "-"
      <4>1. w <= Len(text) BY <1>5
      <4>2. QED BY <4>1, <2>1, <1>1, <1>3 DEF ReadSoFar, Scanned
    <3>3. QED BY <3>1, <3>2, <2>1, <1>5
  <2>2. CASE ~(b > 0) /\ w = Len(text)
    <3>1. v = w + 1 /\ c = 0 BY <2>2, <1>6
    <3>2. QED BY <3>1, <2>2, <1>5
  <2>3. CASE ~(b > 0) /\ w # Len(text)
    <3>1. v = w + 1 /\ c = text[v].blanks - 1 BY <2>3, <1>6
    <3>2. v \in 1 .. Len(text) /\ v > 1 BY <3>1, <2>3, <1>5
    <3>3. text[v].blanks \in Nat /\ text[v].blanks >= 1
          /\ (text[v].blanks # 1 => text[v].mode = "-")
      <4>1. text \in Text BY <1>2 DEF Shape
      <4>2. QED BY <4>1, <3>2, TextWords
    <3>4. QED BY <3>1, <3>2, <3>3
  <2>4. QED BY <2>1, <2>2, <2>3
<1>8. /\ nodes' \in Seq(Word) /\ Len(nodes') = Len(nodes) + 1 /\ nodes' # << >>
      /\ nodes'[Len(nodes) + 1] = text[w]
      /\ \A k \in 1 .. Len(nodes) : nodes'[k] = nodes[k]
  <2>1. text[w] \in Word BY <1>5
  <2>2. QED BY <2>1, <1>4, <1>5
<1>9. pNode = 1
  <2>1. ~ListMade BY <1>1, <1>5 DEF ListMade
  <2>2. QED BY <2>1, <1>2 DEF Shape
<1>10. TypeOK'
  <2>1. pNode' \in 1 .. Len(nodes') + 1 BY <1>4, <1>5, <1>8, <1>9
  <2>2. pcList' \in [word : 1 .. Len(text) + 1, blanks : Nat] BY <1>6, <1>7
  <2>3. QED BY <2>1, <2>2, <1>2, <1>4, <1>8 DEF TypeOK
<1>11. Shape' BY <1>2, <1>4, <1>9 DEF Shape
<1> DEFINE g == [k \in 1 .. Len(nodes) + 1 |-> IF k = Len(nodes) + 1 THEN w ELSE f[k]]
<1>12. PICK h : h = g OBVIOUS
<1>13. /\ f \in [1 .. Len(nodes) -> 1 .. Len(text)]
       /\ h \in [1 .. Len(nodes) + 1 -> 1 .. Len(text)]
       /\ h[Len(nodes) + 1] = w
       /\ \A k \in 1 .. Len(nodes) : h[k] = f[k]
  <2>1. f \in [1 .. Len(nodes) -> 1 .. Len(text)] BY <1>3 DEF ReadSoFar, Copied
  <2>2. \A k \in 1 .. Len(nodes) + 1 : k = Len(nodes) + 1 \/ k \in 1 .. Len(nodes) BY <1>5
  <2>3. \A k \in 1 .. Len(nodes) : k \in 1 .. Len(nodes) + 1 /\ k # Len(nodes) + 1 BY <1>5
  <2>4. Len(nodes) + 1 \in 1 .. Len(nodes) + 1 BY <1>5
  <2>5. QED BY <2>1, <2>2, <2>3, <2>4, <1>5, <1>12
<1> HIDE DEF g
<1>14. Copied(h)'
  <2>1. h \in [1 .. Len(nodes') -> 1 .. Len(text')] BY <1>4, <1>8, <1>13
  <2>2. ASSUME NEW k \in 1 .. Len(nodes')
        PROVE  /\ nodes'[k] = text'[h[k]]
               /\ k = 1 => h[k] = 1
               /\ k > 1 => h[k] = h[k - 1] + 1 \/ (h[k] = h[k - 1] /\ text'[h[k]].mode = "-")
    <3>1. CASE k \in 1 .. Len(nodes)
      <4>1. /\ nodes[k] = text[f[k]]
            /\ k = 1 => f[k] = 1
            /\ k > 1 => f[k] = f[k - 1] + 1 \/ (f[k] = f[k - 1] /\ text[f[k]].mode = "-")
        BY <3>1, <1>3 DEF ReadSoFar, Copied
      <4>2. nodes'[k] = nodes[k] /\ h[k] = f[k] BY <3>1, <1>8, <1>13
      <4>3. k > 1 => h[k - 1] = f[k - 1]
        <5>1. k > 1 => k - 1 \in 1 .. Len(nodes) BY <3>1, <1>5
        <5>2. QED BY <5>1, <1>13
      <4>4. QED BY <4>1, <4>2, <4>3, <1>4
    <3>2. CASE k = Len(nodes) + 1
      <4>1. nodes'[k] = text[w] /\ h[k] = w BY <3>2, <1>8, <1>13
      <4>2. k = 1 => w = 1
        <5>1. k = 1 => nodes = << >> BY <3>2, <1>5
        <5>2. QED BY <5>1, <1>1, <1>3 DEF ReadSoFar, Scanned
      <4>3. k > 1 => w = h[k - 1] + 1 \/ (w = h[k - 1] /\ text[w].mode = "-")
        <5>1. SUFFICES ASSUME k > 1
              PROVE  w = h[k - 1] + 1 \/ (w = h[k - 1] /\ text[w].mode = "-")
          OBVIOUS
        <5>2. k - 1 = Len(nodes) /\ Len(nodes) \in 1 .. Len(nodes) /\ nodes # << >>
          BY <5>1, <3>2, <1>5
        <5>3. w = f[Len(nodes)] + 1 \/ (w = f[Len(nodes)] /\ text[w].mode = "-")
          BY <5>2, <1>1, <1>3 DEF ReadSoFar, Scanned
        <5>4. QED BY <5>2, <5>3, <1>13
      <4>4. QED BY <4>1, <4>2, <4>3, <1>4
    <3>3. QED BY <3>1, <3>2, <1>5, <1>8
  <2>3. QED BY <2>1, <2>2 DEF Copied
<1>15. Scanned(h)'
  <2>1. pcList'.word = v /\ pcList'.blanks = c BY <1>6
  <2>2. h[Len(nodes')] = w BY <1>8, <1>13
  <2>3. QED BY <2>1, <2>2, <1>4, <1>7, <1>8 DEF Scanned
<1>16. ReaderAt(0)' /\ LinksTo(0)'
  <2>1. ReaderAt(0) /\ LinksTo(0) BY <1>3, <1>9 DEF ReadSoFar, LastRead
  <2>2. QED BY <2>1, <1>4 DEF ReaderAt, LinksTo, StackIs
<1>17. LastRead(h)' = 0 BY <1>4, <1>9 DEF LastRead
<1>18. ReadSoFar(h)' BY <1>14, <1>15, <1>16, <1>17 DEF ReadSoFar
<1>19. QED BY <1>10, <1>11, <1>18 DEF IInv

LEMMA InitHolds ==
  ASSUME Init
  PROVE  IInv
<1>1. /\ mp_aLayers = << >> /\ pcList = [word |-> 1, blanks |-> 0] /\ nodes = << >>
      /\ pNode = 1 /\ pLayer = Null /\ stack = << >>
      /\ upper = [l \in Layer |-> << >>] /\ under = [l \in Layer |-> Null]
      /\ text \in Text
  BY DEF Init
<1>2. text \in Seq(Word) /\ Len(text) \in Nat \ {0} BY <1>1, TextWords
<1>3. TypeOK
  <2>1. mp_aLayers \in Seq(Layer) /\ Len(mp_aLayers) <= Len(Created)
    BY <1>1, LinkingAssumption
  <2>2. pcList \in [word : 1 .. Len(text) + 1, blanks : Nat] BY <1>1, <1>2
  <2>3. nodes \in Seq(Word) /\ pNode \in 1 .. Len(nodes) + 1 BY <1>1
  <2>4. stack \in Seq(Layer) /\ Len(stack) <= MAX_LAYER_NUMBER BY <1>1, LinkingAssumption
  <2>5. upper \in [Layer -> Seq(Layer)] /\ under \in [Layer -> Layer \cup {Null}]
    <3>1. << >> \in Seq(Layer) OBVIOUS
    <3>2. QED BY <3>1, <1>1
  <2>6. QED BY <2>1, <2>2, <2>3, <2>4, <2>5, <1>1, <1>2 DEF TypeOK
<1>4. Shape
  <2>1. mp_aLayers = [i \in 1 .. Len(mp_aLayers) |-> i] BY <1>1
  <2>2. QED BY <2>1, <1>1 DEF Shape
<1>5. PICK f : f = [k \in 1 .. Len(nodes) |-> 1] OBVIOUS
<1>6. Copied(f)
  <2>1. 1 .. Len(nodes) = {} BY <1>1
  <2>2. f \in [1 .. Len(nodes) -> 1 .. Len(text)] BY <2>1, <1>5
  <2>3. QED BY <2>1, <2>2 DEF Copied
<1>7. Scanned(f) BY <1>1 DEF Scanned
<1>8. LastRead(f) = 0 BY <1>1 DEF LastRead
<1>9. ReaderAt(0) BY <1>1 DEF ReaderAt
<1>10. LinksTo(0)
  <2>1. ASSUME NEW W \in SUBSET (Nat \ {0}) PROVE UpTo(W, 0) = {}
    <3>1. \A i \in W : ~(i <= 0)
      <4>1. ASSUME NEW i \in W PROVE ~(i <= 0)
        <5>1. i \in Nat \ {0} OBVIOUS
        <5>2. QED BY <5>1
      <4>2. QED BY <4>1
    <3>2. QED BY <3>1 DEF UpTo
  <2>2. Listed(text, {}) = << >>
    <3>1. Cardinality({}) = 0 BY FS_EmptySet
    <3>2. 1 .. Cardinality({}) = {} BY <3>1
    <3>3. QED BY <3>2 DEF Listed
  <2>3. NamesOf(<< >>) = << >> BY DEF NamesOf
  <2>4. Placed(text, {}) = Null BY DEF Placed
  <2>5. NameOf(Null) = Null BY DEF NameOf
  <2>6. ASSUME NEW n
        PROVE  UpTo(WordsAbove(text, n), 0) = {} /\ UpTo(WordsBelow(text, n), 0) = {}
    <3>1. 1 \in 1 .. Len(text) BY <1>2
    <3>2. WordsAbove(text, n) \in SUBSET (Nat \ {0}) /\ WordsBelow(text, n) \in SUBSET (Nat \ {0})
      BY <3>1, <1>2, LinkingWords
    <3>3. QED BY <3>2, <2>1
  <2>7. QED BY <2>2, <2>3, <2>4, <2>5, <2>6, <1>1 DEF LinksTo
<1>11. ReadSoFar(f) BY <1>6, <1>7, <1>8, <1>9, <1>10 DEF ReadSoFar
<1>12. QED BY <1>3, <1>4, <1>11 DEF IInv

\* The words read so far account for nodes, stack and links, in every behaviour.
THEOREM Invariance == Spec => []IInv
<1>1. Init => IInv BY InitHolds
<1>2. IInv /\ [Next]_vars => IInv'
  <2>1. SUFFICES ASSUME IInv, [Next]_vars PROVE IInv' OBVIOUS
  <2>2. CASE AddLayer BY <2>1, <2>2, AddStep
  <2>3. CASE MakeList BY <2>1, <2>3, MakeStep
  <2>4. CASE LinkLayer BY <2>1, <2>4, LinkStep
  <2>5. CASE UNCHANGED vars
    <3>1. PICK f : ReadSoFar(f) BY <2>1 DEF IInv
    <3>2. ReadSoFar(f)'
      BY <2>5, <3>1 DEF vars, ReadSoFar, Copied, Scanned, ReaderAt, LinksTo, LastRead, StackIs
    <3>3. TypeOK' /\ Shape' BY <2>1, <2>5 DEF vars, IInv, TypeOK, Shape, ListMade
    <3>4. QED BY <3>2, <3>3 DEF IInv
  <2>6. QED BY <2>1, <2>2, <2>3, <2>4, <2>5 DEF Next
<1>3. QED BY <1>1, <1>2, PTL DEF Spec

\* Every variable has its type; above all, LinkLayer never needs more of mp_Stack
\* than MAX_LAYER_NUMBER places, though Push would take one more.
THEOREM TypeCorrect == Spec => []TypeOK
<1>1. IInv => TypeOK BY DEF IInv
<1>2. QED BY <1>1, Invariance, PTL

\* At the end all words are read.
LEMMA ReadAsWritten ==
  ASSUME IInv
  PROVE  LinkedAsWritten
<1>1. SUFFICES ASSUME Linked PROVE \A l \in Layer :
        /\ [i \in DOMAIN upper[l] |-> NameOf(upper[l][i])] = Above(text, Created[l])
        /\ NameOf(under[l]) = Below(text, Created[l])
  BY DEF LinkedAsWritten
<1>2. TypeOK /\ Shape BY DEF IInv
<1>3. PICK f : ReadSoFar(f) BY DEF IInv
<1>4. text \in Seq(Word) /\ Len(text) \in Nat \ {0} BY <1>2, TextWords DEF Shape
<1>5. LastRead(f) = Len(text)
  <2>1. pcList.word > Len(text) /\ pNode = Len(nodes) + 1 BY <1>1 DEF Linked, ListMade
  <2>2. pcList.word \in 1 .. Len(text) + 1 /\ nodes \in Seq(Word) BY <1>2 DEF TypeOK
  <2>3. nodes # << >>
    <3>1. nodes = << >> => pcList.word = 1 BY <1>3 DEF ReadSoFar, Scanned
    <3>2. QED BY <3>1, <2>1, <1>4
  <2>4. Len(nodes) \in 1 .. Len(nodes) /\ pNode # 1 /\ pNode - 1 = Len(nodes)
    BY <2>1, <2>2, <2>3
  <2>5. LastRead(f) = f[Len(nodes)] BY <2>4 DEF LastRead
  <2>6. f[Len(nodes)] \in 1 .. Len(text) BY <2>4, <1>3 DEF ReadSoFar, Copied
  <2>7. pcList.word = f[Len(nodes)] + 1 \/ pcList.word = f[Len(nodes)]
    BY <2>3, <1>3 DEF ReadSoFar, Scanned
  <2>8. QED BY <2>1, <2>2, <2>5, <2>6, <2>7, <1>4
<1>6. ASSUME NEW W \in SUBSET Linking(text) PROVE UpTo(W, Len(text)) = W
  <2>1. \A i \in W : i \in 1 .. Len(text) BY <1>4 DEF Linking
  <2>2. QED BY <2>1, <1>4 DEF UpTo
<1>7. ASSUME NEW n
      PROVE  /\ UpTo(WordsAbove(text, n), Len(text)) = WordsAbove(text, n)
             /\ UpTo(WordsBelow(text, n), Len(text)) = WordsBelow(text, n)
  <2>1. WordsAbove(text, n) \in SUBSET Linking(text) BY DEF WordsAbove
  <2>2. WordsBelow(text, n) \in SUBSET Linking(text) BY DEF WordsBelow
  <2>3. QED BY <2>1, <2>2, <1>6
<1>8. LinksTo(Len(text)) BY <1>3, <1>5 DEF ReadSoFar
<1>9. QED BY <1>7, <1>8 DEF LinksTo, NamesOf, Above, Below

\* Whatever well-formed text ConnectLayers is given, each layer ends up above and
\* below the layers that the text says, in the order of the text.
THEOREM WrittenLinks == Spec => []LinkedAsWritten
<1>1. IInv => LinkedAsWritten BY ReadAsWritten
<1>2. QED BY <1>1, Invariance, PTL

-----------------------------------------------------------------------------
(* The way down. *)

LEMMA DepthSplit ==
  ASSUME NEW t, NEW m \in Nat, NEW k \in Nat, m <= k
  PROVE  Depth(t, 1, k) = Depth(t, 1, m) + Depth(t, m + 1, k)
<1> DEFINE A(x) == {j \in 1 .. m : t[j].mode = x}
<1> DEFINE B(x) == {j \in m + 1 .. k : t[j].mode = x}
<1> DEFINE C(x) == {j \in 1 .. k : t[j].mode = x}
<1>1. ASSUME NEW x
      PROVE  /\ Cardinality(A(x)) \in Nat /\ Cardinality(B(x)) \in Nat
             /\ Cardinality(C(x)) = Cardinality(A(x)) + Cardinality(B(x))
  <2>1. IsFiniteSet(1 .. m) /\ IsFiniteSet(m + 1 .. k) BY FS_Interval
  <2>2. A(x) \in SUBSET (1 .. m) /\ B(x) \in SUBSET (m + 1 .. k) OBVIOUS
  <2>3. IsFiniteSet(A(x)) /\ IsFiniteSet(B(x)) BY <2>1, <2>2, FS_Subset
  <2>4. C(x) = A(x) \cup B(x)
    <3>1. 1 .. k = (1 .. m) \cup (m + 1 .. k) OBVIOUS
    <3>2. QED BY <3>1
  <2>5. A(x) \cap B(x) = {}
    <3>1. (1 .. m) \cap (m + 1 .. k) = {} OBVIOUS
    <3>2. QED BY <3>1
  <2> HIDE DEF A, B, C
  <2>6. Cardinality(A(x)) \in Nat /\ Cardinality(B(x)) \in Nat BY <2>3, FS_CardinalityType
  <2>7. Cardinality(A(x) \cup B(x)) =
          Cardinality(A(x)) + Cardinality(B(x)) - Cardinality(A(x) \cap B(x))
    BY <2>3, FS_Union
  <2>8. QED BY <2>4, <2>5, <2>6, <2>7, FS_EmptySet
<1>2. /\ Opens(t, 1, m) = Cardinality(A("(")) /\ Closes(t, 1, m) = Cardinality(A(")"))
      /\ Opens(t, m + 1, k) = Cardinality(B("(")) /\ Closes(t, m + 1, k) = Cardinality(B(")"))
      /\ Opens(t, 1, k) = Cardinality(C("(")) /\ Closes(t, 1, k) = Cardinality(C(")"))
  BY DEF Opens, Closes
<1> HIDE DEF A, B, C
<1>3. QED BY <1>1, <1>2 DEF Depth

\* The words from which Parent takes the last.
Enclosing(t, i) ==
  {j \in 1 .. i - 2 :
     t[j + 1].mode = "(" /\ \A k \in j + 1 .. i - 1 : Opens(t, j + 1, k) > Closes(t, j + 1, k)}

\* Every word but the first one and the parentheses that open has a parent.
LEMMA ParentExists ==
  ASSUME NEW t \in Text, NEW i \in 2 .. Len(t), t[i].mode # "("
  PROVE  /\ Parent(t, i) \in Enclosing(t, i)
         /\ \A j \in Enclosing(t, i) : j <= Parent(t, i)
         /\ Parent(t, i) \in 1 .. i - 2 /\ Named(t[Parent(t, i)])
<1> DEFINE D(k) == Depth(t, 1, k)
<1>1. t \in Seq(Word) /\ Len(t) \in Nat /\ i \in Nat /\ i \in 1 .. Len(t) /\ i > 1
  <2>1. t \in Seq(Word) /\ Len(t) \in Nat BY TextWords
  <2>2. QED BY <2>1
<1>2. PICK n \in Nat : n = i - 1 /\ n >= 1 BY <1>1
<1>3. D(n) > 0 BY <1>1, <1>2, TextWords
<1>4. ASSUME NEW k \in Nat PROVE D(k) \in Int /\ D(k + 1) = D(k) + Turn(t[k + 1])
  <2>1. 1 \in Nat /\ 1 <= k + 1 OBVIOUS
  <2>2. QED BY <2>1, DepthStep
<1>5. D(0) = 0 BY DepthStep
<1> HIDE DEF D
<1>6. PICK m \in {k \in 0 .. n - 1 : D(k) < D(n)} :
        \A k \in {k \in 0 .. n - 1 : D(k) < D(n)} : m >= k
  <2> DEFINE L == {k \in 0 .. n - 1 : D(k) < D(n)}
  <2> DEFINE I == {k + 1 : k \in L}
  <2>1. 0 \in L BY <1>2, <1>3, <1>5
  <2>2. I \in SUBSET (1 .. n) /\ I # {} BY <2>1
  <2> HIDE DEF I
  <2>3. PICK x \in I : \A y \in I : x >= y BY <2>2, GreatestElement
  <2>4. PICK m \in L : x = m + 1 BY <2>3 DEF I
  <2>5. ASSUME NEW k \in L PROVE m >= k
    <3>1. k + 1 \in I BY DEF I
    <3>2. m + 1 >= k + 1 BY <2>3, <2>4, <3>1
    <3>3. QED BY <3>2
  <2>6. QED BY <2>4, <2>5
<1>7. m \in Nat /\ m + 1 <= n /\ D(m) < D(n) BY <1>6
<1>8. ASSUME NEW k \in m + 1 .. n PROVE D(k) >= D(n) /\ k \in Nat
  <2>1. k \in Nat /\ D(k) \in Int /\ D(n) \in Int BY <1>4, <1>7
  <2>2. CASE k = n BY <2>1, <2>2
  <2>3. CASE k # n
    <3>1. k \in 0 .. n - 1 /\ ~(m >= k) BY <2>1, <2>3, <1>7
    <3>2. ~(D(k) < D(n)) BY <3>1, <1>6
    <3>3. QED BY <3>2, <2>1
  <2>4. QED BY <2>2, <2>3
<1>9. t[m + 1].mode = "("
  <2>1. D(m + 1) >= D(n) BY <1>7, <1>8
  <2>2. D(m) \in Int /\ D(n) \in Int /\ D(m + 1) = D(m) + Turn(t[m + 1]) BY <1>4, <1>7
  <2>3. Turn(t[m + 1]) > 0
    <3>1. Turn(t[m + 1]) \in Int BY DEF Turn
    <3>2. QED BY <3>1, <2>1, <2>2, <1>7
  <2>4. QED BY <2>3 DEF Turn
<1>10. m \in Enclosing(t, i)
  <2>1. m # 0
    <3>1. SUFFICES ASSUME m = 0 PROVE FALSE OBVIOUS
    <3>2. t[1].mode = "(" BY <3>1, <1>9
    <3>3. 1 \in 1 .. Len(t) BY <1>1
    <3>4. t[1].mode = "" BY <3>3, TextWords
    <3>5. QED BY <3>2, <3>4, Zenon
  <2>2. m \in 1 .. i - 2 BY <2>1, <1>2, <1>7
  <2>3. ASSUME NEW k \in m + 1 .. i - 1 PROVE Opens(t, m + 1, k) > Closes(t, m + 1, k)
    <3>1. k \in Nat /\ m <= k /\ m + 1 <= k + 1 /\ D(k) >= D(n)
      <4>1. k \in m + 1 .. n BY <1>2
      <4>2. QED BY <4>1, <1>7, <1>8
    <3>2. D(k) = D(m) + Depth(t, m + 1, k) BY <3>1, <1>7, DepthSplit DEF D
    <3>3. D(m) \in Int /\ D(n) \in Int /\ D(k) \in Int /\ Depth(t, m + 1, k) \in Int
      BY <3>1, <1>4, <1>7, DepthStep
    <3>4. Depth(t, m + 1, k) > 0 BY <3>1, <3>2, <3>3, <1>7
    <3>5. m + 1 \in Nat BY <1>7
    <3>6. Opens(t, m + 1, k) > Closes(t, m + 1, k) <=> Depth(t, m + 1, k) > 0
      BY <3>1, <3>5, DepthStep
    <3>7. QED BY <3>4, <3>6
  <2>4. QED BY <2>2, <2>3, <1>9 DEF Enclosing
<1>11. Enclosing(t, i) \in SUBSET (1 .. n) /\ Enclosing(t, i) \in SUBSET Int
  BY <1>2 DEF Enclosing
<1>12. PICK x \in Enclosing(t, i) : \A y \in Enclosing(t, i) : x >= y
  BY <1>10, <1>11, GreatestElement
<1>13. Parent(t, i) = x
  <2>1. Parent(t, i) = Max(Enclosing(t, i)) BY DEF Parent, Enclosing
  <2>2. QED BY <2>1, <1>11, <1>12, MaxIs
<1>14. x \in 1 .. i - 2 /\ t[x + 1].mode = "(" BY <1>12 DEF Enclosing
<1>15. Named(t[x])
  <2>1. PICK y : y = x + 1 OBVIOUS
  <2>2. y \in 1 .. Len(t) /\ y - 1 = x /\ t[y].mode = "(" BY <2>1, <1>1, <1>14
  <2>3. Named(t[y - 1]) BY <2>2, TextWords
  <2>4. QED BY <2>2, <2>3
<1>16. QED
  <2>1. \A j \in Enclosing(t, i) : j <= x BY <1>11, <1>12
  <2>2. QED BY <2>1, <1>12, <1>13, <1>14, <1>15

\* What encloses a word behind q encloses q, if it begins in front of q.
LEMMA ParentNested ==
  ASSUME NEW t \in Text, NEW q \in 2 .. Len(t), NEW j \in 2 .. Len(t),
         t[q].mode # "(", t[j].mode # "(", q < j, Parent(t, j) < q
  PROVE  Parent(t, j) <= Parent(t, q)
<1> DEFINE x == Parent(t, j)
<1>1. x \in Enclosing(t, j) /\ x \in 1 .. j - 2 BY ParentExists
<1>2. /\ t[x + 1].mode = "("
      /\ \A k \in x + 1 .. j - 1 : Opens(t, x + 1, k) > Closes(t, x + 1, k)
  BY <1>1 DEF Enclosing
<1>3. x + 1 # q BY <1>2
<1>4. Len(t) \in Nat BY TextWords
<1>5. x \in 1 .. q - 2 /\ x + 1 .. q - 1 \subseteq x + 1 .. j - 1
  <2>1. x \in Nat /\ x >= 1 /\ q \in Nat /\ j \in Nat /\ x < q BY <1>1, <1>4
  <2> HIDE DEF x
  <2>2. QED BY <2>1, <1>3
<1>6. x \in Enclosing(t, q) BY <1>2, <1>5 DEF Enclosing
<1>7. QED BY <1>6, ParentExists

\* Word w puts the layer n on the one in front of its parentheses.
Star(t, n, w) == w \in Linking(t) /\ t[w].mode = "*" /\ t[w].name = n

Renewed(t, n) == \E i \in Linking(t) : t[i].mode = "-" /\ t[Parent(t, i)].name = n

\* Where n is placed, as a number that becomes less on the way down: first by
\* the parent of its word, then by whether a "-" has named another layer below it.
Height(t, n) ==
  2 * Parent(t, CHOOSE w : Star(t, n, w)) + IF Renewed(t, n) THEN 1 ELSE 0

LEMMA LinkingWord ==
  ASSUME NEW t \in Text, NEW i \in Linking(t)
  PROVE  /\ i \in 2 .. Len(t) /\ t[i].mode \in Mode /\ t[i].mode # "(" /\ t[i].name \in Name
         /\ Parent(t, i) \in 1 .. i - 2 /\ Parent(t, i) \in Nat
         /\ t[Parent(t, i)].name \in Name
         /\ Parent(t, i) = 1 \/ Parent(t, i) \in Linking(t)
<1>1. t \in Seq(Word) /\ Len(t) \in Nat /\ DOMAIN t = 1 .. Len(t)
  <2>1. t \in Seq(Word) /\ Len(t) \in Nat BY TextWords
  <2>2. QED BY <2>1
<1>2. i \in 1 .. Len(t) /\ t[i].mode \in Mode /\ Intact(t, i)
  BY <1>1 DEF Linking, Intact
<1>3. t[i].mode # "(" /\ t[i].mode # ")" /\ t[i].mode # "" BY <1>2, Zenon DEF Mode
<1>4. i # 1 BY <1>2, <1>3, TextWords, Zenon
<1>5. i \in 2 .. Len(t) BY <1>2, <1>4, <1>1
<1>6. PICK q : q = Parent(t, i) OBVIOUS
<1>7. q \in 1 .. i - 2 /\ Named(t[q]) BY <1>3, <1>5, <1>6, ParentExists
<1>8. q \in 1 .. Len(t) /\ q \in 1 .. i /\ q \in Nat /\ 1 .. q \subseteq 1 .. i BY <1>1, <1>5, <1>7
<1>9. Named(t[i]) /\ i \in 1 .. i
  <2>1. Named(t[i]) BY <1>3, Zenon DEF Named
  <2>2. QED BY <2>1, <1>5
<1>10. t[i].name \in Name /\ t[q].name \in Name
  <2>1. t[i].name # Null /\ t[q].name # Null BY <1>2, <1>7, <1>8, <1>9 DEF Intact
  <2>2. t[i].name \in Name \cup {Null} /\ t[q].name \in Name \cup {Null}
    BY <1>2, <1>8, TextWords
  <2>3. QED BY <2>1, <2>2
<1>11. q = 1 \/ q \in Linking(t)
  <2>1. SUFFICES ASSUME q # 1 PROVE q \in Linking(t) OBVIOUS
  <2>2. t[q].mode \in Mode \cup {"", "(", ")"} /\ (t[q].mode = "" <=> q = 1) BY <1>8, TextWords
  <2>3. t[q].mode # "" BY <2>1, <2>2, Zenon
  <2>4. t[q].mode \in Mode BY <2>2, <2>3, <1>7, Zenon DEF Named
  <2>5. Intact(t, q) BY <1>2, <1>8 DEF Intact
  <2>6. QED BY <2>4, <2>5, <1>1, <1>8, LinkingWords
<1>12. QED BY <1>2, <1>3, <1>5, <1>6, <1>7, <1>8, <1>10, <1>11

\* What Layered says, in these terms.
LEMMA LayeredText ==
  ASSUME NEW t \in Text, Layered(t)
  PROVE  /\ \A n, v, w : Star(t, n, v) /\ Star(t, n, w) => v = w
         /\ \A i \in Linking(t) : t[Parent(t, i)].mode # "+"
         /\ \A i \in Linking(t) : t[i].mode = "-" =>
              /\ ~Renewed(t, t[i].name)
              /\ \E j : /\ Star(t, t[i].name, j)
                        /\ i < j /\ Parent(t, j) < Parent(t, i)
<1>1. ASSUME NEW n, NEW v, NEW w, Star(t, n, v), Star(t, n, w) PROVE v = w
  <2>1. v \in DOMAIN t /\ w \in DOMAIN t BY <1>1 DEF Star, Linking
  <2>2. t[v].mode \in {"", "*"} /\ t[w].mode \in {"", "*"} /\ t[v].name = t[w].name
    BY <1>1, Zenon DEF Star
  <2>3. QED BY <2>1, <2>2, Zenon DEF Layered
<1>2. ASSUME NEW i \in Linking(t) PROVE t[Parent(t, i)].mode # "+"
  BY Zenon DEF Layered
<1>3. ASSUME NEW i \in Linking(t), t[i].mode = "-"
      PROVE  /\ ~Renewed(t, t[i].name)
             /\ \E j : Star(t, t[i].name, j) /\ i < j /\ Parent(t, j) < Parent(t, i)
  <2>1. /\ \A j \in Linking(t) : t[j].mode = "-" => t[Parent(t, j)].name # t[i].name
        /\ \E j \in Linking(t) :
             /\ t[j].mode = "*" /\ t[j].name = t[i].name
             /\ t[Parent(t, i)].name # t[i].name
             /\ i < j
             /\ Parent(t, j) < Parent(t, i)
    BY <1>3, Zenon DEF Layered
  <2>2. QED BY <2>1 DEF Renewed, Star
<1>4. QED BY <1>1, <1>2, <1>3

LEMMA HeightIs ==
  ASSUME NEW t \in Text, Layered(t), NEW n, NEW w, Star(t, n, w)
  PROVE  /\ Height(t, n) = 2 * Parent(t, w) + IF Renewed(t, n) THEN 1 ELSE 0
         /\ Height(t, n) \in Nat
<1>1. PICK v : v = CHOOSE x : Star(t, n, x) OBVIOUS
<1>2. Star(t, n, v) BY <1>1
<1>3. v = w BY <1>2, LayeredText
<1>4. Parent(t, w) \in Nat BY LinkingWord DEF Star
<1>5. Height(t, n) = 2 * Parent(t, w) + IF Renewed(t, n) THEN 1 ELSE 0
  BY <1>1, <1>3 DEF Height
<1>6. QED BY <1>4, <1>5

\* The layer in front of a word's parentheses is the first one or placed itself,
\* further out than that word's parent.
LEMMA ParentPlaced ==
  ASSUME NEW t \in Text, Layered(t), NEW i \in Linking(t)
  PROVE  LET m == t[Parent(t, i)].name
         IN  Parent(t, i) = 1 \/ \E v : Star(t, m, v) /\ Parent(t, v) < Parent(t, i)
<1>1. PICK q : q = Parent(t, i) OBVIOUS
<1>2. q = 1 \/ q \in Linking(t) BY <1>1, LinkingWord
<1>3. ASSUME q \in Linking(t)
      PROVE  \E v : Star(t, t[q].name, v) /\ Parent(t, v) < q
  <2>1. t[q].mode \in Mode /\ t[q].mode # "+" BY <1>1, <1>3, LinkingWord, LayeredText
  <2>2. Parent(t, q) \in 1 .. q - 2 /\ q \in Nat
    <3>1. Parent(t, q) \in 1 .. q - 2 BY <1>3, LinkingWord
    <3>2. q \in Nat BY <1>1, LinkingWord
    <3>3. QED BY <3>1, <3>2
  <2>3. CASE t[q].mode = "*"
    <3>1. Star(t, t[q].name, q) BY <2>3, <1>3 DEF Star
    <3>2. Parent(t, q) < q BY <2>2
    <3>3. QED BY <3>1, <3>2
  <2>4. CASE t[q].mode = "-"
    <3>1. PICK j : Star(t, t[q].name, j) /\ Parent(t, j) < Parent(t, q)
      BY <2>4, <1>3, LayeredText
    <3>2. Parent(t, j) \in Nat BY <3>1, LinkingWord DEF Star
    <3>3. Parent(t, j) < q BY <3>1, <3>2, <2>2
    <3>4. QED BY <3>1, <3>3
  <2>5. QED BY <2>1, <2>3, <2>4, Zenon DEF Mode
<1>4. QED BY <1>1, <1>2, <1>3

\* A "-" is written in the parentheses of a layer that is placed.
LEMMA RenewedPlaced ==
  ASSUME NEW t \in Text, Layered(t), NEW i \in Linking(t), t[i].mode = "-"
  PROVE  Star(t, t[Parent(t, i)].name, Parent(t, i))
<1>1. PICK q : q = Parent(t, i) OBVIOUS
<1>2. q # 1
  <2>1. PICK j : Star(t, t[i].name, j) /\ Parent(t, j) < q BY <1>1, LayeredText
  <2>2. Parent(t, j) \in 1 .. j - 2 BY <2>1, LinkingWord DEF Star
  <2>3. QED BY <2>1, <2>2
<1>3. q \in Linking(t) BY <1>1, <1>2, LinkingWord
<1>4. t[q].mode # "-"
  <2>1. SUFFICES ASSUME t[q].mode = "-" PROVE FALSE OBVIOUS
  <2>2. ~Renewed(t, t[q].name) BY <2>1, <1>3, LayeredText
  <2>3. QED BY <2>2, <1>1 DEF Renewed
<1>5. t[q].mode # "+" /\ t[q].mode \in Mode BY <1>1, <1>3, LayeredText, LinkingWord
<1>6. t[q].mode = "*" BY <1>4, <1>5, Zenon DEF Mode
<1>7. QED BY <1>1, <1>3, <1>6 DEF Star

\* The layer below n is the first one or has one below itself, and then it is
\* placed further out.
LEMMA StepDown ==
  ASSUME NEW t \in Text, Layered(t), NEW n, WordsBelow(t, n) # {}
  PROVE  /\ Height(t, n) \in Nat
         /\ Below(t, n) \in Name
         /\ \/ Below(t, n) = t[1].name
            \/ /\ WordsBelow(t, Below(t, n)) # {}
               /\ Height(t, Below(t, n)) < Height(t, n)
<1>1. t \in Seq(Word) /\ Len(t) \in Nat BY TextWords
<1> DEFINE W == WordsBelow(t, n)
<1>2. \A i \in W : /\ i \in Linking(t)
                   /\ \/ t[i].mode = "*" /\ t[i].name = n
                      \/ t[i].mode = "-" /\ t[Parent(t, i)].name = n
  BY DEF WordsBelow
<1>3. W \in SUBSET (1 .. Len(t)) /\ W \in SUBSET Nat
  <2>1. \A i \in W : i \in 2 .. Len(t) BY <1>2, LinkingWord
  <2>2. QED BY <2>1, <1>1
<1>4. PICK i \in W : \A x \in W : i >= x BY <1>1, <1>3, GreatestElement
<1>5. Below(t, n) = IF t[i].mode = "*" THEN t[Parent(t, i)].name ELSE t[i].name
  <2>1. \A x \in W : x <= i BY <1>3, <1>4
  <2>2. QED BY <2>1, <1>3, PlacedLast DEF Below
<1> HIDE DEF W
<1>6. \A m, w : Star(t, m, w) => WordsBelow(t, m) # {}
  <2>1. \A m, w : Star(t, m, w) => w \in WordsBelow(t, m) BY DEF Star, WordsBelow
  <2>2. QED BY <2>1
<1>7. CASE t[i].mode = "*" /\ t[i].name = n
  <2>1. i \in Linking(t) /\ Star(t, n, i) BY <1>2, <1>7 DEF Star
  <2>2. PICK q : q = Parent(t, i) OBVIOUS
  <2>3. q \in Nat /\ t[q].name \in Name BY <2>1, <2>2, LinkingWord
  <2>4. Height(t, n) \in Nat /\ Height(t, n) >= 2 * q
    <3>1. Height(t, n) \in Nat /\ Height(t, n) = 2 * q + IF Renewed(t, n) THEN 1 ELSE 0
      BY <2>1, <2>2, HeightIs
    <3>2. QED BY <3>1, <2>3
  <2>5. Below(t, n) = t[q].name BY <1>5, <1>7, <2>2
  <2>6. ASSUME NEW v, Star(t, t[q].name, v), Parent(t, v) < q
        PROVE  Height(t, t[q].name) < Height(t, n)
    <3>1. /\ Height(t, t[q].name) \in Nat
          /\ Height(t, t[q].name) = 2 * Parent(t, v) + IF Renewed(t, t[q].name) THEN 1 ELSE 0
      BY <2>6, HeightIs
    <3>2. Parent(t, v) \in Nat BY <2>6, LinkingWord DEF Star
    <3>3. QED BY <3>1, <3>2, <2>3, <2>4, <2>6
  <2>7. q = 1 \/ \E v : Star(t, t[q].name, v) /\ Parent(t, v) < q
    BY <2>1, <2>2, ParentPlaced
  <2>8. QED BY <2>3, <2>4, <2>5, <2>6, <2>7, <1>6
<1>8. CASE t[i].mode = "-" /\ t[Parent(t, i)].name = n
  <2>1. i \in Linking(t) BY <1>2
  <2>2. PICK q, m : q = Parent(t, i) /\ m = t[i].name OBVIOUS
  <2>3. Star(t, n, q) /\ Renewed(t, n)
    BY <2>1, <2>2, <1>8, RenewedPlaced DEF Renewed
  <2>4. m \in Name /\ q \in 2 .. Len(t) /\ t[q].mode # "(" /\ Parent(t, q) \in Nat
        /\ q \in 1 .. i - 2
    BY <2>1, <2>2, <2>3, LinkingWord DEF Star
  <2>5. Height(t, n) = 2 * Parent(t, q) + 1 BY <2>3, HeightIs
  <2>6. Below(t, n) = m
    <3>1. t[i].mode # "*" BY <1>8
    <3>2. QED BY <3>1, <1>5, <2>2
  <2>7. ~Renewed(t, m) /\ \E j : Star(t, m, j) /\ i < j /\ Parent(t, j) < q
    BY <2>1, <2>2, <1>8, LayeredText
  <2>8. PICK j : Star(t, m, j) /\ i < j /\ Parent(t, j) < q BY <2>7
  <2>9. j \in 2 .. Len(t) /\ t[j].mode # "(" /\ Parent(t, j) \in Nat
    BY <2>8, LinkingWord DEF Star
  <2>10. q < j
    <3>1. i \in 2 .. Len(t) BY <2>1, LinkingWord
    <3>2. q \in 1 .. i - 2 /\ j \in 2 .. Len(t) /\ i < j BY <2>4, <2>8, <2>9
    <3>3. QED BY <3>1, <3>2, <1>1
  <2>11. Parent(t, j) <= Parent(t, q) BY <2>4, <2>8, <2>9, <2>10, ParentNested
  <2>12. Height(t, m) = 2 * Parent(t, j) BY <2>7, <2>8, <2>9, HeightIs
  <2>13. Height(t, m) < Height(t, n) BY <2>4, <2>5, <2>9, <2>11, <2>12
  <2>14. QED BY <2>4, <2>5, <2>6, <2>8, <2>13, <1>6
<1>9. QED BY <1>2, <1>4, <1>7, <1>8

\* When the text is read, the layers below are those that the text says.
LEMMA UnderIs ==
  ASSUME IInv, Linked
  PROVE  /\ text \in Text
         /\ \A l \in Layer : under[l] \in Layer \cup {Null}
         /\ \A l \in Layer : NameOf(under[l]) = Below(text, Created[l])
<1>1. LinkedAsWritten BY ReadAsWritten
<1>2. text \in Text /\ under \in [Layer -> Layer \cup {Null}] BY DEF IInv, Shape, TypeOK
<1>3. QED BY <1>1, <1>2 DEF LinkedAsWritten

\* In a layered text every layer with one below it comes down to the first layer
\* of the text: no Send ends anywhere else or goes round in a circle.
THEOREM ReachAdapter == Spec => []SendsReachAdapter
<1>1. ASSUME IInv PROVE SendsReachAdapter
  <2>1. SUFFICES ASSUME Linked, Layered(text), NEW l \in Layer, under[l] # Null,
                        NEW S \in SUBSET Layer, l \in S,
                        \A m \in S : Descend(m) \in S \cup {Null},
                        \A m \in S : NameOf(m) # text[1].name
                 PROVE  FALSE
    BY DEF SendsReachAdapter
  <2>2. /\ text \in Text
        /\ \A m \in Layer : under[m] \in Layer \cup {Null}
        /\ \A m \in Layer : NameOf(under[m]) = Below(text, Created[m])
    BY <1>1, <2>1, UnderIs
  <2>3. Null \notin Layer /\ Null \notin Name
        /\ \A m \in Layer : NameOf(m) = Created[m] /\ Created[m] \in Name
    BY LayerNames
  <2>4. ASSUME NEW m \in Layer
        PROVE  under[m] # Null <=> WordsBelow(text, Created[m]) # {}
    <3>1. CASE under[m] # Null
      <4>1. NameOf(under[m]) # Null BY <3>1, <2>2, <2>3
      <4>2. Below(text, Created[m]) # Null BY <4>1, <2>2
      <4>3. QED BY <4>2, <3>1 DEF Below, Placed
    <3>2. CASE under[m] = Null
      <4>1. NameOf(under[m]) = Null BY <3>2 DEF NameOf
      <4>2. Below(text, Created[m]) \notin Name BY <4>1, <2>2, <2>3
      <4>3. QED BY <4>2, <3>2, <2>1, <2>2, StepDown
    <3>3. QED BY <3>1, <3>2
  <2> DEFINE down == {m \in S : under[m] # Null}
  <2> DEFINE heights == {Height(text, Created[m]) : m \in down}
  <2>5. ASSUME NEW m \in down
        PROVE  /\ m \in Layer /\ under[m] \in S /\ under[m] # Null
               /\ Height(text, Created[m]) \in Nat
               /\ under[m] \in down
               /\ Height(text, Created[under[m]]) < Height(text, Created[m])
    <3>1. m \in Layer /\ m \in S /\ under[m] # Null /\ under[m] \in Layer BY <2>2
    <3>2. under[m] \in S
      <4>1. m # Null /\ Descend(m) \in S \cup {Null} BY <3>1, <2>1, <2>3
      <4>2. QED BY <4>1, <3>1 DEF Descend
    <3>3. WordsBelow(text, Created[m]) # {} BY <3>1, <2>4
    <3>4. PICK b : b = Below(text, Created[m]) OBVIOUS
    <3>5. b = Created[under[m]] BY <3>1, <3>4, <2>2, <2>3
    <3>6. b # text[1].name BY <3>2, <3>5, <3>1, <2>1, <2>3
    <3>7. /\ Height(text, Created[m]) \in Nat
          /\ WordsBelow(text, b) # {} /\ Height(text, b) < Height(text, Created[m])
      BY <3>3, <3>4, <3>6, <2>1, <2>2, StepDown
    <3>8. under[under[m]] # Null BY <3>1, <3>5, <3>7, <2>4
    <3>9. QED BY <3>1, <3>2, <3>5, <3>7, <3>8
  <2>6. heights \in SUBSET Nat /\ heights # {}
    <3>1. l \in down BY <2>1
    <3>2. QED BY <3>1, <2>5
  <2>7. PICK h \in heights : \A y \in heights : h <= y BY <2>6, LeastElement
  <2>8. PICK m \in down : h = Height(text, Created[m]) BY <2>7
  <2>9. Height(text, Created[under[m]]) \in heights /\ Height(text, Created[under[m]]) < h
    BY <2>5, <2>8
  <2>10. QED BY <2>6, <2>7, <2>9
<1>2. IInv => SendsReachAdapter BY <1>1
<1>3. QED BY <1>2, Invariance, PTL
=============================================================================
