----------------------------- MODULE LayerManager -----------------------------
(***************************************************************************)
(* CLayerManager: how the text given to ConnectLayers becomes the links    *)
(* between the layers (CBaseLayer).  MakeList cuts the text into nodes,    *)
(* LinkLayer reads one node per step and keeps a stack of the layers whose *)
(* parentheses are open.  The properties compare the links with a reading  *)
(* of the text that needs no stack.                                        *)
(***************************************************************************)
EXTENDS Integers, Sequences, Functions, SequencesExt, FiniteSetsExt

CONSTANTS
  Name,              \* the names that layers have
  Null,              \* no layer; as a name, one that no layer has
  Created,           \* the names of the layers the dialog adds, in its order
  MAX_LAYER_NUMBER,
  Text               \* the texts that ConnectLayers may be given

Layer == 1 .. Len(Created)

Mode == {"*", "+", "-"}

\* One word of a text and the number of blanks before it.  A word is a bare
\* name, a name behind a mode, or a parenthesis.
Word == [blanks : Nat, mode : Mode \cup {"", "(", ")"}, name : Name \cup {Null}]

Named(w) == w.mode \notin {"(", ")"}

\* Parentheses in the words from i to j.
Opens(t, i, j) == Cardinality({k \in i .. j : t[k].mode = "("})
Closes(t, i, j) == Cardinality({k \in i .. j : t[k].mode = ")"})

\* Texts that LinkLayer makes sense of: one bare name in front; "(" only behind
\* a name; names with a mode, and ")", only inside of parentheses.
WellFormed(t) ==
  /\ t /= << >>
  /\ \A i \in DOMAIN t :
       /\ t[i].mode = "" <=> i = 1
       /\ t[i].mode = "(" => Named(t[i - 1])
       /\ t[i].blanks = (IF i = 1 THEN 0 ELSE 1) \/ (t[i].mode = "-" /\ t[i].blanks > 1)
  /\ \A i \in 2 .. Len(t) :
       LET depth == Opens(t, 1, i - 1) - Closes(t, 1, i - 1)
       IN  IF t[i].mode = "(" THEN depth < MAX_LAYER_NUMBER ELSE depth > 0

ASSUME LinkingAssumption ==
  /\ MAX_LAYER_NUMBER \in Nat \ {0}
  /\ Null \notin Name \cup Nat
  /\ Created \in Seq(Name) /\ ToSet(Created) = Name
  /\ IsInjective(Created)
  /\ Len(Created) <= MAX_LAYER_NUMBER
  /\ Text \subseteq {t \in Seq(Word) : WellFormed(t)}

VARIABLES
  mp_aLayers,  \* the layers added so far
  pcList,      \* what MakeList has left of the text: from which word on, and how
               \* many blanks are left of those before that word
  nodes,       \* the list from mp_sListHead
  pNode,       \* index in nodes of the next one LinkLayer reads
  pLayer,      \* the local variable of LinkLayer
  stack,       \* mp_Stack[0 .. m_nTop]
  upper,       \* upper[l]: mp_aUpperLayer of layer l, m_nUpperLayerCount long
  under,       \* under[l]: mp_UnderLayer of layer l
  text         \* the argument of ConnectLayers

links == <<upper, under>>
vars == <<mp_aLayers, pcList, nodes, pNode, pLayer, stack, upper, under, text>>

Init ==
  /\ mp_aLayers = << >>
  /\ pcList = [word |-> 1, blanks |-> 0]
  /\ nodes = << >>
  /\ pNode = 1
  /\ pLayer = Null
  /\ stack = << >>
  /\ upper = [l \in Layer |-> << >>]
  /\ under = [l \in Layer |-> Null]
  /\ text \in Text

-----------------------------------------------------------------------------
(* The layers and their links. *)

AddLayer ==
  /\ Len(mp_aLayers) < Len(Created)
  /\ mp_aLayers' = Append(mp_aLayers, Len(mp_aLayers) + 1)
  /\ UNCHANGED <<pcList, nodes, pNode, pLayer, stack, upper, under, text>>

\* The first layer of that name.
GetLayer(name) ==
  LET hits == {i \in DOMAIN mp_aLayers : Created[mp_aLayers[i]] = name}
  IN  IF hits = {} THEN Null ELSE mp_aLayers[Min(hits)]

SetUpperLayerUnchecked(l, u) == upper' = [upper EXCEPT ![l] = Append(@, u)]

\* A pointer that is null is ignored.
SetUpperLayer(l, u) ==
  upper' = IF u = Null THEN upper ELSE [upper EXCEPT ![l] = Append(@, u)]

SetUnderLayerIfFree(l, u) ==
  under' = IF u = Null \/ under[l] /= Null THEN under ELSE [under EXCEPT ![l] = u]

SetUnderLayer(l, u) ==
  under' = IF u = Null THEN under ELSE [under EXCEPT ![l] = u]

SetUpperUnderLayer(l, u) ==
  /\ SetUpperLayer(l, u)
  /\ IF u = Null THEN under' = under ELSE SetUnderLayer(u, l)

-----------------------------------------------------------------------------
(* ConnectLayers. *)

\* One round of the loop.  The scan goes on behind the first blank it finds, so a
\* word that follows more than one blank is read once for each of them; only the
\* first word has none.
MakeList ==
  /\ Len(mp_aLayers) = Len(Created)
  /\ pcList.word \in DOMAIN text
  /\ nodes' = Append(nodes, text[pcList.word])
  /\ pcList' = IF pcList.blanks > 0
               THEN [pcList EXCEPT !.blanks = @ - 1]
               ELSE [word |-> pcList.word + 1,
                     blanks |-> IF pcList.word = Len(text) THEN 0 ELSE text[pcList.word + 1].blanks - 1]
  /\ UNCHANGED <<mp_aLayers, pNode, pLayer, stack, upper, under, text>>

\* pcList is strchr's null and one.
ListMade == pcList.word > Len(text)

Top == IF stack = << >> THEN Null ELSE Last(stack)

\* m_nTop is Len(stack) - 1.
Push ==
  stack' = IF Len(stack) - 1 >= MAX_LAYER_NUMBER THEN stack ELSE Append(stack, pLayer)

PopKeepsTop == stack' = stack

Pop == stack' = IF stack = << >> THEN << >> ELSE Front(stack)

Node == nodes[pNode]

Reading ==
  /\ ListMade
  /\ pNode \in DOMAIN nodes
  /\ pNode' = pNode + 1
  /\ UNCHANGED <<mp_aLayers, pcList, nodes, text>>

\* Without a layer the whole node is taken for a name.
LinkFirst ==
  /\ Reading
  /\ pLayer = Null
  /\ pLayer' = IF Node.mode = "" THEN GetLayer(Node.name) ELSE Null
  /\ UNCHANGED <<stack, upper, under>>

LinkOpen ==
  /\ Reading
  /\ pLayer /= Null
  /\ Node.mode = "("
  /\ Push
  /\ UNCHANGED <<pLayer, upper, under>>

LinkClose ==
  /\ Reading
  /\ pLayer /= Null
  /\ Node.mode = ")"
  /\ Pop
  /\ UNCHANGED <<pLayer, upper, under>>

\* The first character of a bare name is not a mode, and the rest no name.
LinkNamed ==
  /\ Reading
  /\ pLayer /= Null
  /\ Named(Node)
  /\ LET layer == IF Node.mode = "" THEN Null ELSE GetLayer(Node.name)
     IN  /\ pLayer' = layer
         /\ CASE Node.mode = "*" -> SetUpperUnderLayer(Top, layer)
              [] Node.mode = "+" -> SetUpperLayer(Top, layer) /\ UNCHANGED under
              [] Node.mode = "-" -> SetUnderLayer(Top, layer) /\ UNCHANGED upper
              [] Node.mode = ""  -> UNCHANGED links
  /\ UNCHANGED stack

LinkLayer == LinkFirst \/ LinkOpen \/ LinkClose \/ LinkNamed

Next == AddLayer \/ MakeList \/ LinkLayer

Spec == Init /\ [][Next]_vars

-----------------------------------------------------------------------------
(* A reading of the text without nodes, stack or links. *)

\* The word in front of the innermost parenthesis around word i.
Parent(t, i) ==
  Max({j \in 1 .. i - 2 :
         t[j + 1].mode = "(" /\ \A k \in j + 1 .. i - 1 : Opens(t, j + 1, k) > Closes(t, j + 1, k)})

\* The words that link: those in front of the first name no layer has.
Linking(t) == {i \in DOMAIN t : t[i].mode \in Mode /\ \A j \in 1 .. i : Named(t[j]) => t[j].name /= Null}

\* The names of some words, in the order in which they are written.
Listed(t, words) ==
  [k \in 1 .. Cardinality(words) |->
     t[Min({i \in words : Cardinality({j \in words : j < i}) = k - 1})].name]

\* The words that name a layer above n.
WordsAbove(t, n) == {i \in Linking(t) : t[i].mode \in {"*", "+"} /\ t[Parent(t, i)].name = n}

Above(t, n) == Listed(t, WordsAbove(t, n))

\* The words that place a layer below n: n itself, put above its parent, and a "-"
\* inside of n's parentheses.
WordsBelow(t, n) ==
  {i \in Linking(t) : \/ t[i].mode = "*" /\ t[i].name = n
                      \/ t[i].mode = "-" /\ t[Parent(t, i)].name = n}

\* The layer that the last of them places.
Placed(t, words) ==
  IF words = {} THEN Null
  ELSE LET i == Max(words) IN IF t[i].mode = "*" THEN t[Parent(t, i)].name ELSE t[i].name

Below(t, n) == Placed(t, WordsBelow(t, n))

NameOf(l) == IF l = Null THEN Null ELSE Created[l]

Linked == ListMade /\ pNode = Len(nodes) + 1

-----------------------------------------------------------------------------
(* Properties. *)

\* Every variable has its type, and the stack stays inside of mp_Stack
\* (Push itself would allow one more).
TypeOK ==
  /\ mp_aLayers \in Seq(Layer) /\ Len(mp_aLayers) <= Len(Created)
  /\ pcList \in [word : 1 .. Len(text) + 1, blanks : Nat]
  /\ nodes \in Seq(Word)
  /\ pNode \in 1 .. Len(nodes) + 1
  /\ pLayer \in Layer \cup {Null}
  /\ stack \in Seq(Layer) /\ Len(stack) <= MAX_LAYER_NUMBER
  /\ upper \in [Layer -> Seq(Layer)]
  /\ under \in [Layer -> Layer \cup {Null}]
  /\ text \in Seq(Word)

\* Each layer has above it the ones written in its parentheses, in that order,
\* which the indices that GetUpperLayer is called with rely on, and below it the
\* last one written for it.  A name no layer has ends the linking there and takes
\* no other link along.
LinkedAsWritten ==
  Linked => \A l \in Layer :
    /\ [i \in DOMAIN upper[l] |-> NameOf(upper[l][i])] = Above(text, Created[l])
    /\ NameOf(under[l]) = Below(text, Created[l])

\* The text is a stack of layers: every layer is placed once, nothing is put
\* on the mere mention of one ("+"), and a "-" only names a layer that is placed
\* further out later on and that itself stays where it was placed.
Layered(t) ==
  /\ \A i, j \in DOMAIN t :
       t[i].mode \in {"", "*"} /\ t[j].mode \in {"", "*"} /\ t[i].name = t[j].name => i = j
  /\ \A i \in Linking(t) : t[Parent(t, i)].mode /= "+"
  /\ \A i \in Linking(t) : t[i].mode = "-" =>
       /\ \A j \in Linking(t) : t[j].mode = "-" => t[Parent(t, j)].name /= t[i].name
       /\ \E j \in Linking(t) :
            /\ t[j].mode = "*" /\ t[j].name = t[i].name
            /\ t[Parent(t, i)].name /= t[i].name
            /\ i < j
            /\ Parent(t, j) < Parent(t, i)

Descend(l) == IF l = Null THEN Null ELSE under[l]

\* In such a text every layer with one below it comes down to the first layer
\* of the text, the adapter's: what the dialog sends reaches the adapter, and
\* no Send calls itself in a circle.  Whatever holds, with each layer, the one
\* below it holds all that this one's Send comes down to.
SendsReachAdapter ==
  Linked /\ Layered(text) => \A l \in Layer : under[l] /= Null =>
    \A S \in SUBSET Layer :
      l \in S /\ (\A m \in S : Descend(m) \in S \cup {Null}) => \E m \in S : NameOf(m) = text[1].name
===============================================================================
