---------------------------- MODULE MCLayerManager ----------------------------
(***************************************************************************)
(* Texts for model checking LayerManager: all well-formed texts of up to   *)
(* MaxWords words over three layers, of which the first is the one the     *)
(* text begins with; the text of the dialog, and all well-formed texts     *)
(* that differ from it in two words.                                       *)
(***************************************************************************)
EXTENDS LayerManager

CONSTANT MaxWords

MCCreated == <<"ARP", "Network", "Ethernet", "NI", "Dlg">>
MCName == ToSet(MCCreated)

W(blanks, mode, name) == [blanks |-> blanks, mode |-> mode, name |-> name]

\* "NI ( *Ethernet ( *Network ( *Dlg  -ARP ) *ARP ) )"
DialogText ==
  <<W(0, "", "NI"), W(1, "(", Null),
    W(1, "*", "Ethernet"), W(1, "(", Null),
    W(1, "*", "Network"), W(1, "(", Null),
    W(1, "*", "Dlg"), W(2, "-", "ARP"),
    W(1, ")", Null), W(1, "*", "ARP"),
    W(1, ")", Null), W(1, ")", Null)>>

Words ==
  {W(1, m, Null) : m \in {"(", ")", "*"}}
    \cup {W(1, "*", n) : n \in {"NI", "Ethernet", "ARP"}}
    \cup {W(1, "+", "ARP"), W(2, "-", "ARP"), W(1, "-", "Ethernet")}

\* All well-formed texts that are one word longer than those of S.
Longer(S) == {t \in {Append(s, w) : s \in S, w \in Words} : WellFormed(t)}

TextsOfLength[n \in Nat] ==
  IF n = 1 THEN {<<W(0, "", "NI")>>} ELSE Longer(TextsOfLength[n - 1])

\* The well-formed texts that differ from t in a word replaced, removed or added.
Edits(t) ==
  {s \in {ReplaceAt(t, i, w) : i \in 2 .. Len(t), w \in Words}
           \cup {RemoveAt(t, i) : i \in 2 .. Len(t)}
           \cup {InsertAt(t, i, w) : i \in 2 .. Len(t) + 1, w \in Words} : WellFormed(s)}

Texts ==
  UNION {TextsOfLength[n] : n \in 1 .. MaxWords}
    \cup UNION {Edits(s) : s \in Edits(DialogText)}
===============================================================================
