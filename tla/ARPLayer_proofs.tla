---------------------------- MODULE ARPLayer_proofs ----------------------------
(***************************************************************************)
(* What the operators of ARPTable return, for every table and argument,    *)
(* and invariants of ARPLayer for every value of its constants, which cite *)
(* these lemmas and never expand an operator of a table.                   *)
(***************************************************************************)
EXTENDS ARPLayer, SequenceFacts, FiniteSetTheorems

\* r has all of table's entries at the same places, with their addresses.
Keeps(table, r) ==
  /\ Len(table) <= Len(r)
  /\ \A j \in 1 .. Len(table) : r[j].ip = table[j].ip

-----------------------------------------------------------------------------
(* Lookups. *)

\* inCache is 0 exactly when no entry has the address, else the first that has.
LEMMA InCache ==
  ASSUME NEW table \in Seq(Node), NEW ip
  PROVE  /\ inCache(table, ip) \in 0 .. Len(table)
         /\ inCache(table, ip) # 0 => table[inCache(table, ip)].ip = ip
         /\ \A j \in 1 .. Len(table) : table[j].ip = ip =>
              inCache(table, ip) # 0 /\ inCache(table, ip) <= j
<1> DEFINE I == {j \in 1 .. Len(table) : table[j].ip = ip}
<1> DEFINE m == inCache(table, ip)
<1>1. m = IF I # {} THEN Min(I) ELSE 0
  BY DEF inCache, SelectInSeq
<1>2. CASE I = {}
  <2>1. m = 0 BY <1>1, <1>2
  <2>2. \A j \in 1 .. Len(table) : table[j].ip # ip BY <1>2
  <2>3. QED BY <2>1, <2>2
<1>3. CASE I # {}
  <2>1. I \in SUBSET Nat OBVIOUS
  <2>2. Min(I) \in I /\ \A y \in I : Min(I) <= y
    BY <2>1, <1>3, LeastElement DEF Min
  <2>3. m \in I /\ \A y \in I : m <= y BY <2>2, <1>1, <1>3
  <2>4. m \in 1 .. Len(table) /\ table[m].ip = ip BY <2>3
  <2>5. \A j \in 1 .. Len(table) : table[j].ip = ip => m <= j BY <2>3
  <2> HIDE DEF m
  <2>6. m # 0 BY <2>4
  <2>7. QED BY <2>4, <2>5, <2>6 DEF m
<1>4. QED BY <1>2, <1>3

\* A table holds the addresses of its entries.
LEMMA HoldsEntry ==
  ASSUME NEW table \in Seq(Node), NEW ip
  PROVE  Holds(table, ip) <=> \E j \in 1 .. Len(table) : table[j].ip = ip
BY InCache DEF Holds

LEMMA EmptyHolds ==
  ASSUME NEW table \in Seq(Node), Len(table) = 0, NEW ip
  PROVE  ~Holds(table, ip)
<1>1. inCache(table, ip) \in 0 .. Len(table) BY InCache
<1>2. QED BY <1>1 DEF Holds

\* Whatever keeps the entries keeps the addresses known.
LEMMA KeepsHolds ==
  ASSUME NEW table \in Seq(Node), NEW r \in Seq(Node), Keeps(table, r),
         NEW ip, Holds(table, ip)
  PROVE  Holds(r, ip)
<1>1. PICK j \in 1 .. Len(table) : table[j].ip = ip BY HoldsEntry
<1>2. j \in 1 .. Len(r) /\ r[j].ip = ip BY <1>1 DEF Keeps
<1>3. QED BY <1>2, HoldsEntry

-----------------------------------------------------------------------------
(* Updates. *)

\* A new entry has its type when its parts have theirs.
LEMMA NewNodeType ==
  ASSUME NEW ip \in IPAddr, NEW mac \in MAC, NEW status \in Status
  PROVE  NewNode(ip, mac, status) \in Node
BY LifeAssumption DEF NewNode, Node

\* Changing the status or the age of an entry leaves its other parts alone.
LEMMA StatusEffect ==
  ASSUME NEW node \in Node, NEW status \in Status
  PROVE  LET n == [node EXCEPT !.status = status]
         IN  n \in Node /\ n.ip = node.ip /\ n.mac = node.mac /\ n.status = status
BY DEF Node

LEMMA AgeEffect ==
  ASSUME NEW node \in Node, NEW age \in 0 .. MaxAge
  PROVE  LET n == [node EXCEPT !.age = age]
         IN  /\ n \in Node /\ n.ip = node.ip /\ n.mac = node.mac
             /\ n.status = node.status
BY DEF Node

\* Replacing entry i changes that entry only.
LEMMA ReplaceAny ==
  ASSUME NEW table \in Seq(Node), NEW i \in 1 .. Len(table), NEW node \in Node
  PROVE  LET r == ReplaceAt(table, i, node)
         IN  /\ r \in Seq(Node)
             /\ Len(r) = Len(table)
             /\ \A j \in 1 .. Len(r) : r[j] = IF j = i THEN node ELSE table[j]
<1> DEFINE r == ReplaceAt(table, i, node)
<1>1. r = [table EXCEPT ![i] = node] BY DEF ReplaceAt
<1>2. r \in Seq(Node) /\ Len(r) = Len(table) BY <1>1
<1>3. \A j \in 1 .. Len(table) : r[j] = IF j = i THEN node ELSE table[j] BY <1>1
<1> HIDE DEF r
<1>4. QED BY <1>2, <1>3 DEF r

\* A node of the same address keeps the addresses.
LEMMA ReplaceEffect ==
  ASSUME NEW table \in Seq(Node), NEW i \in 1 .. Len(table), NEW node \in Node,
         node.ip = table[i].ip
  PROVE  LET r == ReplaceAt(table, i, node)
         IN  /\ r \in Seq(Node)
             /\ Keeps(table, r)
             /\ Len(r) = Len(table)
             /\ \A j \in 1 .. Len(r) : r[j] = IF j = i THEN node ELSE table[j]
<1> DEFINE r == ReplaceAt(table, i, node)
<1>1. /\ r \in Seq(Node) /\ Len(r) = Len(table)
      /\ \A j \in 1 .. Len(r) : r[j] = IF j = i THEN node ELSE table[j]
  BY ReplaceAny
<1> HIDE DEF r
<1>2. Keeps(table, r) BY <1>1 DEF Keeps
<1>3. QED BY <1>1, <1>2 DEF r

\* Adding an entry at the end keeps the others.
LEMMA AppendEffect ==
  ASSUME NEW table \in Seq(Node), NEW node \in Node
  PROVE  LET r == Append(table, node)
         IN  /\ r \in Seq(Node)
             /\ Keeps(table, r)
             /\ Len(r) = Len(table) + 1
             /\ \A j \in 1 .. Len(r) :
                  r[j] = IF j = Len(table) + 1 THEN node ELSE table[j]
BY DEF Keeps

\* A request leaves each entry as it is or makes it a complete one for the
\* sender's MAC, whose address is the sender's or begins that MAC.
LEMMA HearRequestEffect ==
  ASSUME NEW table \in Seq(Node), NEW ip \in IPAddr, NEW mac \in HostMAC
  PROVE  LET r == HearRequest(table, ip, mac)
         IN  /\ r \in Seq(Node)
             /\ Keeps(table, r)
             /\ \A j \in 1 .. Len(r) :
                  \/ j <= Len(table) /\ r[j] = table[j]
                  \/ \E a \in {ip, FirstFour[mac]} : r[j] = NewNode(a, mac, "complete")
<1> DEFINE index == inCache(table, FirstFour[mac])
<1> DEFINE r == HearRequest(table, ip, mac)
<1>1. mac \in MAC /\ "complete" \in Status /\ FirstFour[mac] \in IPAddr
  BY MACAssumption DEF MAC, Status
<1>2. CASE index # 0
  <2>1. index \in 1 .. Len(table) /\ table[index].ip = FirstFour[mac]
    BY <1>2, InCache
  <2>2. NewNode(FirstFour[mac], mac, "complete") \in Node BY <1>1, NewNodeType
  <2>3. NewNode(FirstFour[mac], mac, "complete").ip = table[index].ip
    BY <2>1 DEF NewNode
  <2>4. r = ReplaceAt(table, index, NewNode(FirstFour[mac], mac, "complete"))
    BY <1>2, <2>1 DEF HearRequest, Complete
  <2> HIDE DEF index, r
  <2>5. QED BY <2>1, <2>2, <2>3, <2>4, ReplaceEffect DEF r
<1>3. CASE index = 0
  <2>1. NewNode(ip, mac, "complete") \in Node BY <1>1, NewNodeType
  <2>2. r = Append(table, NewNode(ip, mac, "complete"))
    BY <1>3 DEF HearRequest
  <2> HIDE DEF r
  <2>3. QED BY <2>1, <2>2, AppendEffect DEF r
<1>4. QED BY <1>2, <1>3

\* A reply leaves each entry as it is or completes it for its sender.
LEMMA HearReplyEffect ==
  ASSUME NEW table \in Seq(Node), NEW ip \in IPAddr, NEW mac \in HostMAC
  PROVE  LET r == HearReply(table, ip, mac)
         IN  /\ r \in Seq(Node)
             /\ Keeps(table, r)
             /\ Len(r) = Len(table)
             /\ \A j \in 1 .. Len(r) :
                  r[j] = table[j] \/ r[j] = NewNode(ip, mac, "complete")
<1> DEFINE index == inCache(table, ip)
<1> DEFINE r == HearReply(table, ip, mac)
<1>1. mac \in MAC /\ "complete" \in Status BY DEF MAC, Status
<1>2. CASE Holds(table, ip)
  <2>1. index \in 1 .. Len(table) /\ table[index].ip = ip
    BY <1>2, InCache DEF Holds
  <2>2. NewNode(ip, mac, "complete") \in Node BY <1>1, NewNodeType
  <2>3. NewNode(ip, mac, "complete").ip = table[index].ip BY <2>1 DEF NewNode
  <2>4. r = ReplaceAt(table, index, NewNode(ip, mac, "complete"))
    BY <1>2, <2>1 DEF HearReply, Complete
  <2> HIDE DEF index, r
  <2>5. QED BY <2>1, <2>2, <2>3, <2>4, ReplaceEffect DEF r
<1>3. CASE ~Holds(table, ip)
  <2>1. r = table BY <1>3 DEF HearReply
  <2>2. QED BY <2>1 DEF Keeps
<1>4. QED BY <1>2, <1>3

\* What Put and the missed search of Send leave: the entries there were, or node,
\* and every address but the one that was looked for.
Writes(table, seek, node, r) ==
  /\ r \in Seq(Node)
  /\ \A j \in 1 .. Len(r) : (j <= Len(table) /\ r[j] = table[j]) \/ r[j] = node
  /\ Holds(r, node.ip)
  /\ \A other : other # seek /\ Holds(table, other) => Holds(r, other)

LEMMA AppendWrites ==
  ASSUME NEW table \in Seq(Node), NEW seek, NEW node \in Node
  PROVE  Writes(table, seek, node, Append(table, node))
<1> DEFINE r == Append(table, node)
<1>1. /\ r \in Seq(Node) /\ Keeps(table, r) /\ Len(r) = Len(table) + 1
      /\ \A j \in 1 .. Len(r) : r[j] = IF j = Len(table) + 1 THEN node ELSE table[j]
  BY AppendEffect
<1> HIDE DEF r
<1>2. Holds(r, node.ip)
  <2>1. Len(r) \in 1 .. Len(r) /\ r[Len(r)].ip = node.ip BY <1>1
  <2>2. QED BY <2>1, <1>1, HoldsEntry
<1>3. \A other : Holds(table, other) => Holds(r, other) BY <1>1, KeepsHolds
<1>4. QED BY <1>1, <1>2, <1>3 DEF r, Writes

LEMMA PutWrites ==
  ASSUME NEW table \in Seq(Node), NEW seek, NEW node \in Node
  PROVE  Writes(table, seek, node, Put(table, seek, node))
<1> DEFINE m == inCache(table, seek)
<1> DEFINE r == ReplaceAt(table, m, node)
<1>1. CASE ~Holds(table, seek) BY <1>1, AppendWrites DEF Put
<1>2. CASE Holds(table, seek)
  <2>1. m \in 1 .. Len(table) /\ table[m].ip = seek BY <1>2, InCache DEF Holds
  <2>2. Put(table, seek, node) = r BY <1>2 DEF Put
  <2> HIDE DEF m
  <2>3. /\ r \in Seq(Node) /\ Len(r) = Len(table)
        /\ \A j \in 1 .. Len(r) : r[j] = IF j = m THEN node ELSE table[j]
    BY <2>1, ReplaceAny
  <2> HIDE DEF r
  <2>4. Holds(r, node.ip) BY <2>1, <2>3, HoldsEntry
  <2>5. ASSUME NEW other, other # seek, Holds(table, other) PROVE Holds(r, other)
    <3>1. PICK j \in 1 .. Len(table) : table[j].ip = other BY <2>5, HoldsEntry
    <3>2. j \in 1 .. Len(r) /\ r[j].ip = other BY <2>1, <2>3, <2>5, <3>1
    <3>3. QED BY <2>3, <3>2, HoldsEntry
  <2>6. QED BY <2>2, <2>3, <2>4, <2>5 DEF Writes
<1>3. QED BY <1>1, <1>2

LEMMA StoredWrites ==
  ASSUME NEW table \in Seq(Node), NEW seek, NEW node \in Node, NEW missed \in BOOLEAN,
         NEW r \in Stored(table, seek, node, missed)
  PROVE  Writes(table, seek, node, r)
<1>1. r = Put(table, seek, node) \/ r = Append(table, node) BY DEF Stored
<1>2. QED BY <1>1, PutWrites, AppendWrites

\* A question for the address that was looked for loses none.
LEMMA WritesHolds ==
  ASSUME NEW table, NEW seek, NEW node, NEW r, Writes(table, seek, node, r),
         NEW ip, Holds(table, ip), ip # seek \/ node.ip = seek
  PROVE  Holds(r, ip)
BY DEF Writes

\* The timer changes statuses only, and only to "timeout".
LEMMA UpdateTableEffect ==
  ASSUME NEW table \in Seq(Node)
  PROVE  LET r == updateTable(table)
         IN  /\ r \in Seq(Node)
             /\ Keeps(table, r)
             /\ Len(r) = Len(table)
             /\ \A j \in 1 .. Len(r) :
                  /\ r[j].ip = table[j].ip
                  /\ r[j].mac = table[j].mac
                  /\ r[j].status \in {table[j].status, "timeout"}
<1> DEFINE r == updateTable(table)
<1>1. ASSUME NEW j \in 1 .. Len(table)
      PROVE  /\ r[j] \in Node
             /\ r[j].ip = table[j].ip
             /\ r[j].mac = table[j].mac
             /\ r[j].status \in {table[j].status, "timeout"}
  <2>1. r[j] = IF Expired(table[j]) THEN [table[j] EXCEPT !.status = "timeout"]
               ELSE table[j]
    BY DEF updateTable
  <2>2. table[j] \in Node /\ "timeout" \in Status BY DEF Status
  <2> HIDE DEF r
  <2>3. CASE Expired(table[j]) BY <2>1, <2>2, <2>3, StatusEffect
  <2>4. CASE ~Expired(table[j]) BY <2>1, <2>2, <2>4
  <2>5. QED BY <2>3, <2>4
<1>3. r \in Seq(Node) /\ Len(r) = Len(table)
  <2>1. Len(table) \in Nat /\ DOMAIN r = 1 .. Len(table) BY DEF updateTable
  <2>2. r = [j \in 1 .. Len(table) |-> r[j]] BY <2>1 DEF updateTable
  <2> HIDE DEF r
  <2>3. QED BY <2>1, <2>2, <1>1
<1> HIDE DEF r
<1>4. QED BY <1>1, <1>3 DEF r, Keeps

\* The clock changes ages only.
LEMMA OlderEffect ==
  ASSUME NEW table \in Seq(Node)
  PROVE  LET r == Older(table)
         IN  /\ r \in Seq(Node)
             /\ Keeps(table, r)
             /\ Len(r) = Len(table)
             /\ \A j \in 1 .. Len(r) :
                  /\ r[j].ip = table[j].ip
                  /\ r[j].mac = table[j].mac
                  /\ r[j].status = table[j].status
<1> DEFINE r == Older(table)
<1>1. ASSUME NEW j \in 1 .. Len(table)
      PROVE  /\ r[j] \in Node
             /\ r[j].ip = table[j].ip
             /\ r[j].mac = table[j].mac
             /\ r[j].status = table[j].status
  <2> DEFINE age == IF table[j].age < MaxAge THEN table[j].age + 1 ELSE MaxAge
  <2>1. r[j] = [table[j] EXCEPT !.age = age] BY DEF Older
  <2>2. table[j] \in Node OBVIOUS
  <2>3. table[j].age \in 0 .. MaxAge BY <2>2 DEF Node
  <2>4. age \in 0 .. MaxAge BY <2>3, LifeAssumption
  <2> HIDE DEF age, r
  <2>5. QED BY <2>1, <2>2, <2>4, AgeEffect
<1>4. r \in Seq(Node) /\ Len(r) = Len(table)
  <2>1. Len(table) \in Nat /\ DOMAIN r = 1 .. Len(table) BY DEF Older
  <2>2. r = [j \in 1 .. Len(table) |-> r[j]] BY <2>1 DEF Older
  <2> HIDE DEF r
  <2>3. QED BY <2>1, <2>2, <1>1
<1> HIDE DEF r
<1>5. QED BY <1>1, <1>4 DEF r, Keeps

\* Deleting a known address removes its first entry and closes the gap; every
\* other address stays known.
LEMMA DeleteItemEffect ==
  ASSUME NEW table \in Seq(Node), NEW ip, Holds(table, ip)
  PROVE  LET r == deleteItem(table, ip)
             index == inCache(table, ip)
         IN  /\ r \in Seq(Node)
             /\ Len(r) = Len(table) - 1
             /\ index \in 1 .. Len(table)
             /\ \A j \in 1 .. Len(r) :
                  r[j] = IF j < index THEN table[j] ELSE table[j + 1]
             /\ \A other : other # ip /\ Holds(table, other) => Holds(r, other)
<1> DEFINE r == deleteItem(table, ip)
<1> DEFINE index == inCache(table, ip)
<1>1. index \in 1 .. Len(table) /\ table[index].ip = ip
  BY InCache DEF Holds
<1>2. r = SubSeq(table, 1, index - 1) \o SubSeq(table, index + 1, Len(table))
  BY DEF deleteItem, RemoveAt
<1> HIDE DEF index, r
<1>3. /\ r \in Seq(Node)
      /\ Len(r) = Len(table) - 1
      /\ \A j \in 1 .. Len(r) : r[j] = IF j < index THEN table[j] ELSE table[j + 1]
  BY <1>1, <1>2, WithoutElement
<1>4. ASSUME NEW other, other # ip, Holds(table, other) PROVE Holds(r, other)
  <2>1. PICK l \in 1 .. Len(table) : table[l].ip = other BY <1>4, HoldsEntry
  <2>2. l # index BY <2>1, <1>1, <1>4
  <2>3. CASE l < index
    <3>1. l \in 1 .. Len(r) /\ r[l] = table[l] BY <2>3, <1>1, <1>3
    <3>2. QED BY <3>1, <2>1, <1>3, HoldsEntry
  <2>4. CASE l > index
    <3>1. l - 1 \in 1 .. Len(r) /\ r[l - 1] = table[l] BY <2>4, <1>1, <1>3
    <3>2. QED BY <3>1, <2>1, <1>3, HoldsEntry
  <2>5. QED BY <2>2, <2>3, <2>4, <1>1
<1>5. QED BY <1>1, <1>3, <1>4 DEF r, index

-----------------------------------------------------------------------------
(* The inductive invariant. *)

\* What an entry may hold: a question one of the two addresses that Send makes
\* questions with, an answer that of a station that claimed its IP, and an entry
\* that has timed out either.
Sound(node) ==
  /\ node.status = "incomplete" => node.mac \in {Broadcast, ZeroMAC}
  /\ Announced(node)
  /\ node.mac \in StationsOf(node.ip) \cup {Broadcast, ZeroMAC}

\* The part of the invariant that is about the table alone.
TableOK(table) ==
  /\ table \in Seq(Node)
  /\ \A j \in 1 .. Len(table) : Sound(table[j])

\* The inductive invariant: RowsBacked and WaiterKeepsEntry need the table.
IInv == TypeOK /\ TableOK(arpTable) /\ RowsBacked /\ WaiterKeepsEntry

-----------------------------------------------------------------------------
(* The table. *)

LEMMA TableProperties ==
  ASSUME TableOK(arpTable)
  PROVE  BindingAnnounced
BY DEF TableOK, Sound, BindingAnnounced

\* An operation that leaves an entry as it is, or writes a sound one, keeps the
\* table right.
LEMMA SoundKeepsTable ==
  ASSUME NEW table, TableOK(table), NEW r \in Seq(Node),
         \A j \in 1 .. Len(r) : (j <= Len(table) /\ r[j] = table[j]) \/ Sound(r[j])
  PROVE  TableOK(r)
<1>1. table \in Seq(Node) BY DEF TableOK
<1>2. ASSUME NEW j \in 1 .. Len(r) PROVE Sound(r[j])
  <2>1. CASE j <= Len(table) /\ r[j] = table[j]
    <3>1. j \in 1 .. Len(table) BY <1>1, <2>1
    <3>2. QED BY <2>1, <3>1 DEF TableOK
  <2>2. QED BY <2>1
<1>3. QED BY <1>2 DEF TableOK

\* What an announcement completes is announced.
LEMMA CompletedNode ==
  ASSUME NEW a \in Announcement, NEW ip \in {a.ip, FirstFour[a.mac]}
  PROVE  Sound(NewNode(ip, a.mac, "complete"))
<1>1. a.mac \in StationsOf(ip) BY DEF StationsOf
<1>2. QED BY <1>1 DEF NewNode, Sound, Announced

LEMMA RequestKeepsTable ==
  ASSUME NEW table, TableOK(table), NEW a \in Announcement
  PROVE  LET r == HearRequest(table, a.ip, a.mac)
         IN  TableOK(r) /\ Keeps(table, r)
<1> DEFINE r == HearRequest(table, a.ip, a.mac)
<1>1. table \in Seq(Node) /\ a.ip \in IPAddr /\ a.mac \in HostMAC
  BY AddressAssumption DEF TableOK
<1>2. /\ r \in Seq(Node) /\ Keeps(table, r)
      /\ \A j \in 1 .. Len(r) :
           \/ j <= Len(table) /\ r[j] = table[j]
           \/ \E ip \in {a.ip, FirstFour[a.mac]} : r[j] = NewNode(ip, a.mac, "complete")
  BY <1>1, HearRequestEffect
<1> HIDE DEF r
<1>3. QED BY <1>2, CompletedNode, SoundKeepsTable DEF r

LEMMA ReplyKeepsTable ==
  ASSUME NEW table, TableOK(table), NEW a \in Announcement
  PROVE  LET r == HearReply(table, a.ip, a.mac)
         IN  TableOK(r) /\ Keeps(table, r) /\ Len(r) = Len(table)
<1> DEFINE r == HearReply(table, a.ip, a.mac)
<1>1. table \in Seq(Node) /\ a.ip \in IPAddr /\ a.mac \in HostMAC
  BY AddressAssumption DEF TableOK
<1>2. /\ r \in Seq(Node) /\ Keeps(table, r) /\ Len(r) = Len(table)
      /\ \A j \in 1 .. Len(r) :
           r[j] = table[j] \/ r[j] = NewNode(a.ip, a.mac, "complete")
  BY <1>1, HearReplyEffect
<1> HIDE DEF r
<1>3. QED BY <1>2, CompletedNode, SoundKeepsTable DEF r

\* The question that Send writes, wherever it puts it.
LEMMA QuestionNode ==
  ASSUME NEW ip \in IPAddr, NEW mac \in {Broadcast, ZeroMAC}
  PROVE  /\ Question(ip, mac) \in Node
         /\ Question(ip, mac).ip = ip
         /\ Sound(Question(ip, mac))
<1>1. mac \in MAC BY DEF MAC
<1>2. Question(ip, mac) = NewNode(ip, mac, "incomplete") BY DEF Question
<1>3. NewNode(ip, mac, "incomplete") \in Node BY <1>1, NewNodeType DEF Status
<1>4. Sound(NewNode(ip, mac, "incomplete")) BY DEF NewNode, Sound, Announced
<1>5. QED BY <1>2, <1>3, <1>4 DEF NewNode

LEMMA QuestionKeepsTable ==
  ASSUME NEW table, TableOK(table), NEW seek, NEW ip \in IPAddr,
         NEW mac \in {Broadcast, ZeroMAC}, NEW missed \in BOOLEAN,
         NEW r \in Stored(table, seek, Question(ip, mac), missed)
  PROVE  /\ TableOK(r)
         /\ Writes(table, seek, Question(ip, mac), r)
         /\ Holds(r, ip)
         /\ \A other : other # seek /\ Holds(table, other) => Holds(r, other)
         /\ seek = ip => \A other : Holds(table, other) => Holds(r, other)
<1> DEFINE node == Question(ip, mac)
<1>1. node \in Node /\ node.ip = ip /\ Sound(node) BY QuestionNode
<1>2. table \in Seq(Node) BY DEF TableOK
<1> HIDE DEF node
<1>3. Writes(table, seek, node, r) BY <1>1, <1>2, StoredWrites DEF node
<1>4. TableOK(r) BY <1>1, <1>3, SoundKeepsTable DEF Writes
<1>5. QED BY <1>1, <1>3, <1>4 DEF Writes, node

LEMMA TimerKeepsTable ==
  ASSUME NEW table, TableOK(table)
  PROVE  LET r == updateTable(table)
         IN  TableOK(r) /\ Keeps(table, r) /\ Len(r) = Len(table)
<1> DEFINE r == updateTable(table)
<1>1. table \in Seq(Node) BY DEF TableOK
<1>2. /\ r \in Seq(Node) /\ Keeps(table, r) /\ Len(r) = Len(table)
      /\ \A j \in 1 .. Len(r) :
           /\ r[j].ip = table[j].ip
           /\ r[j].mac = table[j].mac
           /\ r[j].status \in {table[j].status, "timeout"}
  BY <1>1, UpdateTableEffect
<1> HIDE DEF r
<1>3. ASSUME NEW j \in 1 .. Len(r) PROVE Sound(r[j])
  <2>1. Sound(table[j]) BY <1>2 DEF TableOK
  <2>2. QED BY <1>2, <2>1 DEF Sound, Announced
<1>4. QED BY <1>2, <1>3 DEF r, TableOK

LEMMA ClockKeepsTable ==
  ASSUME NEW table, TableOK(table)
  PROVE  LET r == Older(table)
         IN  TableOK(r) /\ Keeps(table, r) /\ Len(r) = Len(table)
<1> DEFINE r == Older(table)
<1>1. table \in Seq(Node) BY DEF TableOK
<1>2. /\ r \in Seq(Node) /\ Keeps(table, r) /\ Len(r) = Len(table)
      /\ \A j \in 1 .. Len(r) :
           /\ r[j].ip = table[j].ip
           /\ r[j].mac = table[j].mac
           /\ r[j].status = table[j].status
  BY <1>1, OlderEffect
<1> HIDE DEF r
<1>3. ASSUME NEW j \in 1 .. Len(r) PROVE Sound(r[j])
  <2>1. Sound(table[j]) BY <1>2 DEF TableOK
  <2>2. QED BY <1>2, <2>1 DEF Sound, Announced
<1>4. QED BY <1>2, <1>3 DEF r, TableOK

LEMMA DeletionKeepsTable ==
  ASSUME NEW table, TableOK(table), NEW ip, Holds(table, ip)
  PROVE  LET r == deleteItem(table, ip)
         IN  /\ TableOK(r)
             /\ Len(r) = Len(table) - 1
             /\ \A other : other # ip /\ Holds(table, other) => Holds(r, other)
<1> DEFINE r == deleteItem(table, ip)
<1> DEFINE index == inCache(table, ip)
<1>1. table \in Seq(Node) BY DEF TableOK
<1>2. /\ r \in Seq(Node) /\ Len(r) = Len(table) - 1 /\ index \in 1 .. Len(table)
      /\ \A j \in 1 .. Len(r) :
           r[j] = IF j < index THEN table[j] ELSE table[j + 1]
      /\ \A other : other # ip /\ Holds(table, other) => Holds(r, other)
  BY <1>1, DeleteItemEffect
<1> DEFINE old(j) == IF j < index THEN j ELSE j + 1
<1> HIDE DEF r, index
<1>3. \A j \in 1 .. Len(r) : old(j) \in 1 .. Len(table) /\ r[j] = table[old(j)]
  BY <1>1, <1>2
<1>4. \A j \in 1 .. Len(r) : Sound(r[j])
  BY <1>3 DEF TableOK
<1>5. QED BY <1>2, <1>4 DEF r, TableOK

-----------------------------------------------------------------------------
(* The steps. *)

Unmoved ==
  /\ Quiet
  /\ UNCHANGED <<arpTable, proxyTable, arpList, lost, fields, myaddr, selected, sending,
                 enetType, rx>>

\* The steps of the layer in any program around it: packets may be routed to
\* every hop, and what the layer has no part in only ends the last step's sending.
LayerStep ==
  \/ Dialog
  \/ Tick
  \/ Unmoved
  \/ \E s \in Slot :
       \/ ReceiveIgnored(s)
       \/ Progress(s)
       \/ \E sender \in Announcement, target \in Target : ReceiveRequest(s, sender, target)
       \/ \E sender \in Announcement : ReceiveReply(s, sender)
       \/ \E hop \in IPAddr, out \in Iface :
            \/ ForwardByProxy(s, hop, out)
            \/ ForwardCached(s, hop, out)
            \/ ForwardMiss(s, hop, out)

LEMMA NextIsLayerStep == [Next]_vars => [LayerStep]_vars
<1>1. \A n \in Hop : n.ip \in IPAddr /\ n.out \in Iface BY AddressAssumption
<1>2. QED BY <1>1 DEF Next, LayerStep, Receive

\* What a Send of the dialog reads are addresses, disturbed or not.
LEMMA SendOnSends ==
  ASSUME TypeOK, SendOn
  PROVE  \E ip \in IPAddr, header \in [src : IPAddr, dst : IPAddr] : Send(ip, header)
<1>1. sending.on \in Iface /\ sending.dst \in IPAddr BY DEF TypeOK, Sending
<1>2. fields[sending.on].ip \in IPAddr BY <1>1 DEF TypeOK, Address
<1>3. Header \in [src : IPAddr, dst : IPAddr] BY <1>1, <1>2 DEF Header
<1>4. Header.dst \in IPAddr BY <1>3
<1>5. \A p \in Passing : p \in [src : IPAddr, dst : IPAddr] /\ p.dst \in IPAddr
  BY AddressAssumption
<1>6. CASE Send(Header.dst, Header) BY <1>3, <1>4, <1>6
<1>7. ASSUME NEW h \in Passing, NEW ip \in {Header.dst} \cup {q.dst : q \in Passing},
             Send(ip, h)
      PROVE  \E i \in IPAddr, header \in [src : IPAddr, dst : IPAddr] : Send(i, header)
  <2>1. h \in [src : IPAddr, dst : IPAddr] BY <1>5
  <2>2. ip \in IPAddr BY <1>4, <1>5
  <2>3. QED BY <1>7, <2>1, <2>2
<1>8. QED BY <1>6, <1>7 DEF SendOn

\* Deleting a row or everything apart, a step keeps every address in the table
\* but the one whose entry a Send writes over.
Removal == ClearTable \/ \E ip \in IPAddr : DeleteRow(ip)

Displaced(ip) == ip \in lost' /\ rx' = Forsake({ip})

Kept == \A ip : Cached(ip) => Cached(ip)' \/ Displaced(ip)

LEMMA SendKeeps ==
  ASSUME IInv, NEW ip \in IPAddr, NEW header \in [src : IPAddr, dst : IPAddr],
         Send(ip, header)
  PROVE  TableOK(arpTable') /\ Len(arpTable') <= MaxEntries /\ Kept
<1>1. TableOK(arpTable) /\ Len(arpTable') <= MaxEntries BY DEF IInv, Send
<1>2. CASE header.src = header.dst
  <2>1. arpTable' = arpTable BY <1>2 DEF Send
  <2>2. QED BY <1>1, <2>1 DEF Kept, Cached
<1>3. CASE header.src # header.dst
  <2>1. PICK mac \in {Broadcast, ZeroMAC}, missed \in BOOLEAN :
          arpTable' \in Stored(arpTable, header.dst, Question(ip, mac), missed)
    <3>1. (IF is_Garp THEN Broadcast ELSE ZeroMAC) \in {Broadcast, ZeroMAC} OBVIOUS
    <3>2. (inCache(arpTable, header.dst) > sending.from) \in BOOLEAN OBVIOUS
    <3>3. QED BY <1>3, <3>1, <3>2 DEF Send
  <2>2. /\ TableOK(arpTable')
        /\ \A other : other # header.dst /\ Holds(arpTable, other) => Holds(arpTable', other)
        /\ header.dst = ip => \A other : Holds(arpTable, other) => Holds(arpTable', other)
    BY <1>1, <2>1, QuestionKeepsTable
  <2>3. CASE ip = header.dst BY <1>1, <2>2, <2>3 DEF Kept, Cached
  <2>4. CASE ip # header.dst
    <3>1. lost' = lost \cup {header.dst} /\ rx' = Forsake({header.dst})
      BY <1>3, <2>4 DEF Send
    <3>2. QED BY <1>1, <2>2, <3>1 DEF Kept, Cached, Displaced
  <2>5. QED BY <2>3, <2>4
<1>4. QED BY <1>2, <1>3

LEMMA AskKeeps ==
  ASSUME IInv, NEW s \in Slot, ForwardAsk(s)
  PROVE  /\ TableOK(arpTable') /\ Len(arpTable') <= MaxEntries /\ Kept
         /\ myaddr[rx[s].out].ip = rx[s].hop \/ Holds(arpTable', rx[s].hop)
<1>1. TableOK(arpTable) /\ Len(arpTable') <= MaxEntries BY DEF IInv, ForwardAsk
<1>2. rx[s].hop \in IPAddr /\ rx[s].mac \in {Broadcast, ZeroMAC}
  BY DEF IInv, TypeOK, Thread
<1>3. CASE myaddr[rx[s].out].ip = rx[s].hop
  <2>1. arpTable' = arpTable BY <1>3 DEF ForwardAsk
  <2>2. QED BY <1>1, <1>3, <2>1 DEF Kept, Cached
<1>4. CASE myaddr[rx[s].out].ip # rx[s].hop
  <2>1. arpTable' \in Stored(arpTable, rx[s].hop, Question(rx[s].hop, rx[s].mac), TRUE)
    BY <1>4 DEF ForwardAsk
  <2>2. PICK missed \in BOOLEAN :
          arpTable' \in Stored(arpTable, rx[s].hop, Question(rx[s].hop, rx[s].mac), missed)
    BY <2>1
  <2> DEFINE hop == rx[s].hop
             mac == rx[s].mac
  <2>3. hop \in IPAddr /\ mac \in {Broadcast, ZeroMAC} BY <1>2
  <2>4. arpTable' \in Stored(arpTable, hop, Question(hop, mac), missed) BY <2>2
  <2> HIDE DEF hop, mac
  <2>5. /\ TableOK(arpTable') /\ Holds(arpTable', hop)
        /\ \A other : Holds(arpTable, other) => Holds(arpTable', other)
    BY <1>1, <2>3, <2>4, QuestionKeepsTable
  <2>6. QED BY <1>1, <2>5 DEF Kept, Cached, hop
<1>5. QED BY <1>3, <1>4

\* What keeps the entries keeps the addresses.
LEMMA KeepsKept ==
  ASSUME TableOK(arpTable), TableOK(arpTable'), Keeps(arpTable, arpTable')
  PROVE  Kept
BY KeepsHolds DEF Kept, Cached, TableOK

LEMMA TableStep ==
  ASSUME IInv, [LayerStep]_vars
  PROVE  TableOK(arpTable') /\ Len(arpTable') <= MaxEntries /\ (Removal \/ Kept)
<1>1. TableOK(arpTable) /\ arpTable \in Seq(Node) /\ Len(arpTable) <= MaxEntries /\ TypeOK
  BY DEF IInv, TypeOK
<1>2. CASE arpTable' = arpTable BY <1>1, <1>2 DEF Kept, Cached
<1>3. CASE SendOn BY <1>1, <1>3, SendOnSends, SendKeeps
<1>4. CASE OnTimer
  <2>1. TableOK(arpTable') /\ Keeps(arpTable, arpTable') /\ Len(arpTable') = Len(arpTable)
    BY <1>1, <1>4, TimerKeepsTable DEF OnTimer
  <2>2. QED BY <1>1, <2>1, KeepsKept
<1>5. ASSUME NEW ip \in IPAddr, DeleteRow(ip)
      PROVE  TableOK(arpTable') /\ Removal /\ Len(arpTable') <= MaxEntries
  <2>1. Holds(arpTable, ip) /\ arpTable' = deleteItem(arpTable, ip)
    BY <1>5 DEF Cached, DeleteRow
  <2>2. TableOK(arpTable') /\ Len(arpTable') = Len(arpTable) - 1
    BY <1>1, <2>1, DeletionKeepsTable
  <2>3. Len(arpTable) \in Nat /\ MaxEntries \in Nat BY <1>1, BoundAssumption
  <2>4. Removal BY <1>5 DEF Removal
  <2>5. QED BY <1>1, <2>2, <2>3, <2>4
<1>6. CASE ClearTable
  <2>1. arpTable' = << >> /\ Removal BY <1>6 DEF ClearTable, Removal
  <2>2. TableOK(<< >>) BY DEF TableOK
  <2>3. QED BY <2>1, <2>2, BoundAssumption
<1>7. ASSUME NEW s \in Slot, NEW a \in Announcement, NEW t \in Target,
             ReceiveRequest(s, a, t)
      PROVE  TableOK(arpTable') /\ Kept /\ Len(arpTable') <= MaxEntries
  <2>1. TableOK(arpTable') /\ Keeps(arpTable, arpTable') /\ Len(arpTable') <= MaxEntries
    BY <1>1, <1>7, RequestKeepsTable DEF ReceiveRequest
  <2>2. QED BY <1>1, <2>1, KeepsKept
<1>8. ASSUME NEW s \in Slot, NEW a \in Announcement, ReceiveReply(s, a)
      PROVE  TableOK(arpTable') /\ Kept /\ Len(arpTable') <= MaxEntries
  <2>1. TableOK(arpTable') /\ Keeps(arpTable, arpTable') /\ Len(arpTable') <= MaxEntries
    BY <1>1, <1>8, ReplyKeepsTable DEF ReceiveReply
  <2>2. QED BY <1>1, <2>1, KeepsKept
<1>9. ASSUME NEW s \in Slot, ForwardAsk(s)
      PROVE  TableOK(arpTable') /\ Kept /\ Len(arpTable') <= MaxEntries
  BY <1>9, AskKeeps
<1>10. CASE Tick
  <2>1. TableOK(arpTable') /\ Keeps(arpTable, arpTable') /\ Len(arpTable') = Len(arpTable)
    BY <1>1, <1>10, ClockKeepsTable DEF Tick
  <2>2. QED BY <1>1, <2>1, KeepsKept
<1>11. QED
  BY <1>2, <1>3, <1>4, <1>5, <1>6, <1>7, <1>8, <1>9, <1>10
  DEF LayerStep, Unmoved, Dialog, Progress, vars, TypeSource, OnCbnSelchangeComboAdapter,
      SelectRefused, Select, Reselect, SendArp, CreateProxy, DeleteProxy, ReadTimeout,
      ReceiveIgnored, ForwardByProxy, ForwardCached, ForwardMiss, ForwardWaited,
      ForwardDropped

LEMMA RowsStep ==
  ASSUME IInv, [LayerStep]_vars
  PROVE  RowsBacked'
<1> SUFFICES ASSUME NEW ip \in arpList', ip \notin lost' PROVE Cached(ip)'
  BY DEF RowsBacked
<1>1. CASE Removal
  BY <1>1 DEF Removal, DeleteRow, ClearTable
<1>2. ASSUME Kept, ip \in arpList \/ (\E i \in DOMAIN arpTable : ip = arpTable[i].ip),
             lost \subseteq lost'
      PROVE  Cached(ip)'
  <2>1. arpTable \in Seq(Node) BY DEF IInv, TypeOK
  <2>2. Cached(ip) BY <1>2, <2>1, HoldsEntry DEF IInv, RowsBacked, Cached
  <2>3. ~Displaced(ip) BY DEF Displaced
  <2>4. QED BY <1>2, <2>2, <2>3 DEF Kept
<1>3. CASE OnTimer /\ ~Removal
  <2>1. lost \subseteq lost' /\ (ip \in arpList \/ \E i \in DOMAIN arpTable : ip = arpTable[i].ip)
    BY <1>3 DEF OnTimer
  <2>2. Kept BY <1>3, TableStep
  <2>3. QED BY <1>2, <2>1, <2>2
<1>4. CASE ~OnTimer /\ ~Removal
  <2>1. ASSUME SendOn PROVE arpList' = arpList /\ lost \subseteq lost'
    <3>1. TypeOK BY DEF IInv
    <3>2. PICK x \in IPAddr, header \in [src : IPAddr, dst : IPAddr] : Send(x, header)
      BY <2>1, <3>1, SendOnSends
    <3>3. QED BY <3>2 DEF Send
  <2>2. arpList' = arpList /\ lost \subseteq lost'
    BY <1>4, <2>1
    DEF Removal, LayerStep, Unmoved, Dialog, Progress, vars, TypeSource,
        OnCbnSelchangeComboAdapter, SelectRefused, Select, Reselect, SendArp,
        CreateProxy, DeleteProxy, ReadTimeout, ReceiveIgnored, ReceiveRequest,
        ReceiveReply, ForwardByProxy, ForwardCached, ForwardMiss, ForwardAsk,
        ForwardWaited, ForwardDropped, Tick
  <2>3. Kept BY <1>4, TableStep
  <2>4. QED BY <1>2, <2>2, <2>3
<1>5. QED BY <1>1, <1>3, <1>4

\* A thread that is forsaken for these addresses knows.
LEMMA ForsakeEffect ==
  ASSUME rx \in [Slot -> Thread], NEW ips, NEW s \in Slot
  PROVE  LET t == Forsake(ips)[s]
         IN  /\ t \in Thread /\ t.pc = rx[s].pc /\ t.hop = rx[s].hop
             /\ t.gone \/ t = rx[s]
             /\ rx[s].pc = "wait" /\ rx[s].hop \in ips => t.gone
<1>1. ASSUME NEW t \in Thread
      PROVE  LET u == [t EXCEPT !.gone = TRUE]
             IN  u \in Thread /\ u.pc = t.pc /\ u.hop = t.hop /\ u.gone
  BY DEF Thread
<1>2. rx[s] \in Thread OBVIOUS
<1>3. CASE rx[s].pc = "wait" /\ rx[s].hop \in ips
  <2>1. Forsake(ips)[s] = [rx[s] EXCEPT !.gone = TRUE] BY <1>3 DEF Forsake
  <2>2. QED BY <1>1, <1>2, <2>1
<1>4. CASE ~(rx[s].pc = "wait" /\ rx[s].hop \in ips)
  <2>1. Forsake(ips)[s] = rx[s] BY <1>4 DEF Forsake
  <2>2. QED BY <1>2, <1>4, <2>1
<1>5. QED BY <1>3, <1>4

LEMMA MissThread ==
  ASSUME NEW s \in Slot, NEW hop, NEW out, ForwardMiss(s, hop, out)
  PROVE  \E mac \in {Broadcast, ZeroMAC} : rx' = [rx EXCEPT ![s] = Asking(hop, out, mac)]
<1>1. (IF is_Garp THEN Broadcast ELSE ZeroMAC) \in {Broadcast, ZeroMAC} OBVIOUS
<1>2. QED BY <1>1 DEF ForwardMiss

LEMMA AskThread ==
  ASSUME NEW s \in Slot, ForwardAsk(s)
  PROVE  rx' = [rx EXCEPT ![s] =
                  Waiting(rx[s].hop, rx[s].out, myaddr[rx[s].out].ip = rx[s].hop)]
BY DEF ForwardAsk

LEMMA WaitersStep ==
  ASSUME IInv, [LayerStep]_vars
  PROVE  WaiterKeepsEntry'
<1> SUFFICES ASSUME NEW s \in Slot, rx'[s].pc = "wait", ~rx'[s].gone
             PROVE  Holds(arpTable', rx'[s].hop)
  BY DEF WaiterKeepsEntry, Cached
<1>1. rx \in [Slot -> Thread] /\ WaiterKeepsEntry /\ TableOK(arpTable) /\ TypeOK
  BY DEF IInv, TypeOK
<1>2. ASSUME NEW ip \in IPAddr, DeleteRow(ip) PROVE Holds(arpTable', rx'[s].hop)
  <2>1. rx' = Forsake({ip}) /\ arpTable' = deleteItem(arpTable, ip) /\ Holds(arpTable, ip)
    BY <1>2 DEF DeleteRow, Cached
  <2>2. rx'[s] = rx[s] /\ rx[s].hop # ip BY <1>1, <2>1, ForsakeEffect
  <2>3. Holds(arpTable, rx[s].hop) BY <1>1, <2>2 DEF WaiterKeepsEntry, Cached
  <2>4. QED BY <1>1, <2>1, <2>2, <2>3, DeletionKeepsTable
<1>3. CASE ClearTable
  <2>1. rx' = Forsake(IPAddr) /\ rx[s].hop \in IPAddr BY <1>1, <1>3 DEF ClearTable, Thread
  <2>2. QED BY <1>1, <2>1, ForsakeEffect
<1>4. CASE ForwardAsk(s)
  <2> DEFINE own == myaddr[rx[s].out].ip = rx[s].hop
  <2>1. rx'[s] = Waiting(rx[s].hop, rx[s].out, own) BY <1>1, <1>4, AskThread
  <2>2. own \/ Holds(arpTable', rx[s].hop) BY <1>4, AskKeeps
  <2> HIDE DEF own
  <2>3. rx'[s].hop = rx[s].hop /\ rx'[s].gone = own BY <2>1 DEF Waiting
  <2>4. QED BY <2>2, <2>3
<1>5. ASSUME Kept, rx'[s] = rx[s], ~Displaced(rx[s].hop) PROVE Holds(arpTable', rx'[s].hop)
  <2>1. Cached(rx[s].hop) BY <1>1, <1>5 DEF WaiterKeepsEntry
  <2>2. Holds(arpTable, rx[s].hop) BY <2>1 DEF Cached
  <2>3. Holds(arpTable', rx[s].hop) BY <1>5, <2>2 DEF Kept, Cached
  <2>4. QED BY <1>5, <2>3
<1>6. ASSUME Displaced(rx[s].hop), rx[s].pc = "wait" PROVE rx'[s].gone
  BY <1>1, <1>6, ForsakeEffect DEF Displaced
<1>7. ASSUME ~Removal, rx'[s] = rx[s] PROVE Holds(arpTable', rx'[s].hop)
  <2>1. Kept BY <1>7, TableStep
  <2>2. ~Displaced(rx[s].hop) BY <1>6, <1>7
  <2>3. QED BY <1>5, <1>7, <2>1, <2>2
<1>8. ASSUME NEW q \in Slot, rx' = Resume(q) PROVE rx'[s] = rx[s]
  BY <1>1, <1>8 DEF Resume, At
<1>9. ASSUME Select PROVE rx'[s] = rx[s]
  <2>1. PICK started : rx' = Spawn(started) BY <1>9 DEF Select
  <2>2. CASE s \in started
    <3>1. rx'[s] = At("read") BY <2>1, <2>2 DEF Spawn
    <3>2. rx'[s].pc = "read" BY <3>1 DEF At
    <3>3. QED BY <3>2
  <2>3. CASE s \notin started BY <2>1, <2>3 DEF Spawn
  <2>4. QED BY <2>2, <2>3
<1>10. ASSUME SendOn PROVE rx'[s] = rx[s]
  <2>1. PICK x \in IPAddr, header \in [src : IPAddr, dst : IPAddr] : Send(x, header)
    BY <1>1, <1>10, SendOnSends
  <2>2. PICK ips : rx' = Forsake(ips) BY <2>1 DEF Send
  <2>3. QED BY <1>1, <2>2, ForsakeEffect
<1>11. ASSUME NEW q \in Slot, q # s, ForwardAsk(q) PROVE rx'[s] = rx[s]
  BY <1>1, <1>11, AskThread
<1>12. ASSUME NEW q \in Slot, NEW hop \in IPAddr, NEW out \in Iface, ForwardMiss(q, hop, out)
       PROVE  rx'[s] = rx[s]
  <2>1. PICK mac : rx' = [rx EXCEPT ![q] = Asking(hop, out, mac)] BY <1>12, MissThread
  <2>2. q # s
    <3>1. ASSUME q = s PROVE FALSE
      <4>1. rx'[s] = Asking(hop, out, mac) BY <1>1, <2>1, <3>1
      <4>2. rx'[s].pc = "ask" BY <4>1 DEF Asking
      <4>3. QED BY <4>2
    <3>2. QED BY <3>1
  <2>3. QED BY <1>1, <2>1, <2>2
<1>13. CASE Removal BY <1>2, <1>3, <1>13 DEF Removal
<1>14. CASE ForwardAsk(s) BY <1>4, <1>14
<1>15. CASE ~Removal /\ ~ForwardAsk(s)
  <2>1. CASE rx' = rx BY <1>7, <1>15, <2>1
  <2>2. CASE Select \/ SendOn BY <1>7, <1>9, <1>10, <1>15, <2>2
  <2>3. CASE \E q \in Slot : rx' = Resume(q) BY <1>7, <1>8, <1>15, <2>3
  <2>4. CASE \E q \in Slot : ForwardAsk(q) BY <1>7, <1>11, <1>15, <2>4
  <2>5. CASE \E q \in Slot, hop \in IPAddr, out \in Iface : ForwardMiss(q, hop, out)
    BY <1>7, <1>12, <1>15, <2>5
  <2>6. QED
    BY <1>15, <2>1, <2>2, <2>3, <2>4, <2>5
    DEF Removal, LayerStep, Unmoved, Dialog, Progress, vars, TypeSource,
        OnCbnSelchangeComboAdapter, SelectRefused, Reselect, SendArp, OnTimer,
        CreateProxy, DeleteProxy, ReadTimeout, ReceiveIgnored, ReceiveRequest,
        ReceiveReply, ForwardByProxy, ForwardCached, ForwardWaited, ForwardDropped, Tick
<1>16. QED BY <1>13, <1>14, <1>15

-----------------------------------------------------------------------------
(* Types. *)

\* The rows of the proxy table stay rows.
LEMMA ProxiesStep ==
  ASSUME TypeOK, [LayerStep]_vars
  PROVE  proxyTable' \in Seq(Proxy)
<1>1. proxyTable \in Seq(Proxy) BY DEF TypeOK
<1>2. ASSUME NEW p \in Proxied, CreateProxy(p) PROVE proxyTable' \in Seq(Proxy)
  <2>1. p \in Proxy BY AddressAssumption
  <2>2. proxyTable' = Append(proxyTable, p) BY <1>2 DEF CreateProxy
  <2>3. QED BY <1>1, <2>1, <2>2
<1>3. ASSUME NEW i \in DOMAIN proxyTable, DeleteProxy(i) PROVE proxyTable' \in Seq(Proxy)
  <2>1. proxyTable' = RemoveAt(proxyTable, i) BY <1>3 DEF DeleteProxy
  <2>2. SubSeq(proxyTable, 1, i - 1) \in Seq(Proxy) BY <1>1
  <2>3. SubSeq(proxyTable, i + 1, Len(proxyTable)) \in Seq(Proxy) BY <1>1
  <2>4. QED BY <2>1, <2>2, <2>3 DEF RemoveAt
<1>4. CASE UNCHANGED proxyTable BY <1>1, <1>4
<1>5. ASSUME SendOn PROVE UNCHANGED proxyTable BY <1>5, SendOnSends DEF Send
<1>6. QED
  BY <1>2, <1>3, <1>4, <1>5
  DEF LayerStep, Unmoved, Dialog, Progress, vars, TypeSource, OnCbnSelchangeComboAdapter,
      SelectRefused, Select, Reselect, SendArp, OnTimer, DeleteRow, ClearTable,
      ReadTimeout, ReceiveIgnored, ReceiveRequest, ReceiveReply, ForwardByProxy,
      ForwardCached, ForwardMiss, ForwardAsk, ForwardWaited, ForwardDropped, Tick

\* The source fields and our own addresses come from the user or the adapters.
LEMMA AddressesStep ==
  ASSUME TypeOK, [LayerStep]_vars
  PROVE  fields' \in [Iface -> Address] /\ myaddr' \in [Iface -> Address]
<1>1. fields \in [Iface -> Address] /\ myaddr \in [Iface -> Address] BY DEF TypeOK
<1>2. \A f \in Iface : FromAdapter(f) \in Address
  BY AddressAssumption DEF FromAdapter, Address
<1>3. ASSUME NEW f \in Iface, NEW ip \in Typed, TypeSource(f, ip)
      PROVE  fields' \in [Iface -> Address] /\ myaddr' = myaddr
  <2>1. ip \in IPAddr BY AddressAssumption
  <2>2. [fields[f] EXCEPT !.ip = ip] \in Address BY <1>1, <2>1 DEF Address
  <2>3. fields' = [fields EXCEPT ![f] = [fields[f] EXCEPT !.ip = ip]]
    BY <1>1, <1>3 DEF TypeSource
  <2>4. QED BY <1>1, <1>3, <2>2, <2>3 DEF TypeSource
<1>4. ASSUME NEW f \in Iface, OnCbnSelchangeComboAdapter(f)
      PROVE  fields' \in [Iface -> Address] /\ myaddr' = myaddr
  BY <1>1, <1>2, <1>4 DEF OnCbnSelchangeComboAdapter
<1>5. CASE SelectRefused BY <1>1, <1>2, <1>5 DEF SelectRefused
<1>6. CASE Select BY <1>1, <1>2, <1>6 DEF Select
<1>7. CASE UNCHANGED <<fields, myaddr>> BY <1>1, <1>7
<1>8. ASSUME SendOn PROVE UNCHANGED <<fields, myaddr>> BY <1>8, SendOnSends DEF Send
<1>9. QED
  BY <1>1, <1>3, <1>4, <1>5, <1>6, <1>7, <1>8
  DEF LayerStep, Unmoved, Dialog, Progress, vars, Reselect, SendArp, OnTimer, DeleteRow,
      ClearTable, CreateProxy, DeleteProxy, ReadTimeout, ReceiveIgnored,
      ReceiveRequest, ReceiveReply, ForwardByProxy, ForwardCached, ForwardMiss,
      ForwardAsk, ForwardWaited, ForwardDropped, Tick

\* The rest of the dialog's state.
LEMMA DialogStep ==
  ASSUME TypeOK, [LayerStep]_vars
  PROVE  arpList' \subseteq IPAddr /\ selected' \in BOOLEAN
<1>1. arpTable \in Seq(Node) /\ arpList \subseteq IPAddr /\ selected \in BOOLEAN
  BY DEF TypeOK
<1>2. ASSUME OnTimer PROVE arpList' \subseteq IPAddr
  <2>1. ASSUME NEW i \in DOMAIN arpTable PROVE arpTable[i].ip \in IPAddr
    <3>1. arpTable[i] \in Node BY <1>1
    <3>2. QED BY <3>1 DEF Node
  <2>2. arpList' = arpList \cup {arpTable[i].ip : i \in DOMAIN arpTable}
    BY <1>2 DEF OnTimer
  <2>3. arpList' \subseteq IPAddr BY <1>1, <2>1, <2>2
  <2>4. QED BY <2>3
<1>3. ASSUME UNCHANGED arpList \/ arpList' = {} PROVE arpList' \subseteq IPAddr
  BY <1>1, <1>3
<1>4. ASSUME SendOn PROVE UNCHANGED <<arpList, selected>> BY <1>4, SendOnSends DEF Send
<1>5. arpList' \subseteq IPAddr
  BY <1>2, <1>3, <1>4
  DEF LayerStep, Unmoved, Dialog, Progress, vars, TypeSource, OnCbnSelchangeComboAdapter,
      SelectRefused, Select, Reselect, SendArp, DeleteRow, ClearTable, CreateProxy,
      DeleteProxy, ReadTimeout, ReceiveIgnored, ReceiveRequest, ReceiveReply,
      ForwardByProxy, ForwardCached, ForwardMiss, ForwardAsk, ForwardWaited,
      ForwardDropped, Tick
<1>6. UNCHANGED selected \/ selected' = TRUE \/ selected' = FALSE
  BY <1>4
  DEF LayerStep, Unmoved, Dialog, Progress, vars, TypeSource, OnCbnSelchangeComboAdapter,
      SelectRefused, Select, Reselect, SendArp, OnTimer, DeleteRow, ClearTable, CreateProxy,
      DeleteProxy, ReadTimeout, ReceiveIgnored, ReceiveRequest, ReceiveReply,
      ForwardByProxy, ForwardCached, ForwardMiss, ForwardAsk, ForwardWaited,
      ForwardDropped, Tick
<1>7. QED BY <1>1, <1>5, <1>6

\* The handler that sends, the addresses it has written over, and the messages read.
LEMMA SendingStep ==
  ASSUME TypeOK, [LayerStep]_vars
  PROVE  sending' \in Sending /\ lost' \subseteq IPAddr /\ heard' \subseteq Announcement
<1>1. /\ sending \in Sending /\ lost \subseteq IPAddr /\ heard \subseteq Announcement
      /\ Len(arpTable) \in 0 .. MaxEntries
  BY BoundAssumption DEF TypeOK
<1>2. ASSUME NEW ip \in IPAddr, NEW header \in [src : IPAddr, dst : IPAddr], Send(ip, header)
      PROVE  sending' \in Sending /\ lost' \subseteq IPAddr /\ heard' = {}
  <2>1. lost' \subseteq IPAddr /\ heard' = {} BY <1>1, <1>2 DEF Send
  <2>2. Len(arpTable') \in 0 .. MaxEntries
    <3>1. arpTable' \in Seq(Node)
      <4>1. arpTable \in Seq(Node) BY DEF TypeOK
      <4>2. \A mac \in {Broadcast, ZeroMAC} : Question(ip, mac) \in Node BY QuestionNode
      <4>3. arpTable' = arpTable \/ \E mac \in {Broadcast, ZeroMAC}, missed \in BOOLEAN :
               arpTable' \in Stored(arpTable, header.dst, Question(ip, mac), missed)
        <5>1. (IF is_Garp THEN Broadcast ELSE ZeroMAC) \in {Broadcast, ZeroMAC} OBVIOUS
        <5>2. (inCache(arpTable, header.dst) > sending.from) \in BOOLEAN OBVIOUS
        <5>3. QED BY <1>2, <5>1, <5>2 DEF Send
      <4>4. QED BY <4>1, <4>2, <4>3, StoredWrites DEF Writes
    <3>2. Len(arpTable') <= MaxEntries BY <1>2 DEF Send
    <3>3. QED BY <3>1, <3>2, BoundAssumption
  <2>3. NextSending(Len(arpTable')) \in Sending
    <3>1. NotSending \in Sending
      BY AddressAssumption, BoundAssumption DEF NotSending, Sending, Iface
    <3>2. ASSUME NEW f \in Iface, NEW n \in 0 .. MaxEntries
          PROVE  [sending EXCEPT !.on = f, !.from = n] \in Sending
      BY <1>1 DEF Sending
    <3>3. [sending EXCEPT !.on = IF @ = INNER THEN OUTER ELSE INNER,
                          !.from = Len(arpTable')] \in Sending
      <4>1. (IF sending.on = INNER THEN OUTER ELSE INNER) \in Iface BY DEF Iface
      <4>2. QED BY <2>2, <3>2, <4>1
    <3>4. QED BY <3>1, <3>3 DEF NextSending
  <2>4. QED BY <1>2, <2>1, <2>3 DEF Send
<1>3. ASSUME NEW dst \in Target, SendArp(dst) PROVE sending' \in Sending
  <2>1. dst \in IPAddr BY AddressAssumption
  <2>2. sending' = [job |-> "ask", dst |-> dst, on |-> INNER, from |-> Len(arpTable)]
    BY <1>3 DEF SendArp
  <2>3. QED BY <1>1, <2>1, <2>2 DEF Sending, Iface
<1>4. ASSUME Select PROVE sending' \in Sending
  <2>1. sending' = [job |-> "announce", dst |-> NoAddr, on |-> OUTER, from |-> Len(arpTable)]
    BY <1>4 DEF Select, NotSending
  <2>2. QED BY <1>1, <2>1, AddressAssumption DEF Sending, Iface
<1>5. ASSUME SendOn
      PROVE  sending' \in Sending /\ lost' \subseteq IPAddr /\ heard' = {}
  BY <1>2, <1>5, SendOnSends
<1>6. ASSUME UNCHANGED sending PROVE sending' \in Sending BY <1>1, <1>6
<1>7. sending' \in Sending
  BY <1>3, <1>4, <1>5, <1>6
  DEF LayerStep, Unmoved, Dialog, Progress, vars, TypeSource, OnCbnSelchangeComboAdapter,
      SelectRefused, Reselect, OnTimer, DeleteRow, ClearTable, CreateProxy, DeleteProxy,
      ReadTimeout, ReceiveIgnored, ReceiveRequest, ReceiveReply, ForwardByProxy,
      ForwardCached, ForwardMiss, ForwardAsk, ForwardWaited, ForwardDropped, Tick
<1>8. lost' \subseteq IPAddr
  BY <1>1, <1>5
  DEF LayerStep, Unmoved, Dialog, Progress, vars, TypeSource, OnCbnSelchangeComboAdapter,
      SelectRefused, Select, SendArp, Reselect, OnTimer, DeleteRow, ClearTable, CreateProxy,
      DeleteProxy, ReadTimeout, ReceiveIgnored, ReceiveRequest, ReceiveReply,
      ForwardByProxy, ForwardCached, ForwardMiss, ForwardAsk, ForwardWaited,
      ForwardDropped, Tick
<1>9. heard' \subseteq Announcement
  BY <1>1, <1>5
  DEF LayerStep, Unmoved, Quiet, Dialog, Progress, vars, TypeSource,
      OnCbnSelchangeComboAdapter, SelectRefused, Select, SendArp, Reselect, OnTimer,
      DeleteRow, ClearTable, CreateProxy, DeleteProxy, ReadTimeout, ReceiveIgnored,
      ReceiveRequest, ReceiveReply, Transmit, ForwardByProxy, ForwardCached, ForwardMiss,
      ForwardAsk, ForwardWaited, ForwardDropped, Tick
<1>10. QED BY <1>7, <1>8, <1>9

\* A receive thread reads, asks, waits or is off; what it remembers has its type.
LEMMA ThreadsStep ==
  ASSUME TypeOK, [LayerStep]_vars
  PROVE  rx' \in [Slot -> Thread]
<1>1. rx \in [Slot -> Thread] BY DEF TypeOK
<1>2. At("read") \in Thread /\ At("off") \in Thread
  BY AddressAssumption DEF At, Thread, Iface
<1>3. ASSUME NEW s \in Slot, rx' = Resume(s) PROVE rx' \in [Slot -> Thread]
  BY <1>1, <1>2, <1>3 DEF Resume
<1>4. ASSUME NEW T, rx' = Spawn(T) PROVE rx' \in [Slot -> Thread]
  BY <1>1, <1>2, <1>4 DEF Spawn
<1>5. ASSUME NEW ips, rx' = Forsake(ips) PROVE rx' \in [Slot -> Thread]
  <2>1. ASSUME NEW t \in Thread PROVE [t EXCEPT !.gone = TRUE] \in Thread BY DEF Thread
  <2>2. QED BY <1>1, <1>5, <2>1 DEF Forsake
<1>6. ASSUME NEW s \in Slot, NEW hop \in IPAddr, NEW out \in Iface, ForwardMiss(s, hop, out)
      PROVE  rx' \in [Slot -> Thread]
  <2>1. \A mac \in {Broadcast, ZeroMAC} : Asking(hop, out, mac) \in Thread
    BY DEF Asking, Thread
  <2>2. PICK mac \in {Broadcast, ZeroMAC} : rx' = [rx EXCEPT ![s] = Asking(hop, out, mac)]
    BY <1>6, MissThread
  <2>3. QED BY <1>1, <2>1, <2>2
<1>7. ASSUME NEW s \in Slot, ForwardAsk(s) PROVE rx' \in [Slot -> Thread]
  <2> DEFINE own == myaddr[rx[s].out].ip = rx[s].hop
  <2>1. rx[s].hop \in IPAddr /\ rx[s].out \in Iface BY <1>1 DEF Thread
  <2>2. own \in BOOLEAN OBVIOUS
  <2>3. rx' = [rx EXCEPT ![s] = Waiting(rx[s].hop, rx[s].out, own)] BY <1>7, AskThread
  <2> HIDE DEF own
  <2>4. Waiting(rx[s].hop, rx[s].out, own) \in Thread BY <2>1, <2>2 DEF Waiting, Thread
  <2>5. QED BY <1>1, <2>3, <2>4
<1>8. ASSUME Select PROVE rx' \in [Slot -> Thread] BY <1>4, <1>8 DEF Select
<1>9. ASSUME SendOn PROVE rx' \in [Slot -> Thread] BY <1>5, <1>9, SendOnSends DEF Send
<1>10. CASE UNCHANGED rx BY <1>1, <1>10
<1>11. QED
  BY <1>3, <1>5, <1>6, <1>7, <1>8, <1>9, <1>10
  DEF LayerStep, Unmoved, Dialog, Progress, vars, TypeSource, OnCbnSelchangeComboAdapter,
      SelectRefused, Reselect, SendArp, OnTimer, DeleteRow, ClearTable, CreateProxy,
      DeleteProxy, ReadTimeout, ReceiveIgnored, ReceiveRequest, ReceiveReply,
      ForwardByProxy, ForwardCached, ForwardWaited, ForwardDropped, Tick

\* What a lookup returns is an address the table holds.
LEMMA LookupType ==
  ASSUME TypeOK, NEW ip, Cached(ip)
  PROVE  Lookup(arpTable, ip) \in MAC
<1>1. arpTable \in Seq(Node) BY DEF TypeOK
<1>2. inCache(arpTable, ip) \in 1 .. Len(arpTable)
  BY <1>1, InCache DEF Cached, Holds
<1>3. arpTable[inCache(arpTable, ip)] \in Node BY <1>1, <1>2
<1>4. QED BY <1>3 DEF Lookup, Node

\* ProxyFor returns 0 or the first row of the address.
LEMMA ProxyForEffect ==
  ASSUME TypeOK, NEW ip, ProxyFor(ip) # 0
  PROVE  LET i == ProxyFor(ip)
         IN  /\ i \in 1 .. Len(proxyTable)
             /\ proxyTable[i] \in Proxy
             /\ proxyTable[i].ip = ip
             /\ \A j \in 1 .. i - 1 : proxyTable[j].ip # ip
<1> DEFINE I == {j \in 1 .. Len(proxyTable) : proxyTable[j].ip = ip}
<1>1. proxyTable \in Seq(Proxy) BY DEF TypeOK
<1>2. ProxyFor(ip) = IF I # {} THEN Min(I) ELSE 0
  BY DEF ProxyFor, SelectInSeq
<1>3. I # {} /\ ProxyFor(ip) = Min(I) BY <1>2
<1>4. I \in SUBSET Nat OBVIOUS
<1>5. Min(I) \in I /\ \A y \in I : Min(I) <= y BY <1>3, <1>4, LeastElement DEF Min
<1> DEFINE i == ProxyFor(ip)
<1>6. i \in I /\ \A y \in I : i <= y BY <1>3, <1>5
<1> HIDE DEF i
<1>7. i \in 1 .. Len(proxyTable) /\ proxyTable[i].ip = ip BY <1>6
<1>8. \A j \in 1 .. i - 1 : proxyTable[j].ip # ip BY <1>1, <1>6, <1>7
<1>9. proxyTable[i] \in Proxy BY <1>1, <1>7
<1>10. QED BY <1>7, <1>8, <1>9 DEF i

\* The frames that the layer builds are frames.
LEMMA RequestType ==
  ASSUME NEW f \in Iface, NEW src \in IPAddr, NEW dst \in IPAddr, NEW mac \in MAC
  PROVE  Request(f, src, dst, mac) \in Frame
<1>1. MyMAC[f] \in MAC BY AddressAssumption DEF MAC
<1>2. Request(f, src, dst, mac).body \in ARPBody BY <1>1 DEF Request, ARPBody
<1>3. QED BY <1>2 DEF Request, Frame, EtherType

LEMMA PacketType ==
  ASSUME NEW f \in Iface, NEW mac \in MAC, NEW hop \in IPAddr
  PROVE  PacketFrame(f, mac, hop) \in Frame
<1>1. PacketFrame(f, mac, hop).body \in IPBody BY DEF PacketFrame, IPBody
<1>2. QED BY <1>1 DEF PacketFrame, Frame, EtherType

LEMMA ReplyType ==
  ASSUME TypeOK, NEW f \in Iface, NEW to \in Announcement, NEW ip \in IPAddr, NEW mac \in MAC
  PROVE  Reply(f, to, ip, mac) \in Frame
<1>1. to.ip \in IPAddr /\ to.mac \in MAC BY AddressAssumption DEF MAC
<1>2. enetType[f] \in EtherType BY DEF TypeOK
<1>3. Reply(f, to, ip, mac).body \in ARPBody BY <1>1 DEF Reply, ARPBody
<1>4. QED BY <1>1, <1>2, <1>3 DEF Reply, Frame

LEMMA AnswersType ==
  ASSUME TypeOK, NEW f \in Iface, NEW sender \in Announcement, NEW target \in Target
  PROVE  Answers(f, sender, target) \subseteq Frame
<1>1. target \in IPAddr BY AddressAssumption
<1>2. CASE target = myaddr[INNER].ip
  <2>1. myaddr[INNER] \in Address BY DEF TypeOK, Iface
  <2>2. myaddr[INNER].mac \in MAC BY <2>1 DEF Address, MAC
  <2>3. QED BY <1>1, <1>2, <2>2, ReplyType DEF Answers
<1>3. CASE target # myaddr[INNER].ip /\ ProxyFor(target) # 0
  <2>1. proxyTable[ProxyFor(target)].src \in MAC
    BY <1>3, ProxyForEffect DEF Proxy, MAC
  <2>2. QED BY <1>1, <1>3, <2>1, ReplyType DEF Answers
<1>4. QED BY <1>2, <1>3 DEF Answers

\* What leaves the program is a frame of a known type.
LEMMA FramesStep ==
  ASSUME TypeOK, [LayerStep]_vars
  PROVE  sent' \subseteq Frame /\ enetType' \in [Iface -> EtherType]
<1>1. sent \subseteq Frame /\ enetType \in [Iface -> EtherType] BY DEF TypeOK
<1>2. {"ARP", "IP"} \subseteq EtherType BY DEF EtherType
<1>3. {Broadcast, ZeroMAC} \subseteq MAC BY DEF MAC
<1>4. ASSUME NEW ip \in IPAddr, NEW header \in [src : IPAddr, dst : IPAddr], Send(ip, header)
      PROVE  sent' \subseteq Frame /\ enetType' \in [Iface -> EtherType]
  <2>1. sending.on \in Iface BY DEF TypeOK, Sending
  <2>2. \A mac \in {Broadcast, ZeroMAC} :
          Request(sending.on, header.src, header.dst, mac) \in Frame
    BY <1>3, <2>1, RequestType
  <2>3. sent' \subseteq Frame BY <1>4, <2>2 DEF Send
  <2>4. enetType' = [enetType EXCEPT ![sending.on] = "ARP"] BY <1>4 DEF Send
  <2>5. QED BY <1>1, <1>2, <2>3, <2>4
<1>5. ASSUME SendOn
      PROVE  sent' \subseteq Frame /\ enetType' \in [Iface -> EtherType]
  BY <1>4, <1>5, SendOnSends
<1>6. ASSUME NEW s \in Slot, NEW a \in Announcement, NEW t \in Target, ReceiveRequest(s, a, t)
      PROVE  sent' \subseteq Frame /\ enetType' = enetType
  <2>1. SlotIface[s] \in Iface BY BoundAssumption
  <2>2. QED BY <1>6, <2>1, AnswersType DEF ReceiveRequest
<1>7. ASSUME NEW out \in Iface, NEW mac \in MAC, NEW hop \in IPAddr, Transmit(out, mac, hop)
      PROVE  sent' \subseteq Frame /\ enetType' \in [Iface -> EtherType]
  BY <1>1, <1>2, <1>7, PacketType DEF Transmit
<1>8. ASSUME NEW s \in Slot, NEW hop \in IPAddr, NEW out \in Iface,
             \/ ForwardByProxy(s, hop, out)
             \/ ForwardCached(s, hop, out)
      PROVE  sent' \subseteq Frame /\ enetType' \in [Iface -> EtherType]
  <2>1. CASE ForwardByProxy(s, hop, out)
    <3>1. proxyTable[ProxyFor(hop)].mac \in MAC
      BY <2>1, ProxyForEffect DEF ForwardByProxy, Proxy, MAC
    <3>2. QED BY <1>7, <2>1, <3>1 DEF ForwardByProxy
  <2>2. CASE ForwardCached(s, hop, out)
    BY <1>7, <2>2, LookupType DEF ForwardCached
  <2>3. QED BY <1>8, <2>1, <2>2
<1>9. ASSUME NEW s \in Slot, ForwardAsk(s)
      PROVE  sent' \subseteq Frame /\ enetType' \in [Iface -> EtherType]
  <2>1. rx[s].hop \in IPAddr /\ rx[s].out \in Iface /\ rx[s].mac \in MAC
    BY <1>3 DEF TypeOK, Thread
  <2>2. myaddr[rx[s].out].ip \in IPAddr BY <2>1 DEF TypeOK, Address
  <2>3. Request(rx[s].out, myaddr[rx[s].out].ip, rx[s].hop, rx[s].mac) \in Frame
    BY <2>1, <2>2, RequestType
  <2>4. QED BY <1>1, <1>2, <1>9, <2>3 DEF ForwardAsk
<1>10. ASSUME NEW s \in Slot, ForwardWaited(s)
       PROVE  sent' \subseteq Frame /\ enetType' \in [Iface -> EtherType]
  <2>1. rx[s].hop \in IPAddr /\ rx[s].out \in Iface BY DEF TypeOK, Thread
  <2>2. QED BY <1>7, <1>10, <2>1, LookupType DEF ForwardWaited
<1>11. CASE UNCHANGED <<sent, enetType>> BY <1>1, <1>11
<1>12. CASE sent' = {} /\ UNCHANGED enetType BY <1>1, <1>12
<1>13. QED
  BY <1>5, <1>6, <1>8, <1>9, <1>10, <1>11, <1>12, <1>1
  DEF LayerStep, Unmoved, Quiet, Dialog, Progress, vars, TypeSource,
      OnCbnSelchangeComboAdapter, SelectRefused, Select, SendArp, Reselect, OnTimer,
      DeleteRow, ClearTable, CreateProxy, DeleteProxy, ReadTimeout, ReceiveIgnored,
      ReceiveReply, ForwardMiss, ForwardDropped, Tick

-----------------------------------------------------------------------------
(* The theorems. *)

LEMMA InitInv == Init => IInv
<1> SUFFICES ASSUME Init PROVE IInv OBVIOUS
<1>1. arpTable = << >> /\ arpList = {} BY DEF Init
<1>2. TableOK(arpTable) BY <1>1 DEF TableOK
<1>3. RowsBacked BY <1>1 DEF RowsBacked
<1>4. At("off") \in Thread /\ At("off").pc = "off"
  BY AddressAssumption DEF At, Thread, Iface
<1>5. rx \in [Slot -> Thread] /\ \A s \in Slot : rx[s].pc = "off" BY <1>4 DEF Init
<1>6. WaiterKeepsEntry BY <1>5 DEF WaiterKeepsEntry
<1>7. [ip |-> NoAddr, mac |-> ZeroMAC] \in Address BY AddressAssumption DEF Address
<1>8. fields \in [Iface -> Address] /\ myaddr \in [Iface -> Address] BY <1>7 DEF Init
<1>9. enetType \in [Iface -> EtherType] BY DEF Init, EtherType
<1>10. /\ arpTable \in Seq(Node) /\ Len(arpTable) <= MaxEntries
       /\ proxyTable \in Seq(Proxy) /\ sent = {} /\ selected = FALSE
       /\ lost = {} /\ heard = {}
  BY <1>1, BoundAssumption DEF Init
<1>11. sending \in Sending
  <2>1. sending = [job |-> "none", dst |-> NoAddr, on |-> INNER, from |-> 0]
    BY DEF Init, NotSending
  <2>2. QED BY <2>1, AddressAssumption, BoundAssumption DEF Sending, Iface
<1>12. QED BY <1>1, <1>2, <1>3, <1>5, <1>6, <1>8, <1>9, <1>10, <1>11 DEF IInv, TypeOK

LEMMA LayerInv ==
  ASSUME IInv, [LayerStep]_vars
  PROVE  IInv'
<1>1. TypeOK BY DEF IInv
<1>2. TableOK(arpTable') /\ Len(arpTable') <= MaxEntries BY TableStep
<1>3. TypeOK'
  BY <1>1, <1>2, ProxiesStep, AddressesStep, DialogStep, SendingStep, ThreadsStep,
     FramesStep
  DEF TableOK, TypeOK
<1>4. QED BY <1>2, <1>3, RowsStep, WaitersStep DEF IInv

THEOREM Invariance == Spec => []IInv
<1>1. IInv /\ [Next]_vars => IInv' BY LayerInv, NextIsLayerStep
<1>2. QED BY <1>1, InitInv, PTL DEF Spec

\* Every variable keeps its type.
THEOREM TypeCorrect == Spec => []TypeOK
BY Invariance, PTL DEF IInv

\* deleteItem finds the row's entry, whatever the handlers of the threads did to the
\* table since the dialog's list was refreshed, unless a Send has written over it.
THEOREM RowsAlwaysBacked == Spec => []RowsBacked
BY Invariance, PTL DEF IInv

\* A packet that waits for an address finds its entry unless the user or a disturbed
\* Send removed it.
THEOREM WaitersKeepTheirEntry == Spec => []WaiterKeepsEntry
BY Invariance, PTL DEF IInv

\* A binding in the table was announced, or taken over by the look of a MAC.
THEOREM BindingsAnnounced == Spec => []BindingAnnounced
<1>1. IInv => BindingAnnounced BY TableProperties DEF IInv
<1>2. QED BY <1>1, Invariance, PTL

\* While the program listens, each interface has a receive thread.
THEOREM ServedInterfaces == Spec => []InterfacesServed
<1>1. Init => InterfacesServed BY DEF Init, InterfacesServed
<1>2. TypeOK /\ InterfacesServed /\ [Next]_vars => InterfacesServed'
  <2> SUFFICES ASSUME TypeOK, InterfacesServed, [Next]_vars, selected', NEW f \in Iface
               PROVE  \E s \in Slot : SlotIface[s] = f /\ rx'[s].pc # "off"
    BY DEF InterfacesServed
  <2>1. rx \in [Slot -> Thread] BY DEF TypeOK
  <2>2. CASE Select
    <3>1. PICK T \in Startable : rx' = Spawn(T) BY <2>2 DEF Select
    <3> DEFINE mine == {s \in T : SlotIface[s] = f}
    <3>2. Cardinality(mine) = 1 /\ T \in SUBSET Slot BY <3>1 DEF Startable
    <3> HIDE DEF mine
    <3>3. mine # {} BY <3>2, FS_EmptySet
    <3>4. PICK s \in mine : TRUE BY <3>3
    <3>5. s \in T /\ s \in Slot /\ SlotIface[s] = f BY <3>2, <3>4 DEF mine
    <3>6. rx'[s] = At("read") BY <3>1, <3>5 DEF Spawn
    <3>7. rx'[s].pc # "off" BY <3>6 DEF At
    <3>8. QED BY <3>5, <3>7
  <2>3. CASE ~Select
    <3>0. ASSUME SendOn PROVE selected' = selected /\ \E ips : rx' = Forsake(ips)
      BY <3>0, SendOnSends DEF Send
    <3>1. selected
      BY <2>3, <3>0
      DEF Next, Dialog, Receive, Progress, vars, TypeSource, OnCbnSelchangeComboAdapter,
          SelectRefused, Reselect, SendArp, OnTimer, DeleteRow, ClearTable, CreateProxy,
          DeleteProxy, ReadTimeout, ReceiveIgnored, ReceiveRequest, ReceiveReply,
          ForwardByProxy, ForwardCached, ForwardMiss, ForwardAsk, ForwardWaited,
          ForwardDropped, Tick
    <3>2. PICK s \in Slot : SlotIface[s] = f /\ rx[s].pc # "off"
      BY <3>1 DEF InterfacesServed
    <3>3. ASSUME NEW q \in Slot, rx' = Resume(q) PROVE rx'[s].pc # "off"
      BY <2>1, <3>1, <3>2, <3>3 DEF Resume, At
    <3>4. ASSUME NEW ips, rx' = Forsake(ips) PROVE rx'[s].pc # "off"
      <4>1. \A t \in Thread : [t EXCEPT !.gone = TRUE].pc = t.pc BY DEF Thread
      <4>2. QED BY <2>1, <3>2, <3>4, <4>1 DEF Forsake
    <3>5. ASSUME NEW q \in Slot, NEW x, NEW y, NEW z,
                 \/ rx' = [rx EXCEPT ![q] = Asking(x, y, z)]
                 \/ rx' = [rx EXCEPT ![q] = Waiting(x, y, z)]
          PROVE  rx'[s].pc # "off"
      BY <2>1, <3>2, <3>5 DEF Asking, Waiting
    <3>6. rx'[s].pc # "off"
      <4>1. CASE SendOn BY <3>0, <3>4, <4>1
      <4>2. CASE \E q \in Slot : ForwardAsk(q) BY <3>5, <4>2, AskThread
      <4>3. CASE \E q \in Slot, n \in Hop : ForwardMiss(q, n.ip, n.out)
        BY <3>5, <4>3, MissThread
      <4>4. QED BY <2>3, <3>2, <3>3, <3>4, <4>1, <4>2, <4>3
        DEF Next, Dialog, Receive, Progress, vars, TypeSource, OnCbnSelchangeComboAdapter,
            SelectRefused, Reselect, SendArp, OnTimer, DeleteRow, ClearTable, CreateProxy,
            DeleteProxy, ReadTimeout, ReceiveIgnored, ReceiveRequest, ReceiveReply,
            ForwardByProxy, ForwardCached, ForwardWaited, ForwardDropped, Tick
    <3>7. QED BY <3>2, <3>6
  <2>4. QED BY <2>2, <2>3
<1>3. QED BY <1>1, <1>2, TypeCorrect, PTL DEF Spec

\* The layer answers for its inner address and for proxies' first rows only.
THEOREM OwnedAnswers == Spec => []AnswersOwned
<1> DEFINE Owned(frame) ==
      frame.body.op = "reply" =>
        /\ frame.body.dstIP # myaddr[INNER].ip
        /\ \/ frame.body.srcIP = myaddr[INNER].ip /\ frame.body.srcMAC = myaddr[INNER].mac
           \/ /\ frame.body.srcIP # myaddr[INNER].ip
              /\ \E i \in DOMAIN proxyTable :
                   /\ proxyTable[i].ip = frame.body.srcIP
                   /\ proxyTable[i].src = frame.body.srcMAC
                   /\ \A j \in 1 .. i - 1 : proxyTable[j].ip # frame.body.srcIP
<1>1. Init => AnswersOwned BY DEF Init, AnswersOwned
<1>2. TypeOK /\ AnswersOwned /\ [Next]_vars => AnswersOwned'
  <2> SUFFICES ASSUME TypeOK, AnswersOwned, [Next]_vars PROVE AnswersOwned' OBVIOUS
  <2>1. ASSUME NEW s \in Slot, NEW a \in Announcement, NEW t \in Target,
               ReceiveRequest(s, a, t)
        PROVE  AnswersOwned'
    <3> SUFFICES ASSUME NEW frame \in Answers(SlotIface[s], a, t) PROVE Owned(frame)
      BY <2>1 DEF ReceiveRequest, AnswersOwned
    <3>1. CASE t = myaddr[INNER].ip
      <4>1. frame = Reply(SlotIface[s], a, t, myaddr[INNER].mac) BY <3>1 DEF Answers
      <4>2. QED BY <2>1, <3>1, <4>1 DEF Reply, ReceiveRequest
    <3>2. CASE t # myaddr[INNER].ip /\ ProxyFor(t) # 0
      <4> DEFINE i == ProxyFor(t)
      <4>1. frame = Reply(SlotIface[s], a, t, proxyTable[i].src) BY <3>2 DEF Answers
      <4>2. /\ i \in 1 .. Len(proxyTable) /\ proxyTable[i].ip = t
            /\ \A j \in 1 .. i - 1 : proxyTable[j].ip # t
        BY <3>2, ProxyForEffect
      <4>3. i \in DOMAIN proxyTable BY <4>2 DEF TypeOK
      <4> HIDE DEF i
      <4>4. QED BY <2>1, <3>2, <4>1, <4>2, <4>3 DEF Reply, ReceiveRequest
    <3>3. QED BY <3>1, <3>2 DEF Answers
  <2>2. CASE UNCHANGED vars BY <2>2 DEF vars, AnswersOwned
  <2>3. CASE \A frame \in sent' : frame.body.op # "reply" BY <2>3 DEF AnswersOwned
  <2>4. ASSUME NEW f, NEW x, NEW y, NEW z
        PROVE  /\ Request(f, x, y, z).body.op = "request"
               /\ PacketFrame(f, x, y).body.op = "ip"
    BY DEF Request, PacketFrame
  <2>5. CASE SendOn
    <3>1. PICK ip \in IPAddr, header \in [src : IPAddr, dst : IPAddr] : Send(ip, header)
      BY <2>5, SendOnSends
    <3>2. PICK f, x, y, z : sent' = {Request(f, x, y, z)} BY <3>1 DEF Send
    <3>3. QED BY <2>3, <2>4, <3>2
  <2>6. ASSUME NEW out, NEW mac, NEW hop, Transmit(out, mac, hop) PROVE AnswersOwned'
    BY <2>3, <2>4, <2>6 DEF Transmit
  <2>7. ASSUME NEW s \in Slot, NEW n \in Hop,
               ForwardByProxy(s, n.ip, n.out) \/ ForwardCached(s, n.ip, n.out)
        PROVE  AnswersOwned'
    BY <2>6, <2>7 DEF ForwardByProxy, ForwardCached
  <2>8. ASSUME NEW s \in Slot, ForwardAsk(s) PROVE AnswersOwned'
    <3>1. PICK f, x, y, z : sent' = {Request(f, x, y, z)} BY <2>8 DEF ForwardAsk
    <3>2. QED BY <2>3, <2>4, <3>1
  <2>9. ASSUME NEW s \in Slot, ForwardWaited(s) PROVE AnswersOwned'
    BY <2>6, <2>9 DEF ForwardWaited
  <2>10. CASE sent' = {} BY <2>3, <2>10
  <2>11. QED
    BY <2>1, <2>2, <2>5, <2>7, <2>8, <2>9, <2>10
    DEF Next, Quiet, Dialog, Receive, Progress, TypeSource, OnCbnSelchangeComboAdapter,
        SelectRefused, Select, SendArp, Reselect, OnTimer, DeleteRow, ClearTable,
        CreateProxy, DeleteProxy, ReadTimeout, ReceiveIgnored, ReceiveReply, ForwardMiss,
        ForwardDropped, Tick
<1>3. QED BY <1>1, <1>2, TypeCorrect, PTL DEF Spec

-----------------------------------------------------------------------------
(* The cache implements Resolver. *)

\* The answer that an entry gives, and the answer of a table for an address.
View(node) ==
  [state |-> CASE node.status = "incomplete" -> "open"
               [] node.status = "complete" -> "known"
               [] node.status = "timeout" -> "stale",
   mac |-> node.mac]

Seen(table, ip) ==
  IF Holds(table, ip) THEN View(table[inCache(table, ip)]) ELSE Cache!Unknown

LEMMA AnswerSeen ==
  ASSUME NEW ip
  PROVE  AnswerOf(ip) = Seen(arpTable, ip) /\ AnswerOf(ip)' = Seen(arpTable', ip)
BY DEF AnswerOf, Seen, View, Cached, StatusOf, Lookup, Cache!Unknown

\* The first entry of an address is what is seen of it.
LEMMA SeenFirst ==
  ASSUME NEW table \in Seq(Node), NEW ip, NEW m \in 1 .. Len(table), table[m].ip = ip,
         \A j \in 1 .. m - 1 : table[j].ip # ip
  PROVE  inCache(table, ip) = m /\ Holds(table, ip) /\ Seen(table, ip) = View(table[m])
<1>1. inCache(table, ip) \in 1 .. m /\ table[inCache(table, ip)].ip = ip BY InCache
<1>2. inCache(table, ip) = m BY <1>1
<1>3. QED BY <1>2 DEF Seen, Holds

\* Nothing new is seen of an address whose entries all stay as they are.
LEMMA SeenKept ==
  ASSUME NEW table \in Seq(Node), NEW r \in Seq(Node), Len(table) <= Len(r), NEW ip,
         \A j \in 1 .. Len(table) : table[j].ip = ip => r[j] = table[j],
         \A j \in 1 .. Len(r) : r[j].ip = ip => j <= Len(table) /\ r[j] = table[j]
  PROVE  Seen(r, ip) = Seen(table, ip)
<1>1. CASE Holds(table, ip)
  <2> DEFINE m == inCache(table, ip)
  <2>1. /\ m \in 1 .. Len(table) /\ table[m].ip = ip
        /\ \A j \in 1 .. m - 1 : table[j].ip # ip
    BY <1>1, InCache DEF Holds
  <2> HIDE DEF m
  <2>2. m \in 1 .. Len(r) /\ r[m] = table[m] BY <2>1
  <2>3. \A j \in 1 .. m - 1 : r[j].ip # ip
    <3> SUFFICES ASSUME NEW j \in 1 .. m - 1, r[j].ip = ip PROVE FALSE OBVIOUS
    <3>1. j \in 1 .. Len(r) BY <2>2
    <3>2. r[j] = table[j] BY <3>1
    <3>3. QED BY <2>1, <3>2
  <2>4. QED BY <2>1, <2>2, <2>3, SeenFirst
<1>2. CASE ~Holds(table, ip)
  <2>1. \A j \in 1 .. Len(table) : table[j].ip # ip BY <1>2, HoldsEntry
  <2>2. ASSUME NEW j \in 1 .. Len(r), r[j].ip = ip PROVE FALSE
    <3>1. j \in 1 .. Len(table) /\ r[j] = table[j] BY <2>2
    <3>2. QED BY <2>1, <2>2, <3>1
  <2>3. ~Holds(r, ip) BY <2>2, HoldsEntry
  <2>4. QED BY <1>2, <2>3 DEF Seen
<1>3. QED BY <1>1, <1>2

\* What is seen after the two ways in which the table's operations write entries.
LEMMA SeenReplace ==
  ASSUME NEW table \in Seq(Node), NEW node \in Node, Holds(table, node.ip), NEW ip
  PROVE  LET r == ReplaceAt(table, inCache(table, node.ip), node)
         IN  Seen(r, ip) = IF ip = node.ip THEN View(node) ELSE Seen(table, ip)
<1> DEFINE m == inCache(table, node.ip)
<1> DEFINE r == ReplaceAt(table, m, node)
<1>1. /\ m \in 1 .. Len(table) /\ table[m].ip = node.ip
      /\ \A j \in 1 .. m - 1 : table[j].ip # node.ip
  BY InCache DEF Holds
<1> HIDE DEF m
<1>2. /\ r \in Seq(Node) /\ Keeps(table, r) /\ Len(r) = Len(table)
      /\ \A j \in 1 .. Len(r) : r[j] = IF j = m THEN node ELSE table[j]
  BY <1>1, ReplaceEffect
<1> HIDE DEF r
<1>3. CASE ip = node.ip
  <2>1. m \in 1 .. Len(r) /\ r[m] = node BY <1>1, <1>2
  <2>2. \A j \in 1 .. m - 1 : r[j].ip # ip BY <1>1, <1>2, <1>3
  <2>3. Seen(r, ip) = View(node) BY <1>2, <1>3, <2>1, <2>2, SeenFirst
  <2>4. QED BY <1>3, <2>3 DEF r, m
<1>4. CASE ip # node.ip
  <2>1. /\ \A j \in 1 .. Len(table) : table[j].ip = ip => r[j] = table[j]
        /\ \A j \in 1 .. Len(r) : r[j].ip = ip => j <= Len(table) /\ r[j] = table[j]
    BY <1>1, <1>2, <1>4
  <2>2. Seen(r, ip) = Seen(table, ip) BY <1>2, <2>1, SeenKept
  <2>3. QED BY <1>4, <2>2 DEF r, m
<1>5. QED BY <1>3, <1>4

LEMMA SeenAppend ==
  ASSUME NEW table \in Seq(Node), NEW node \in Node, NEW ip
  PROVE  Seen(Append(table, node), ip) =
           IF ip = node.ip /\ ~Holds(table, ip) THEN View(node) ELSE Seen(table, ip)
<1> DEFINE r == Append(table, node)
<1>1. /\ r \in Seq(Node) /\ Keeps(table, r) /\ Len(r) = Len(table) + 1
      /\ \A j \in 1 .. Len(r) : r[j] = IF j = Len(table) + 1 THEN node ELSE table[j]
  BY AppendEffect
<1> HIDE DEF r
<1>2. CASE ip = node.ip /\ ~Holds(table, ip)
  <2>1. \A j \in 1 .. Len(table) : r[j].ip # ip BY <1>1, <1>2, HoldsEntry
  <2>2. Len(r) \in 1 .. Len(r) /\ r[Len(r)] = node BY <1>1
  <2>3. \A j \in 1 .. Len(r) - 1 : r[j].ip # ip BY <1>1, <2>1
  <2>4. Seen(r, ip) = View(node) BY <1>1, <1>2, <2>2, <2>3, SeenFirst
  <2>5. QED BY <1>2, <2>4 DEF r
<1>3. CASE ip # node.ip
  <2>1. /\ \A j \in 1 .. Len(table) : table[j].ip = ip => r[j] = table[j]
        /\ \A j \in 1 .. Len(r) : r[j].ip = ip => j <= Len(table) /\ r[j] = table[j]
    BY <1>1, <1>3
  <2>2. Seen(r, ip) = Seen(table, ip) BY <1>1, <2>1, SeenKept
  <2>3. QED BY <1>3, <2>2 DEF r
<1>4. CASE Holds(table, ip)
  <2> DEFINE m == inCache(table, ip)
  <2>1. /\ m \in 1 .. Len(table) /\ table[m].ip = ip
        /\ \A j \in 1 .. m - 1 : table[j].ip # ip
    BY <1>4, InCache DEF Holds
  <2> HIDE DEF m
  <2>2. m \in 1 .. Len(r) /\ r[m] = table[m] /\ \A j \in 1 .. m - 1 : r[j].ip # ip
    BY <1>1, <2>1
  <2>3. Seen(r, ip) = View(table[m]) /\ Seen(table, ip) = View(table[m])
    BY <1>1, <2>1, <2>2, SeenFirst
  <2>4. QED BY <1>4, <2>3 DEF r
<1>5. QED BY <1>2, <1>3, <1>4

\* A question written over the entry of another address changes what is seen of the
\* two at most.
LEMMA SeenDisplaced ==
  ASSUME NEW table \in Seq(Node), NEW seek, NEW node \in Node, Holds(table, seek),
         seek # node.ip
  PROVE  LET r == ReplaceAt(table, inCache(table, seek), node)
         IN  /\ Seen(r, node.ip) \in {Seen(table, node.ip), View(node)}
             /\ \A ip : ip \notin {seek, node.ip} => Seen(r, ip) = Seen(table, ip)
<1> DEFINE m == inCache(table, seek)
<1> DEFINE r == ReplaceAt(table, m, node)
<1>1. m \in 1 .. Len(table) /\ table[m].ip = seek BY InCache DEF Holds
<1> HIDE DEF m
<1>2. /\ r \in Seq(Node) /\ Len(r) = Len(table)
      /\ \A j \in 1 .. Len(r) : r[j] = IF j = m THEN node ELSE table[j]
  BY <1>1, ReplaceAny
<1> HIDE DEF r
<1>3. ASSUME NEW ip, ip \notin {seek, node.ip} PROVE Seen(r, ip) = Seen(table, ip)
  <2>1. /\ \A j \in 1 .. Len(table) : table[j].ip = ip => r[j] = table[j]
        /\ \A j \in 1 .. Len(r) : r[j].ip = ip => j <= Len(table) /\ r[j] = table[j]
    BY <1>1, <1>2, <1>3
  <2>2. QED BY <1>2, <2>1, SeenKept
<1>4. Seen(r, node.ip) \in {Seen(table, node.ip), View(node)}
  <2> DEFINE k == inCache(r, node.ip)
  <2>1. Holds(r, node.ip) BY <1>1, <1>2, HoldsEntry
  <2>2. /\ k \in 1 .. Len(r) /\ r[k].ip = node.ip
        /\ \A j \in 1 .. k - 1 : r[j].ip # node.ip
    BY <1>2, <2>1, InCache DEF Holds
  <2> HIDE DEF k
  <2>3. Seen(r, node.ip) = View(r[k]) BY <1>2, <2>2, SeenFirst
  <2>4. CASE k = m BY <1>1, <1>2, <2>3, <2>4
  <2>5. CASE k # m
    <3>1. r[k] = table[k] /\ k \in 1 .. Len(table) BY <1>2, <2>2, <2>5
    <3>2. ASSUME NEW j \in 1 .. k - 1 PROVE table[j].ip # node.ip
      <4>1. j \in 1 .. Len(r) BY <2>2
      <4>2. CASE j = m BY <1>1, <4>2
      <4>3. CASE j # m BY <1>2, <2>2, <4>1, <4>3
      <4>4. QED BY <4>2, <4>3
    <3>3. Seen(table, node.ip) = View(table[k]) BY <2>2, <3>1, <3>2, SeenFirst
    <3>4. QED BY <2>3, <3>1, <3>3
  <2>6. QED BY <2>4, <2>5
<1>5. QED BY <1>3, <1>4 DEF r, m

LEMMA NewNodeView ==
  ASSUME NEW ip, NEW mac
  PROVE  /\ View(NewNode(ip, mac, "complete")) = Cache!Known(mac)
         /\ View(NewNode(ip, mac, "incomplete")) = Cache!Open(mac)
         /\ NewNode(ip, mac, "complete").ip = ip
         /\ NewNode(ip, mac, "incomplete").ip = ip
BY DEF View, NewNode, Cache!Known, Cache!Open

\* What is seen after each operation.
LEMMA SeenStored ==
  ASSUME NEW table \in Seq(Node), NEW seek, NEW node \in Node, NEW missed \in BOOLEAN,
         NEW r \in Stored(table, seek, node, missed)
  PROVE  /\ Seen(r, node.ip) \in {Seen(table, node.ip), View(node)}
         /\ \A ip : ip \notin {seek, node.ip} => Seen(r, ip) = Seen(table, ip)
<1>1. CASE r = Append(table, node) BY <1>1, SeenAppend
<1>2. CASE r = Put(table, seek, node) /\ ~Holds(table, seek)
  BY <1>1, <1>2 DEF Put
<1>3. CASE r = Put(table, seek, node) /\ Holds(table, seek)
  <2>1. r = ReplaceAt(table, inCache(table, seek), node) BY <1>3 DEF Put
  <2>2. CASE seek = node.ip BY <1>3, <2>1, <2>2, SeenReplace
  <2>3. CASE seek # node.ip BY <1>3, <2>1, <2>3, SeenDisplaced
  <2>4. QED BY <2>2, <2>3
<1>4. QED BY <1>1, <1>2, <1>3 DEF Stored

\* A request is taken for at most one address, which its station claims.
LEMMA SeenRequest ==
  ASSUME NEW table \in Seq(Node), NEW a \in Announcement
  PROVE  LET r == HearRequest(table, a.ip, a.mac)
         IN  \/ \A ip : Seen(r, ip) = Seen(table, ip)
             \/ \E to \in {a.ip, FirstFour[a.mac]} : \A ip :
                  Seen(r, ip) = IF ip = to THEN Cache!Known(a.mac) ELSE Seen(table, ip)
<1> DEFINE r == HearRequest(table, a.ip, a.mac)
<1>1. a.ip \in IPAddr /\ a.mac \in HostMAC BY AddressAssumption
<1>2. FirstFour[a.mac] \in IPAddr /\ a.mac \in MAC /\ "complete" \in Status
  BY <1>1, MACAssumption DEF MAC, Status
<1>3. ASSUME NEW to \in IPAddr
      PROVE  LET node == NewNode(to, a.mac, "complete")
             IN  node \in Node /\ node.ip = to /\ View(node) = Cache!Known(a.mac)
  BY <1>2, NewNodeType, NewNodeView
<1>4. CASE Holds(table, FirstFour[a.mac])
  <2> DEFINE to == FirstFour[a.mac]
  <2> DEFINE node == NewNode(to, a.mac, "complete")
  <2>1. table[inCache(table, to)].ip = to BY <1>4, InCache DEF Holds
  <2>2. r = ReplaceAt(table, inCache(table, to), node)
    BY <1>4, <2>1 DEF HearRequest, Complete, Holds
  <2>3. node \in Node /\ node.ip = to /\ View(node) = Cache!Known(a.mac) BY <1>2, <1>3
  <2> HIDE DEF node, r
  <2>4. \A ip : Seen(r, ip) = IF ip = to THEN Cache!Known(a.mac) ELSE Seen(table, ip)
    BY <1>4, <2>2, <2>3, SeenReplace
  <2>5. QED BY <2>4 DEF r
<1>5. CASE ~Holds(table, FirstFour[a.mac])
  <2> DEFINE node == NewNode(a.ip, a.mac, "complete")
  <2>1. r = Append(table, node) BY <1>5 DEF HearRequest, Holds
  <2>2. node \in Node /\ node.ip = a.ip /\ View(node) = Cache!Known(a.mac) BY <1>1, <1>3
  <2> HIDE DEF node, r
  <2>3. \A ip : Seen(r, ip) = IF ip = a.ip /\ ~Holds(table, ip)
                              THEN Cache!Known(a.mac) ELSE Seen(table, ip)
    BY <2>1, <2>2, SeenAppend
  <2>4. CASE Holds(table, a.ip)
    <3>1. \A ip : Seen(r, ip) = Seen(table, ip) BY <2>3, <2>4
    <3>2. QED BY <3>1 DEF r
  <2>5. CASE ~Holds(table, a.ip)
    <3>1. \A ip : Seen(r, ip) = IF ip = a.ip THEN Cache!Known(a.mac) ELSE Seen(table, ip)
      BY <2>3, <2>5
    <3>2. QED BY <3>1 DEF r
  <2>6. QED BY <2>4, <2>5
<1>6. QED BY <1>4, <1>5

LEMMA SeenReply ==
  ASSUME NEW table \in Seq(Node), NEW a \in Announcement, NEW ip
  PROVE  Seen(HearReply(table, a.ip, a.mac), ip) =
           IF Holds(table, a.ip) /\ ip = a.ip THEN Cache!Known(a.mac) ELSE Seen(table, ip)
<1> DEFINE node == NewNode(a.ip, a.mac, "complete")
<1>1. a.ip \in IPAddr /\ a.mac \in MAC BY AddressAssumption DEF MAC
<1>2. node \in Node /\ node.ip = a.ip /\ View(node) = Cache!Known(a.mac)
  BY <1>1, NewNodeType, NewNodeView DEF Status
<1>3. CASE Holds(table, a.ip)
  <2>1. table[inCache(table, a.ip)].ip = a.ip BY <1>3, InCache DEF Holds
  <2>2. HearReply(table, a.ip, a.mac) = ReplaceAt(table, inCache(table, a.ip), node)
    BY <1>3, <2>1 DEF HearReply, Complete
  <2> HIDE DEF node
  <2>3. Seen(ReplaceAt(table, inCache(table, a.ip), node), ip) =
          IF ip = a.ip THEN View(node) ELSE Seen(table, ip)
    BY ONLY <1>2, <1>3, table \in Seq(Node), SeenReplace
  <2>4. QED BY ONLY <1>2, <1>3, <2>2, <2>3
<1>4. CASE ~Holds(table, a.ip) BY <1>4 DEF HearReply
<1>5. QED BY <1>3, <1>4

LEMMA FirstStays ==
  ASSUME NEW table \in Seq(Node), NEW r \in Seq(Node), Keeps(table, r),
         Len(r) = Len(table), NEW ip
  PROVE  \/ Seen(table, ip) = Cache!Unknown /\ Seen(r, ip) = Cache!Unknown
         \/ \E m \in 1 .. Len(table) :
              Seen(table, ip) = View(table[m]) /\ Seen(r, ip) = View(r[m])
<1>1. CASE Holds(table, ip)
  <2> DEFINE m == inCache(table, ip)
  <2>1. /\ m \in 1 .. Len(table) /\ table[m].ip = ip
        /\ \A j \in 1 .. m - 1 : table[j].ip # ip
    BY <1>1, InCache DEF Holds
  <2> HIDE DEF m
  <2>2. m \in 1 .. Len(r) /\ r[m].ip = ip /\ \A j \in 1 .. m - 1 : r[j].ip # ip
    BY <2>1 DEF Keeps
  <2>3. Seen(table, ip) = View(table[m]) /\ Seen(r, ip) = View(r[m])
    BY <2>1, <2>2, SeenFirst
  <2>4. QED BY <2>1, <2>3
<1>2. CASE ~Holds(table, ip)
  <2>1. \A j \in 1 .. Len(r) : r[j].ip # ip BY <1>2, HoldsEntry DEF Keeps
  <2>2. ~Holds(r, ip) BY <2>1, HoldsEntry
  <2>3. QED BY <1>2, <2>2 DEF Seen
<1>3. QED BY <1>1, <1>2

\* The timer makes answers stale and changes none otherwise.
LEMMA SeenTimer ==
  ASSUME NEW table \in Seq(Node), NEW ip
  PROVE  LET r == updateTable(table)
         IN  \/ Seen(r, ip) = Seen(table, ip)
             \/ /\ Seen(table, ip).state \in {"open", "known"}
                /\ Seen(r, ip) = Cache!Stale(Seen(table, ip).mac)
<1> DEFINE r == updateTable(table)
<1>1. /\ r \in Seq(Node) /\ Keeps(table, r) /\ Len(r) = Len(table)
      /\ \A j \in 1 .. Len(r) :
           r[j].mac = table[j].mac /\ r[j].status \in {table[j].status, "timeout"}
  BY UpdateTableEffect
<1> HIDE DEF r
<1>2. ASSUME NEW m \in 1 .. Len(table)
      PROVE  \/ View(r[m]) = View(table[m])
             \/ /\ View(table[m]).state \in {"open", "known"}
                /\ View(r[m]) = Cache!Stale(View(table[m]).mac)
  <2>1. table[m] \in Node BY <1>1
  <2>2. table[m].status \in Status BY <2>1 DEF Node
  <2>3. CASE r[m].status = table[m].status BY <1>1, <2>3 DEF View
  <2>4. CASE r[m].status = "timeout" /\ table[m].status \in {"incomplete", "complete"}
    BY <1>1, <2>4 DEF View, Cache!Stale
  <2>5. QED BY <1>1, <2>2, <2>3, <2>4 DEF Status
<1>3. \/ Seen(r, ip) = Seen(table, ip)
      \/ \E m \in 1 .. Len(table) :
           Seen(table, ip) = View(table[m]) /\ Seen(r, ip) = View(r[m])
  BY <1>1, FirstStays
<1>4. QED BY <1>2, <1>3 DEF r

LEMMA SeenClock ==
  ASSUME NEW table \in Seq(Node), NEW ip
  PROVE  Seen(Older(table), ip) = Seen(table, ip)
<1> DEFINE r == Older(table)
<1>1. /\ r \in Seq(Node) /\ Keeps(table, r) /\ Len(r) = Len(table)
      /\ \A j \in 1 .. Len(r) : r[j].mac = table[j].mac /\ r[j].status = table[j].status
  BY OlderEffect
<1> HIDE DEF r
<1>2. \A m \in 1 .. Len(table) : View(r[m]) = View(table[m]) BY <1>1 DEF View
<1>3. Seen(r, ip) = Seen(table, ip) BY <1>1, <1>2, FirstStays
<1>4. QED BY <1>3 DEF r

\* Of the other addresses nothing new is seen after a deletion.
LEMMA SeenDelete ==
  ASSUME NEW table, TableOK(table), NEW ip, Holds(table, ip)
  PROVE  LET r == deleteItem(table, ip)
         IN  \A other : other # ip => Seen(r, other) = Seen(table, other)
<1> DEFINE r == deleteItem(table, ip)
<1> DEFINE index == inCache(table, ip)
<1> DEFINE old(j) == IF j < index THEN j ELSE j + 1
<1>1. table \in Seq(Node) BY DEF TableOK
<1>2. /\ r \in Seq(Node) /\ Len(r) = Len(table) - 1 /\ index \in 1 .. Len(table)
      /\ \A j \in 1 .. Len(r) :
           r[j] = IF j < index THEN table[j] ELSE table[j + 1]
  BY <1>1, DeleteItemEffect
<1>3. table[index].ip = ip /\ \A j \in 1 .. index - 1 : table[j].ip # ip
  BY <1>1, <1>2, InCache
<1> HIDE DEF r, index
<1>4. \A j \in 1 .. Len(r) :
        old(j) \in 1 .. Len(table) /\ old(j) # index /\ r[j] = table[old(j)]
  BY <1>1, <1>2
<1>5. ASSUME NEW other, other # ip PROVE Seen(r, other) = Seen(table, other)
  <2>1. CASE Holds(table, other)
    <3> DEFINE m == inCache(table, other)
    <3>1. /\ m \in 1 .. Len(table) /\ table[m].ip = other
          /\ \A j \in 1 .. m - 1 : table[j].ip # other
      BY <1>1, <2>1, InCache DEF Holds
    <3> HIDE DEF m
    <3>2. m # index BY <1>3, <1>5, <3>1
    <3>3. PICK n \in 1 .. Len(r) : old(n) = m
      <4>1. CASE m < index BY <1>1, <1>2, <3>1, <4>1
      <4>2. CASE m > index
        <5>1. m - 1 \in 1 .. Len(r) /\ old(m - 1) = m BY <1>1, <1>2, <3>1, <4>2
        <5>2. QED BY <5>1
      <4>3. QED BY <1>2, <3>1, <3>2, <4>1, <4>2
    <3>4. r[n] = table[m] BY <1>4, <3>3
    <3>5. ASSUME NEW j \in 1 .. n - 1 PROVE r[j].ip # other
      <4>1. j \in 1 .. Len(r) /\ j < n BY <3>3
      <4>2. r[j] = table[old(j)] /\ old(j) \in 1 .. Len(table) BY <1>4, <4>1
      <4>3. old(j) < old(n) BY <1>2, <3>3, <4>1
      <4> HIDE DEF old
      <4>4. old(j) \in 1 .. m - 1 BY <3>1, <3>3, <4>2, <4>3
      <4>5. QED BY <3>1, <4>2, <4>4
    <3>6. Seen(table, other) = View(table[m]) BY <1>1, <3>1, SeenFirst
    <3>7. r[n].ip = other BY <3>1, <3>4
    <3> HIDE DEF old
    <3>8. Seen(r, other) = View(r[n]) BY <1>2, <3>5, <3>7, SeenFirst
    <3>9. QED BY <3>4, <3>6, <3>8
  <2>2. CASE ~Holds(table, other)
    <3>1. \A j \in 1 .. Len(r) : r[j].ip # other
      BY <1>1, <1>4, <2>2, HoldsEntry
    <3>2. ~Holds(r, other) BY <1>2, <3>1, HoldsEntry
    <3>3. QED BY <2>2, <3>2 DEF Seen
  <2>3. QED BY <2>1, <2>2
<1>6. QED BY <1>5 DEF r

\* The abstract specification's claims are those of the layer.
LEMMA ClaimantIsStations ==
  ASSUME NEW ip \in IPAddr
  PROVE  Cache!Claimant(ip) = StationsOf(ip)
BY DEF Cache!Claimant, StationsOf

\* Whatever is seen of a table that is right can have been the answer.
LEMMA SeenOlder ==
  ASSUME NEW table, TableOK(table), NEW ip \in IPAddr
  PROVE  Seen(table, ip) \in Cache!Older(ip)
<1> DEFINE m == inCache(table, ip)
<1>1. table \in Seq(Node) BY DEF TableOK
<1>2. CASE ~Holds(table, ip) BY <1>2 DEF Seen, Cache!Older
<1>3. CASE Holds(table, ip)
  <2>1. m \in 1 .. Len(table) /\ table[m].ip = ip BY <1>1, <1>3, InCache DEF Holds
  <2>2. Seen(table, ip) = View(table[m]) BY <1>3 DEF Seen
  <2> HIDE DEF m
  <2>3. table[m] \in Node /\ Sound(table[m]) BY <1>1, <2>1 DEF TableOK
  <2>4. table[m].status \in Status BY <2>3 DEF Node
  <2>5. CASE table[m].status = "incomplete"
    <3>1. table[m].mac \in {Broadcast, ZeroMAC} BY <2>3, <2>5 DEF Sound
    <3>2. View(table[m]) = Cache!Open(table[m].mac) BY <2>5 DEF View, Cache!Open
    <3>3. QED BY <2>2, <3>1, <3>2 DEF Cache!Older, Cache!Questions
  <2>6. CASE table[m].status = "complete"
    <3>1. table[m].mac \in StationsOf(ip) BY <2>1, <2>3, <2>6 DEF Sound, Announced
    <3>2. View(table[m]) = Cache!Known(table[m].mac) BY <2>6 DEF View, Cache!Known
    <3>3. QED BY <2>2, <3>1, <3>2, ClaimantIsStations DEF Cache!Older
  <2>7. CASE table[m].status = "timeout"
    <3>1. table[m].mac \in StationsOf(ip) \cup {Broadcast, ZeroMAC} BY <2>1, <2>3 DEF Sound
    <3>2. View(table[m]) = Cache!Stale(table[m].mac) BY <2>7 DEF View, Cache!Stale
    <3>3. QED BY <2>2, <3>1, <3>2, ClaimantIsStations DEF Cache!Older
  <2>8. QED BY <2>4, <2>5, <2>6, <2>7 DEF Status
<1>4. QED BY <1>2, <1>3

answers == [ip \in IPAddr |-> AnswerOf(ip)]

\* Steps of Resolver, in terms of the answers that change.
Changes(as) ==
  answers' = [ip \in IPAddr |-> IF ip \in as THEN answers'[ip] ELSE answers[ip]]

\* A question that is stored is asked, or displaces the entry of another address.
LEMMA StoredStep ==
  ASSUME TableOK(arpTable), NEW ip \in IPAddr, NEW seek \in IPAddr,
         NEW mac \in {Broadcast, ZeroMAC}, NEW missed \in BOOLEAN,
         arpTable' \in Stored(arpTable, seek, Question(ip, mac), missed), heard' = {}
  PROVE  [Cache!Next]_answers
<1> DEFINE node == Question(ip, mac)
<1>1. node \in Node /\ node.ip = ip /\ View(node) = Cache!Open(mac)
  BY QuestionNode, NewNodeView DEF Question
<1>2. arpTable \in Seq(Node) BY DEF TableOK
<1> HIDE DEF node
<1>3. /\ Seen(arpTable', ip) \in {Seen(arpTable, ip), Cache!Open(mac)}
      /\ \A x : x \notin {seek, ip} => Seen(arpTable', x) = Seen(arpTable, x)
  BY <1>1, <1>2, SeenStored DEF node
<1>4. TableOK(arpTable') BY QuestionKeepsTable
<1>5. /\ answers = [x \in IPAddr |-> Seen(arpTable, x)]
      /\ answers' = [x \in IPAddr |-> Seen(arpTable', x)]
  BY AnswerSeen DEF answers
<1>6. Cache!Open(mac) \in Cache!Questions BY DEF Cache!Questions
<1>7. CASE seek = ip
  <2>1. CASE Seen(arpTable', ip) = Seen(arpTable, ip)
    <3>1. UNCHANGED answers BY <1>3, <1>5, <1>7, <2>1
    <3>2. QED BY <3>1
  <2>2. CASE Seen(arpTable', ip) = Cache!Open(mac)
    <3>1. Changes({ip}) BY <1>3, <1>5, <1>7 DEF Changes
    <3>2. answers'[ip] \in Cache!Questions BY <1>5, <1>6, <2>2
    <3>3. Cache!Ask(ip) BY <3>1, <3>2 DEF Cache!Ask, Cache!Only, Changes, answers
    <3>4. QED BY <3>3 DEF Cache!Next
  <2>3. QED BY <1>3, <2>1, <2>2
<1>8. CASE seek # ip
  <2>1. Changes({ip, seek}) BY <1>3, <1>5 DEF Changes
  <2>2. answers'[ip] \in {answers[ip]} \cup Cache!Questions BY <1>3, <1>5, <1>6
  <2>3. answers'[seek] \in Cache!Older(seek) BY <1>4, <1>5, SeenOlder
  <2>4. Cache!Displace(ip, seek)
    BY <2>1, <2>2, <2>3 DEF Cache!Displace, Cache!Only, Changes, answers
  <2>5. seek \in IPAddr \ {ip} BY <1>8
  <2>6. QED BY <2>4, <2>5 DEF Cache!Next
<1>9. QED BY <1>7, <1>8

\* Every step of the layer is a step of Resolver, or none.
LEMMA ResolverStep ==
  ASSUME IInv, [LayerStep]_vars
  PROVE  [Cache!Next]_answers
<1>1. TypeOK /\ TableOK(arpTable) /\ arpTable \in Seq(Node) /\ TableOK(arpTable')
  BY TableStep DEF IInv, TypeOK
<1>2. /\ answers = [ip \in IPAddr |-> Seen(arpTable, ip)]
      /\ answers' = [ip \in IPAddr |-> Seen(arpTable', ip)]
  BY AnswerSeen DEF answers
<1>3. ASSUME NEW a \in IPAddr,
             \A ip \in IPAddr : ip # a => Seen(arpTable', ip) = Seen(arpTable, ip)
      PROVE  Changes({a})
  BY <1>2, <1>3 DEF Changes
<1>4. ASSUME \A ip \in IPAddr : Seen(arpTable', ip) = Seen(arpTable, ip)
      PROVE  UNCHANGED answers
  BY <1>2, <1>4
<1>5. ASSUME UNCHANGED arpTable PROVE UNCHANGED answers BY <1>4, <1>5
<1>6. ASSUME NEW a \in Announcement, NEW to \in {a.ip, FirstFour[a.mac]}, heard' = {a},
             \A ip : Seen(arpTable', ip) = IF ip = to THEN Cache!Known(a.mac)
                                           ELSE Seen(arpTable, ip)
      PROVE  Cache!Next
  <2>1. a.mac \in HostMAC /\ a.ip \in IPAddr BY AddressAssumption
  <2>2. to \in IPAddr BY <2>1, MACAssumption
  <2>3. Changes({to}) BY <1>3, <1>6, <2>2
  <2>4. answers'[to] = Cache!Known(a.mac) BY <1>2, <1>6, <2>2
  <2>5. Cache!Learn(to, a)
    BY <1>6, <2>3, <2>4 DEF Cache!Learn, Cache!Only, Changes, answers
  <2>6. QED BY <2>2, <2>5 DEF Cache!Next
<1>7. ASSUME NEW ip \in IPAddr, NEW header \in [src : IPAddr, dst : IPAddr], Send(ip, header)
      PROVE  [Cache!Next]_answers
  <2>1. CASE header.src = header.dst
    <3>1. UNCHANGED arpTable BY <1>7, <2>1 DEF Send
    <3>2. QED BY <1>5, <3>1
  <2>2. CASE header.src # header.dst
    <3>1. PICK mac \in {Broadcast, ZeroMAC}, missed \in BOOLEAN :
            arpTable' \in Stored(arpTable, header.dst, Question(ip, mac), missed)
      <4>1. (IF is_Garp THEN Broadcast ELSE ZeroMAC) \in {Broadcast, ZeroMAC} OBVIOUS
      <4>2. (inCache(arpTable, header.dst) > sending.from) \in BOOLEAN OBVIOUS
      <4>3. QED BY <1>7, <2>2, <4>1, <4>2 DEF Send
    <3>2. header.dst \in IPAddr /\ heard' = {} BY <1>7 DEF Send
    <3>3. QED BY <1>1, <3>1, <3>2, StoredStep
  <2>3. QED BY <2>1, <2>2
<1>8. ASSUME SendOn PROVE [Cache!Next]_answers BY <1>1, <1>7, <1>8, SendOnSends
<1>9. ASSUME OnTimer PROVE [Cache!Next]_answers
  <2>1. arpTable' = updateTable(arpTable) BY <1>9 DEF OnTimer
  <2>2. \A ip \in IPAddr : \/ answers'[ip] = answers[ip]
                           \/ /\ answers[ip].state \in {"open", "known"}
                              /\ answers'[ip] = Cache!Stale(answers[ip].mac)
    BY <1>1, <1>2, <2>1, SeenTimer
  <2>3. Changes(IPAddr) BY <1>2 DEF Changes
  <2>4. Cache!Expire BY <2>2, <2>3 DEF Cache!Expire, Cache!Only, Changes, answers
  <2>5. QED BY <2>4 DEF Cache!Next
<1>10. ASSUME Tick PROVE UNCHANGED answers
  BY <1>1, <1>4, <1>10, SeenClock DEF Tick
<1>11. ASSUME NEW ip \in IPAddr, DeleteRow(ip) PROVE [Cache!Next]_answers
  <2>1. Holds(arpTable, ip) /\ arpTable' = deleteItem(arpTable, ip) /\ heard' = {}
    BY <1>11 DEF Cached, DeleteRow, Quiet
  <2>2. \A other : other # ip => Seen(arpTable', other) = Seen(arpTable, other)
    BY <1>1, <2>1, SeenDelete
  <2>3. Changes({ip}) BY <1>3, <2>2
  <2>4. answers'[ip] \in Cache!Older(ip) BY <1>1, <1>2, SeenOlder
  <2>5. Cache!Forget(ip)
    BY <2>1, <2>3, <2>4 DEF Cache!Forget, Cache!Only, Changes, answers
  <2>6. QED BY <2>5 DEF Cache!Next
<1>12. ASSUME ClearTable PROVE [Cache!Next]_answers
  <2>1. arpTable' = << >> BY <1>12 DEF ClearTable
  <2>2. arpTable' \in Seq(Node) /\ Len(arpTable') = 0 BY <2>1
  <2>3. \A ip : ~Holds(arpTable', ip) BY <2>2, EmptyHolds
  <2>4. \A ip : Seen(arpTable', ip) = Cache!Unknown BY <2>1, <2>3 DEF Seen
  <2>5. Cache!ForgetAll BY <1>2, <2>4 DEF Cache!ForgetAll, answers
  <2>6. QED BY <2>5 DEF Cache!Next
<1>13. ASSUME NEW s \in Slot, NEW a \in Announcement, NEW t \in Target, ReceiveRequest(s, a, t)
       PROVE  [Cache!Next]_answers
  <2>1. arpTable' = HearRequest(arpTable, a.ip, a.mac) /\ heard' = {a}
    BY <1>13 DEF ReceiveRequest
  <2>2. CASE \A ip : Seen(arpTable', ip) = Seen(arpTable, ip) BY <1>4, <2>2
  <2>3. QED BY <1>1, <1>6, <2>1, <2>2, SeenRequest
<1>14. ASSUME NEW s \in Slot, NEW a \in Announcement, ReceiveReply(s, a)
       PROVE  [Cache!Next]_answers
  <2>1. arpTable' = HearReply(arpTable, a.ip, a.mac) /\ heard' = {a}
    BY <1>14 DEF ReceiveReply
  <2>2. \A ip : Seen(arpTable', ip) = IF Holds(arpTable, a.ip) /\ ip = a.ip
                                      THEN Cache!Known(a.mac) ELSE Seen(arpTable, ip)
    BY <1>1, <2>1, SeenReply
  <2>3. CASE Holds(arpTable, a.ip) BY <1>6, <2>1, <2>2, <2>3
  <2>4. CASE ~Holds(arpTable, a.ip) BY <1>4, <2>2, <2>4
  <2>5. QED BY <2>3, <2>4
<1>15. ASSUME NEW s \in Slot, ForwardAsk(s) PROVE [Cache!Next]_answers
  <2>1. CASE myaddr[rx[s].out].ip = rx[s].hop
    <3>1. UNCHANGED arpTable BY <1>15, <2>1 DEF ForwardAsk
    <3>2. QED BY <1>5, <3>1
  <2>2. CASE myaddr[rx[s].out].ip # rx[s].hop
    <3>1. arpTable' \in Stored(arpTable, rx[s].hop, Question(rx[s].hop, rx[s].mac), TRUE)
      BY <1>15, <2>2 DEF ForwardAsk
    <3>2. rx[s].hop \in IPAddr /\ rx[s].mac \in {Broadcast, ZeroMAC}
      BY <1>1 DEF TypeOK, Thread
    <3>3. heard' = {} BY <1>15 DEF ForwardAsk
    <3>4. QED BY <1>1, <3>1, <3>2, <3>3, StoredStep
  <2>3. QED BY <2>1, <2>2
<1>16. QED
  BY <1>5, <1>8, <1>9, <1>10, <1>11, <1>12, <1>13, <1>14, <1>15
  DEF LayerStep, Unmoved, Dialog, Progress, vars, TypeSource, OnCbnSelchangeComboAdapter,
      SelectRefused, Select, Reselect, SendArp, CreateProxy, DeleteProxy, ReadTimeout,
      ReceiveIgnored, ForwardByProxy, ForwardCached, ForwardMiss, ForwardWaited,
      ForwardDropped

LEMMA InitResolver == Init => Cache!Init
<1> SUFFICES ASSUME Init PROVE answers = [ip \in IPAddr |-> Cache!Unknown] /\ heard = {}
  BY DEF Cache!Init, answers
<1>1. arpTable \in Seq(Node) /\ Len(arpTable) = 0 BY DEF Init
<1>2. \A ip : ~Holds(arpTable, ip) BY <1>1, EmptyHolds
<1>3. \A ip : AnswerOf(ip) = Cache!Unknown BY <1>2, AnswerSeen DEF Seen
<1>4. QED BY <1>3 DEF answers, Init

\* The vector of entries with its copies implements one answer for each address.
THEOREM Implementation == Spec => ImplementsResolver
<1>1. IInv /\ [Next]_vars => [Cache!Next]_answers BY ResolverStep, NextIsLayerStep
<1>2. QED
  BY <1>1, InitResolver, Invariance, PTL DEF Spec, ImplementsResolver, Cache!Spec, answers

=============================================================================
