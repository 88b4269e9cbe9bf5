------------------------- MODULE RoutingTable_proofs -------------------------
(***************************************************************************)
(* Proofs about RoutingTable, for every set of routes, packets and threads *)
(* and every width of addresses and bytes.                                 *)
(***************************************************************************)
EXTENDS RoutingTable, SequenceFacts

-----------------------------------------------------------------------------
(* The operators. *)

\* LongestPrefix is reflexive and transitive on gateways.
LEMMA PrefixReflexive ==
  ASSUME NEW a \in Address
  PROVE  LongestPrefix(a, a)
BY RoutingAssumption DEF LongestPrefix, Address, Byte

LEMMA PrefixTransitive ==
  ASSUME NEW a \in Address, NEW b \in Address, NEW c \in Address,
         LongestPrefix(a, b), LongestPrefix(b, c)
  PROVE  LongestPrefix(a, c)
<1>1. \A i \in 1 .. AddrSize : a[i] \in Int /\ b[i] \in Int /\ c[i] \in Int
  BY RoutingAssumption DEF Address, Byte
<1>2. QED BY <1>1 DEF LongestPrefix

LEMMA GatewayType ==
  ASSUME NEW rt \in Route
  PROVE  rt.gateway \in Address
BY RoutingAssumption DEF Node

\* The row before which a route goes: all rows before it have gateways that are
\* not less, and the row itself does not.
LEMMA AddPointEffect ==
  ASSUME NEW table \in Seq(Route), NEW gateway
  PROVE  LET p == AddPoint(table, gateway)
         IN  /\ p \in 1 .. Len(table) + 1
             /\ \A i \in 1 .. p - 1 : LongestPrefix(table[i].gateway, gateway)
             /\ p <= Len(table) => ~LongestPrefix(table[p].gateway, gateway)
<1> DEFINE I == {i \in 1 .. Len(table) : ~LongestPrefix(table[i].gateway, gateway)}
<1> DEFINE p == AddPoint(table, gateway)
<1>1. SelectInSeq(table, LAMBDA row : ~LongestPrefix(row.gateway, gateway))
        = IF I # {} THEN Min(I) ELSE 0
  BY DEF SelectInSeq
<1>2. CASE I = {}
  <2>1. p = Len(table) + 1 BY <1>1, <1>2 DEF AddPoint
  <2>2. \A i \in 1 .. Len(table) : LongestPrefix(table[i].gateway, gateway) BY <1>2
  <2> HIDE DEF p
  <2>3. QED BY <2>1, <2>2 DEF p
<1>3. CASE I # {}
  <2>1. I \in SUBSET Nat OBVIOUS
  <2>2. Min(I) \in I /\ \A y \in I : Min(I) <= y
    BY <2>1, <1>3, LeastElement DEF Min
  <2>3. p = Min(I) BY <1>1, <1>3, <2>2 DEF AddPoint
  <2>4. p \in 1 .. Len(table) /\ ~LongestPrefix(table[p].gateway, gateway)
    BY <2>2, <2>3
  <2>5. \A i \in 1 .. Len(table) :
          ~LongestPrefix(table[i].gateway, gateway) => p <= i
    BY <2>2, <2>3
  <2> HIDE DEF p
  <2>6. \A i \in 1 .. p - 1 : LongestPrefix(table[i].gateway, gateway)
    BY <2>4, <2>5
  <2>7. QED BY <2>4, <2>6 DEF p
<1>4. QED BY <1>2, <1>3

\* Inserting keeps the rows before the new one and moves the others by one.
LEMMA InsertEffect ==
  ASSUME NEW table \in Seq(Route), NEW rt \in Route, NEW p \in 1 .. Len(table) + 1
  PROVE  LET r == InsertAt(table, p, rt)
         IN  /\ r \in Seq(Route)
             /\ Len(r) = Len(table) + 1
             /\ \A j \in 1 .. p - 1 : r[j] = table[j]
             /\ r[p] = rt
             /\ \A j \in p .. Len(table) : r[j + 1] = table[j]
<1> DEFINE A == SubSeq(table, 1, p - 1)
<1> DEFINE B == SubSeq(table, p, Len(table))
<1> DEFINE r == InsertAt(table, p, rt)
<1>1. A \in Seq(Route) /\ Len(A) = p - 1 /\ \A j \in 1 .. p - 1 : A[j] = table[j]
  OBVIOUS
<1>2. /\ B \in Seq(Route)
      /\ Len(B) = Len(table) + 1 - p
      /\ \A j \in 1 .. Len(table) + 1 - p : B[j] = table[p + j - 1]
  OBVIOUS
<1>3. r = A \o <<rt>> \o B BY DEF InsertAt
<1> DEFINE C == A \o <<rt>>
<1> HIDE DEF A, B, r
<1>4. C \in Seq(Route) /\ Len(C) = p BY <1>1
<1>5. C[p] = rt BY <1>1
<1>6. ASSUME NEW j \in 1 .. p - 1 PROVE C[j] = table[j] BY <1>1
<1> HIDE DEF C
<1>7. r = C \o B BY <1>3 DEF C
<1>8. r \in Seq(Route) /\ Len(r) = Len(table) + 1 BY <1>7, <1>4, <1>2
<1>9. ASSUME NEW j \in 1 .. p PROVE r[j] = C[j]
  <2>1. j \in 1 .. Len(C) BY <1>4
  <2>2. QED BY <2>1, <1>7, <1>4, <1>2
<1>10. ASSUME NEW j \in p .. Len(table) PROVE r[j + 1] = table[j]
  <2> DEFINE k == j + 1 - p
  <2>1. k \in 1 .. Len(B) /\ j + 1 = Len(C) + k BY <1>2, <1>4
  <2>2. p + k - 1 = j OBVIOUS
  <2> HIDE DEF k
  <2>3. r[j + 1] = B[k] BY <2>1, <1>7, <1>4, <1>2, SMTT(30)
  <2>4. B[k] = table[p + k - 1] BY <2>1, <1>2
  <2>5. QED BY <2>2, <2>3, <2>4
<1>11. QED BY <1>5, <1>6, <1>8, <1>9, <1>10 DEF r

\* The decision for an address is its first matching row, or 0 without one.
LEMMA DecisionEffect ==
  ASSUME NEW table \in Seq(Route), NEW ip
  PROVE  LET d == Decision(table, ip)
         IN  /\ d \in 0 .. Len(table)
             /\ d # 0 => Matches(table[d], ip)
             /\ \A i \in 1 .. Len(table) : Matches(table[i], ip) => d # 0 /\ d <= i
<1> DEFINE I == {i \in 1 .. Len(table) : Matches(table[i], ip)}
<1> DEFINE d == Decision(table, ip)
<1>1. d = IF I # {} THEN Min(I) ELSE 0 BY DEF Decision, SelectInSeq
<1>2. CASE I = {}
  <2>1. d = 0 BY <1>1, <1>2
  <2>2. \A i \in 1 .. Len(table) : ~Matches(table[i], ip) BY <1>2
  <2>3. QED BY <2>1, <2>2
<1>3. CASE I # {}
  <2>1. I \in SUBSET Nat OBVIOUS
  <2>2. Min(I) \in I /\ \A y \in I : Min(I) <= y
    BY <2>1, <1>3, LeastElement DEF Min
  <2>3. d \in I /\ \A y \in I : d <= y BY <1>1, <1>3, <2>2
  <2>4. d \in 1 .. Len(table) /\ Matches(table[d], ip) BY <2>3
  <2>5. \A i \in 1 .. Len(table) : Matches(table[i], ip) => d <= i BY <2>3
  <2> HIDE DEF d
  <2>6. d # 0 BY <2>4
  <2>7. QED BY <2>4, <2>5, <2>6 DEF d
<1>4. QED BY <1>2, <1>3

\* The decision is the only row that matches and that no matching row precedes.
LEMMA DecisionUnique ==
  ASSUME NEW table \in Seq(Route), NEW ip, NEW d \in 1 .. Len(table),
         Matches(table[d], ip),
         \A i \in 1 .. d - 1 : ~Matches(table[i], ip)
  PROVE  Decision(table, ip) = d
<1> DEFINE e == Decision(table, ip)
<1>1. e # 0 /\ e <= d BY DecisionEffect
<1>2. e \in 1 .. Len(table) /\ Matches(table[e], ip) BY <1>1, DecisionEffect
<1> HIDE DEF e
<1>3. ~ (e \in 1 .. d - 1) BY <1>2
<1>4. e = d BY <1>1, <1>2, <1>3
<1>5. QED BY <1>4 DEF e

\* What adding a route does to the table.
LEMMA AddEffect ==
  ASSUME NEW table \in Seq(Route), NEW rt \in Route
  PROVE  LET p == AddPoint(table, rt.gateway)
             r == AddRouteTable(table, rt)
         IN  /\ p \in 1 .. Len(table) + 1
             /\ r \in Seq(Route)
             /\ Len(r) = Len(table) + 1
             /\ \A j \in 1 .. p - 1 : r[j] = table[j]
             /\ r[p] = rt
             /\ \A j \in p .. Len(table) : r[j + 1] = table[j]
<1> DEFINE p == AddPoint(table, rt.gateway)
<1>1. p \in 1 .. Len(table) + 1 BY AddPointEffect
<1>2. AddRouteTable(table, rt) = InsertAt(table, p, rt) BY DEF AddRouteTable
<1> HIDE DEF p
<1>3. QED BY <1>1, <1>2, InsertEffect DEF p

\* A table whose gateways are comparable after an addition was so before.
LEMMA ComparableBefore ==
  ASSUME NEW table \in Seq(Route), NEW rt \in Route,
         Comparable(AddRouteTable(table, rt))
  PROVE  Comparable(table)
<1> DEFINE p == AddPoint(table, rt.gateway)
<1> DEFINE r == AddRouteTable(table, rt)
<1> DEFINE moved(i) == IF i < p THEN i ELSE i + 1
<1>1. /\ p \in 1 .. Len(table) + 1
      /\ r \in Seq(Route)
      /\ Len(r) = Len(table) + 1
      /\ \A j \in 1 .. p - 1 : r[j] = table[j]
      /\ \A j \in p .. Len(table) : r[j + 1] = table[j]
  BY AddEffect
<1>2. Comparable(r) OBVIOUS
<1> HIDE DEF p, r
<1>3. ASSUME NEW i \in 1 .. Len(table)
      PROVE  moved(i) \in 1 .. Len(r) /\ r[moved(i)] = table[i]
  BY <1>1
<1> HIDE DEF moved
<1>4. ASSUME NEW i \in DOMAIN table, NEW j \in DOMAIN table
      PROVE  \/ LongestPrefix(table[i].gateway, table[j].gateway)
             \/ LongestPrefix(table[j].gateway, table[i].gateway)
  <2>1. i \in 1 .. Len(table) /\ j \in 1 .. Len(table) OBVIOUS
  <2>2. moved(i) \in DOMAIN r /\ moved(j) \in DOMAIN r BY <2>1, <1>1, <1>3
  <2>3. r[moved(i)] = table[i] /\ r[moved(j)] = table[j] BY <2>1, <1>3
  <2>4. \/ LongestPrefix(r[moved(i)].gateway, r[moved(j)].gateway)
        \/ LongestPrefix(r[moved(j)].gateway, r[moved(i)].gateway)
    BY <1>2, <2>2 DEF Comparable
  <2>5. QED BY <2>3, <2>4
<1>5. QED BY <1>4 DEF Comparable

\* Every row from the place of a new route on has a gateway that is not greater,
\* when gateways are comparable and the table was in order.
LEMMA RestNotGreater ==
  ASSUME NEW table \in Seq(Route), NEW rt \in Route, Ordered(table),
         Comparable(AddRouteTable(table, rt)),
         NEW i \in AddPoint(table, rt.gateway) .. Len(table)
  PROVE  /\ LongestPrefix(rt.gateway, table[i].gateway)
         /\ ~LongestPrefix(table[i].gateway, rt.gateway)
<1> DEFINE p == AddPoint(table, rt.gateway)
<1> DEFINE r == AddRouteTable(table, rt)
<1>1. /\ p \in 1 .. Len(table)
      /\ ~LongestPrefix(table[p].gateway, rt.gateway)
  BY AddPointEffect
<1>2. /\ r \in Seq(Route) /\ Len(r) = Len(table) + 1 /\ r[p] = rt
      /\ \A j \in p .. Len(table) : r[j + 1] = table[j]
  BY AddEffect
<1>3. Comparable(r) /\ i \in p .. Len(table) OBVIOUS
<1> HIDE DEF p, r
<1>4. r[p + 1] = table[p] BY <1>1, <1>2
<1>5. LongestPrefix(rt.gateway, table[p].gateway)
  <2>1. p \in DOMAIN r /\ p + 1 \in DOMAIN r BY <1>1, <1>2
  <2>2. \/ LongestPrefix(r[p].gateway, r[p + 1].gateway)
        \/ LongestPrefix(r[p + 1].gateway, r[p].gateway)
    BY <1>3, <2>1 DEF Comparable
  <2>3. QED BY <2>2, <1>1, <1>2, <1>4
<1>6. i \in 1 .. Len(table) /\ table[p] \in Route /\ table[i] \in Route BY <1>1, <1>3
<1>7. /\ rt.gateway \in Address
      /\ table[p].gateway \in Address
      /\ table[i].gateway \in Address
  BY <1>6, GatewayType
<1>8. LongestPrefix(table[p].gateway, table[i].gateway)
  <2>1. CASE i = p BY <2>1, <1>7, PrefixReflexive
  <2>2. CASE i # p BY <2>2, <1>1, <1>3, <1>6 DEF Ordered
  <2>3. QED BY <2>1, <2>2
<1>9. LongestPrefix(rt.gateway, table[i].gateway) BY <1>5, <1>7, <1>8, PrefixTransitive
<1>10. ASSUME LongestPrefix(table[i].gateway, rt.gateway) PROVE FALSE
  <2>1. LongestPrefix(table[p].gateway, rt.gateway)
    BY <1>10, <1>7, <1>8, PrefixTransitive
  <2>2. QED BY <2>1, <1>1
<1>11. QED BY <1>9, <1>10

\* Adding a route keeps a table of comparable gateways in order.
LEMMA AddKeepsOrder ==
  ASSUME NEW table \in Seq(Route), NEW rt \in Route, Ordered(table),
         Comparable(AddRouteTable(table, rt))
  PROVE  Ordered(AddRouteTable(table, rt))
<1> DEFINE p == AddPoint(table, rt.gateway)
<1> DEFINE r == AddRouteTable(table, rt)
<1>1. /\ p \in 1 .. Len(table) + 1
      /\ r \in Seq(Route)
      /\ Len(r) = Len(table) + 1
      /\ \A j \in 1 .. p - 1 : r[j] = table[j]
      /\ r[p] = rt
      /\ \A j \in p .. Len(table) : r[j + 1] = table[j]
  BY AddEffect
<1>2. \A j \in 1 .. p - 1 : LongestPrefix(table[j].gateway, rt.gateway)
  BY AddPointEffect
<1>3. \A j \in p .. Len(table) : LongestPrefix(rt.gateway, table[j].gateway)
  BY RestNotGreater
<1> HIDE DEF p, r
<1>4. \A i, j \in 1 .. Len(table) :
        i < j => LongestPrefix(table[i].gateway, table[j].gateway)
  BY DEF Ordered
<1>5. ASSUME NEW i \in 1 .. Len(r), NEW j \in 1 .. Len(r), i < j
      PROVE  LongestPrefix(r[i].gateway, r[j].gateway)
  <2>1. CASE j < p BY <2>1, <1>1, <1>4, <1>5
  <2>2. CASE j = p BY <2>2, <1>1, <1>2, <1>5
  <2>3. CASE j > p
    <3> DEFINE l == j - 1
    <3>1. l \in p .. Len(table) /\ l \in 1 .. Len(table) /\ j = l + 1 BY <2>3, <1>1
    <3> HIDE DEF l
    <3>2. r[j] = table[l] BY <3>1, <1>1
    <3>3. CASE i < p
      <4>1. i \in 1 .. p - 1 /\ i \in 1 .. Len(table) /\ i < l BY <3>3, <3>1, <1>1
      <4>2. QED BY <4>1, <3>1, <3>2, <1>1, <1>4
    <3>4. CASE i = p BY <3>4, <3>1, <3>2, <1>1, <1>3
    <3>5. CASE i > p
      <4> DEFINE k == i - 1
      <4>1. k \in p .. Len(table) /\ k \in 1 .. Len(table) /\ i = k + 1 /\ k < l
        BY <3>5, <3>1, <1>1, <1>5
      <4> HIDE DEF k
      <4>2. r[i] = table[k] BY <4>1, <1>1
      <4>3. QED BY <4>1, <4>2, <3>1, <3>2, <1>4
    <3>6. QED BY <3>3, <3>4, <3>5, <1>1
  <2>4. QED BY <2>1, <2>2, <2>3, <1>1
<1>6. Ordered(r) BY <1>1, <1>5 DEF Ordered
<1>7. QED BY <1>6 DEF r

-----------------------------------------------------------------------------
(* The inductive invariant. *)

IInv == TypeOK /\ NoRouteSkipped /\ ListedInstalled /\ OrderedWhenComparable

\* What is sent plays no part in it: the steps below hold as well in a program
\* that sends for other reasons.
routing == <<route_table, list, ttl, walk>>

LEMMA InitInv == Init => IInv
<1> SUFFICES ASSUME Init PROVE IInv OBVIOUS
<1>1. route_table = << >> /\ list = << >> BY DEF Init
<1>2. /\ route_table \in Seq(Route) /\ list \in Seq(Route)
      /\ Len(route_table) = 0 /\ DOMAIN route_table = {} /\ DOMAIN list = {}
  BY <1>1
<1>3. \A s \in Slot : walk[s] = Reading BY DEF Init
<1>4. Reading \in Walk
  BY RoutingAssumption DEF Reading, Walk, NoPacket, Datagram, Address, Byte
<1>5. TypeOK
  <2>1. walk \in [Slot -> Walk] BY <1>4 DEF Init
  <2>2. ttl \in [Iface -> Byte] BY RoutingAssumption DEF Init, Byte
  <2>3. \A s \in Slot : walk[s].pc # "walk" BY <1>3 DEF Reading
  <2>4. QED BY <1>2, <2>1, <2>2, <2>3, RoutingAssumption DEF TypeOK
<1>6. NoRouteSkipped BY <1>3 DEF NoRouteSkipped, Reading
<1>7. ListedInstalled BY <1>2 DEF ListedInstalled, ToSet
<1>8. OrderedWhenComparable BY <1>2 DEF OrderedWhenComparable, Ordered
<1>9. QED BY <1>5, <1>6, <1>7, <1>8 DEF IInv

\* The table changes only by an addition.
LEMMA TableStep ==
  ASSUME TypeOK, [Next]_routing
  PROVE  \/ route_table' = route_table
         \/ \E rt \in Route : OnBnClickedOk(rt)
BY DEF Next, routing, OnBnClickedButtonDelRoutingTableEntry, Receive, Routing,
       RouteHost, RouteGateway, RouteDropped, NextRow, NoRoute

\* A step that leaves the table alone leaves a walk alone, begins or ends it, or
\* moves it past a row that its packet does not match.
LEMMA WalkStep ==
  ASSUME TypeOK, [Next]_routing, ~ \E rt \in Route : OnBnClickedOk(rt), NEW t \in Slot
  PROVE  \/ walk'[t] = walk[t]
         \/ walk'[t] = Reading
         \/ \E packet \in Packet :
              /\ route_table # << >>
              /\ walk'[t] = [pc |-> "walk", packet |-> packet, at |-> 1, news |-> {}]
         \/ /\ walk[t].pc = "walk"
            /\ ~Hit(t)
            /\ walk[t].at < Len(route_table)
            /\ walk'[t] = [walk[t] EXCEPT !.at = @ + 1]
<1>1. walk \in [Slot -> Walk] BY DEF TypeOK
<1>2. ASSUME NEW i \in DOMAIN list, OnBnClickedButtonDelRoutingTableEntry(i)
      PROVE  walk'[t] = walk[t]
  BY <1>2 DEF OnBnClickedButtonDelRoutingTableEntry
<1>3. ASSUME NEW s \in Slot, NEW packet \in Packet, Receive(s, packet)
      PROVE  \/ walk'[t] = walk[t]
             \/ /\ route_table # << >>
                /\ walk'[t] = [pc |-> "walk", packet |-> packet, at |-> 1, news |-> {}]
  BY <1>1, <1>3 DEF Receive
<1>4. ASSUME NEW s \in Slot, RouteHost(s) \/ RouteGateway(s) \/ RouteDropped(s) \/ NoRoute(s)
      PROVE  walk'[t] = walk[t] \/ walk'[t] = Reading
  BY <1>1, <1>4 DEF RouteHost, RouteGateway, RouteDropped, NoRoute, Done
<1>5. ASSUME NEW s \in Slot, NextRow(s)
      PROVE  \/ walk'[t] = walk[t]
             \/ /\ walk[t].pc = "walk"
                /\ ~Hit(t)
                /\ walk[t].at < Len(route_table)
                /\ walk'[t] = [walk[t] EXCEPT !.at = @ + 1]
  BY <1>1, <1>5 DEF NextRow
<1>6. CASE UNCHANGED routing BY <1>6 DEF routing
<1>7. QED BY <1>2, <1>3, <1>4, <1>5, <1>6 DEF Next, Routing

\* Each walk is at a row of the table afterwards, with all that it skipped.
LEMMA WalksStep ==
  ASSUME IInv, [Next]_routing, route_table' \in Seq(Route), NEW t \in Slot
  PROVE  /\ walk'[t] \in Walk
         /\ walk'[t].pc = "walk" =>
              /\ walk'[t].packet \in Packet
              /\ walk'[t].at \in 1 .. Len(route_table')
              /\ \A i \in 1 .. walk'[t].at - 1 :
                   Matches(route_table'[i], walk'[t].packet.dst)
                     => route_table'[i] \in walk'[t].news
<1> DEFINE w == walk[t]
<1>1. /\ w \in Walk
      /\ route_table \in Seq(Route)
      /\ w.pc = "walk" =>
           /\ w.packet \in Packet
           /\ w.at \in 1 .. Len(route_table)
           /\ \A i \in 1 .. w.at - 1 :
                Matches(route_table[i], w.packet.dst) => route_table[i] \in w.news
  BY DEF IInv, TypeOK, NoRouteSkipped
<1>2. Packet \subseteq Datagram BY RoutingAssumption
<1>3. CASE \E rt \in Route : OnBnClickedOk(rt)
  <2>1. PICK rt \in Route : OnBnClickedOk(rt) BY <1>3
  <2> DEFINE p == AddPoint(route_table, rt.gateway)
  <2> DEFINE at == IF p <= w.at THEN w.at + 1 ELSE w.at
  <2>2. /\ p \in 1 .. Len(route_table) + 1
        /\ Len(route_table') = Len(route_table) + 1
        /\ \A j \in 1 .. p - 1 : route_table'[j] = route_table[j]
        /\ route_table'[p] = rt
        /\ \A j \in p .. Len(route_table) : route_table'[j + 1] = route_table[j]
    BY <1>1, <2>1, AddEffect DEF OnBnClickedOk
  <2>3. walk'[t] = IF w.pc = "walk" THEN [w EXCEPT !.at = at, !.news = @ \cup {rt}] ELSE w
    BY <2>1 DEF OnBnClickedOk
  <2> HIDE DEF p, w
  <2>4. CASE w.pc # "walk" BY <2>3, <2>4, <1>1
  <2>5. CASE w.pc = "walk"
    <3>1. /\ walk'[t] = [pc |-> "walk", packet |-> w.packet, at |-> at,
                         news |-> w.news \cup {rt}]
          /\ w.news \subseteq Route
      BY <2>3, <2>5, <1>1 DEF Walk
    <3>2. at \in Nat /\ at \in 1 .. Len(route_table') BY <1>1, <2>2, <2>5
    <3>3. walk'[t] \in Walk BY <1>1, <1>2, <2>5, <3>1, <3>2 DEF Walk
    <3>4. ASSUME NEW i \in 1 .. at - 1, Matches(route_table'[i], w.packet.dst)
          PROVE  route_table'[i] \in w.news \cup {rt}
      <4>1. CASE i < p
        <5>1. i \in 1 .. w.at - 1 /\ route_table'[i] = route_table[i]
          BY <4>1, <1>1, <2>2, <2>5
        <5>2. QED BY <5>1, <3>4, <1>1, <2>5
      <4>2. CASE i = p BY <4>2, <2>2
      <4>3. CASE i > p
        <5> DEFINE k == i - 1
        <5>1. k \in p .. Len(route_table) /\ k \in 1 .. w.at - 1 /\ i = k + 1
          BY <4>3, <1>1, <2>2, <2>5
        <5> HIDE DEF k
        <5>2. route_table'[i] = route_table[k] BY <5>1, <2>2
        <5>3. QED BY <5>1, <5>2, <3>4, <1>1, <2>5
      <4>4. QED BY <4>1, <4>2, <4>3, <2>2
    <3>5. QED BY <1>1, <2>5, <3>1, <3>2, <3>3, <3>4
  <2>6. QED BY <2>4, <2>5
<1>4. CASE ~ \E rt \in Route : OnBnClickedOk(rt)
  <2>1. route_table' = route_table BY <1>4, TableStep DEF IInv
  <2>2. CASE walk'[t] = w BY <2>1, <2>2, <1>1
  <2>3. CASE walk'[t] = Reading
    BY <2>3, RoutingAssumption DEF Reading, Walk, NoPacket, Datagram, Address, Byte
  <2>4. CASE \E packet \in Packet :
               /\ route_table # << >>
               /\ walk'[t] = [pc |-> "walk", packet |-> packet, at |-> 1, news |-> {}]
    <3>1. PICK packet \in Packet :
            /\ route_table # << >>
            /\ walk'[t] = [pc |-> "walk", packet |-> packet, at |-> 1, news |-> {}]
      BY <2>4
    <3>2. 1 \in 1 .. Len(route_table') BY <1>1, <2>1, <3>1
    <3>3. walk'[t] \in Walk BY <3>1, <1>2 DEF Walk
    <3>4. walk'[t].packet \in Packet /\ walk'[t].at = 1 BY <3>1
    <3>5. 1 .. walk'[t].at - 1 = {} BY <3>4
    <3>6. QED BY <3>2, <3>3, <3>4, <3>5
  <2>5. CASE /\ w.pc = "walk" /\ ~Hit(t) /\ w.at < Len(route_table)
             /\ walk'[t] = [w EXCEPT !.at = @ + 1]
    <3>1. ~Matches(route_table[w.at], w.packet.dst) BY <2>5 DEF Hit, Row
    <3> HIDE DEF w
    <3>2. walk'[t] = [pc |-> "walk", packet |-> w.packet, at |-> w.at + 1, news |-> w.news]
      BY <2>5, <1>1 DEF Walk
    <3>3. walk'[t] \in Walk BY <3>2, <2>5, <1>1 DEF Walk
    <3>4. ASSUME NEW i \in 1 .. w.at, Matches(route_table[i], w.packet.dst)
          PROVE  route_table[i] \in w.news
      <4>1. i # w.at BY <3>1, <3>4
      <4>2. i \in 1 .. w.at - 1 BY <4>1, <1>1, <2>5
      <4>3. QED BY <4>2, <3>4, <1>1, <2>5
    <3>5. (w.at + 1) - 1 = w.at /\ w.at + 1 \in 1 .. Len(route_table) BY <1>1, <2>5
    <3>6. QED BY <1>1, <2>1, <2>5, <3>2, <3>3, <3>4, <3>5
  <2>6. \/ walk'[t] = w
        \/ walk'[t] = Reading
        \/ \E packet \in Packet :
             /\ route_table # << >>
             /\ walk'[t] = [pc |-> "walk", packet |-> packet, at |-> 1, news |-> {}]
        \/ /\ w.pc = "walk" /\ ~Hit(t) /\ w.at < Len(route_table)
           /\ walk'[t] = [w EXCEPT !.at = @ + 1]
    BY <1>4, WalkStep DEF IInv
  <2>7. QED BY <2>2, <2>3, <2>4, <2>5, <2>6
<1>5. QED BY <1>3, <1>4

\* Rows shown after a step were shown before, or are the route just added.
LEMMA ListStep ==
  ASSUME IInv, [Next]_routing
  PROVE  list' \in Seq(Route) /\ ToSet(list') \subseteq ToSet(route_table')
<1>1. /\ list \in Seq(Route) /\ route_table \in Seq(Route)
      /\ \A i \in 1 .. Len(list) : \E j \in 1 .. Len(route_table) : list[i] = route_table[j]
  <2>1. list \in Seq(Route) /\ route_table \in Seq(Route) BY DEF IInv, TypeOK
  <2>2. DOMAIN list = 1 .. Len(list) /\ DOMAIN route_table = 1 .. Len(route_table)
    BY <2>1
  <2>3. \A i \in DOMAIN list : list[i] \in ToSet(route_table)
    BY DEF IInv, ListedInstalled, ToSet
  <2>4. QED BY <2>1, <2>2, <2>3 DEF ToSet
<1>2. ASSUME NEW rt \in Route, OnBnClickedOk(rt)
      PROVE  list' \in Seq(Route) /\ ToSet(list') \subseteq ToSet(route_table')
  <2> DEFINE p == AddPoint(route_table, rt.gateway)
  <2>1. route_table' = AddRouteTable(route_table, rt) BY <1>2 DEF OnBnClickedOk
  <2>2. /\ p \in 1 .. Len(route_table) + 1
        /\ route_table' \in Seq(Route)
        /\ Len(route_table') = Len(route_table) + 1
        /\ \A j \in 1 .. p - 1 : route_table'[j] = route_table[j]
        /\ route_table'[p] = rt
        /\ \A j \in p .. Len(route_table) : route_table'[j + 1] = route_table[j]
    BY <1>1, <2>1, AddEffect
  <2>3. list' = Append(list, rt) BY <1>2 DEF OnBnClickedOk
  <2>4. /\ list' \in Seq(Route) /\ Len(list') = Len(list) + 1
        /\ list'[Len(list) + 1] = rt
        /\ \A i \in 1 .. Len(list) : list'[i] = list[i]
    BY <1>1, <2>3
  <2> HIDE DEF p
  <2>5. ASSUME NEW i \in 1 .. Len(list')
        PROVE  \E j \in 1 .. Len(route_table') : list'[i] = route_table'[j]
    <3>1. CASE i = Len(list) + 1
      <4>1. p \in 1 .. Len(route_table') /\ list'[i] = route_table'[p]
        BY <3>1, <2>2, <2>4
      <4>2. QED BY <4>1
    <3>2. CASE i # Len(list) + 1
      <4>1. i \in 1 .. Len(list) /\ list'[i] = list[i] BY <3>2, <2>4, <1>1
      <4>2. PICK j \in 1 .. Len(route_table) : list[i] = route_table[j] BY <4>1, <1>1
      <4>3. CASE j < p
        <5>1. j \in 1 .. Len(route_table') /\ list'[i] = route_table'[j]
          BY <4>3, <4>1, <4>2, <2>2
        <5>2. QED BY <5>1
      <4>4. CASE j >= p
        <5>1. j + 1 \in 1 .. Len(route_table') /\ list'[i] = route_table'[j + 1]
          BY <4>4, <4>1, <4>2, <2>2
        <5>2. QED BY <5>1
      <4>5. QED BY <4>3, <4>4, <2>2
    <3>3. QED BY <3>1, <3>2
  <2>6. DOMAIN list' = 1 .. Len(list') /\ DOMAIN route_table' = 1 .. Len(route_table')
    BY <2>2, <2>4
  <2>7. QED BY <2>4, <2>5, <2>6 DEF ToSet
<1>3. ASSUME NEW k \in DOMAIN list, OnBnClickedButtonDelRoutingTableEntry(k)
      PROVE  list' \in Seq(Route) /\ ToSet(list') \subseteq ToSet(route_table')
  <2> DEFINE A == SubSeq(list, 1, k - 1)
  <2> DEFINE B == SubSeq(list, k + 1, Len(list))
  <2>1. list' = A \o B /\ route_table' = route_table
    BY <1>3 DEF OnBnClickedButtonDelRoutingTableEntry, RemoveAt
  <2>2. k \in 1 .. Len(list) BY <1>1
  <2>3. A \in Seq(Route) /\ Len(A) = k - 1 /\ \A i \in 1 .. k - 1 : A[i] = list[i]
    BY <1>1, <2>2
  <2>4. /\ B \in Seq(Route) /\ Len(B) = Len(list) - k
        /\ \A i \in 1 .. Len(list) - k : B[i] = list[k + i]
    BY <1>1, <2>2
  <2> HIDE DEF A, B
  <2>5. list' \in Seq(Route) /\ Len(list') = Len(A) + Len(B)
    <3>1. A \in Seq(Route) /\ B \in Seq(Route) BY <2>3, <2>4
    <3>2. QED BY <3>1, <2>1
  <2>6. ASSUME NEW i \in 1 .. Len(list') PROVE \E j \in 1 .. Len(list) : list'[i] = list[j]
    <3>1. CASE i <= Len(A)
      <4>1. i \in 1 .. Len(A) /\ i \in 1 .. Len(list) BY <3>1, <2>2, <2>3
      <4>2. list'[i] = A[i] BY <4>1, <2>1, <2>3, <2>4
      <4>3. QED BY <4>1, <4>2, <2>3
    <3>2. CASE i > Len(A)
      <4> DEFINE l == i - Len(A)
      <4>1. l \in 1 .. Len(B) /\ i = Len(A) + l BY <3>2, <2>3, <2>4, <2>5
      <4> HIDE DEF l
      <4>2. list'[i] = B[l] BY <4>1, <2>1, <2>3, <2>4, SMTT(30)
      <4>3. B[l] = list[k + l] /\ k + l \in 1 .. Len(list) BY <4>1, <2>2, <2>4
      <4>4. QED BY <4>2, <4>3
    <3>3. QED BY <3>1, <3>2, <2>3, <2>5
  <2>7. DOMAIN list' = 1 .. Len(list') /\ DOMAIN route_table' = 1 .. Len(route_table')
    BY <1>1, <2>1, <2>5
  <2>8. ASSUME NEW i \in DOMAIN list'
        PROVE  \E j \in DOMAIN route_table' : list'[i] = route_table'[j]
    <3>1. i \in 1 .. Len(list') BY <2>7
    <3>2. PICK j \in 1 .. Len(list) : list'[i] = list[j] BY <2>6, <3>1
    <3>3. PICK l \in 1 .. Len(route_table) : list[j] = route_table[l] BY <1>1
    <3>4. l \in DOMAIN route_table' /\ list'[i] = route_table'[l]
      BY <2>1, <2>7, <3>2, <3>3
    <3>5. QED BY <3>4
  <2>9. QED BY <2>5, <2>8 DEF ToSet
<1>4. CASE UNCHANGED <<list, route_table>>
  BY <1>4 DEF IInv, TypeOK, ListedInstalled
<1>5. QED
  BY <1>2, <1>3, <1>4
  DEF Next, routing, Receive, Routing, RouteHost, RouteGateway, RouteDropped, NextRow, NoRoute

LEMMA NextInv ==
  ASSUME IInv, [Next]_routing
  PROVE  IInv'
<1>1. TypeOK /\ Len(route_table) <= MaxRoutes /\ route_table \in Seq(Route)
  BY DEF IInv, TypeOK
<1>2. /\ route_table' \in Seq(Route)
      /\ Len(route_table') <= MaxRoutes
      /\ OrderedWhenComparable'
  <2>1. CASE route_table' = route_table
    BY <1>1, <2>1 DEF IInv, OrderedWhenComparable
  <2>2. ASSUME NEW rt \in Route, OnBnClickedOk(rt)
        PROVE  /\ route_table' \in Seq(Route)
               /\ Len(route_table') <= MaxRoutes
               /\ OrderedWhenComparable'
    <3>1. Len(route_table) < MaxRoutes /\ route_table' = AddRouteTable(route_table, rt)
      BY <2>2 DEF OnBnClickedOk
    <3>2. route_table' \in Seq(Route) /\ Len(route_table') = Len(route_table) + 1
      BY <1>1, <3>1, AddEffect
    <3>3. ASSUME Comparable(route_table') PROVE Ordered(route_table')
      <4>1. Comparable(route_table) BY <1>1, <3>1, <3>3, ComparableBefore
      <4>2. Ordered(route_table) BY <4>1 DEF IInv, OrderedWhenComparable
      <4>3. QED BY <1>1, <3>1, <3>3, <4>2, AddKeepsOrder
    <3>4. QED BY <1>1, <3>1, <3>2, <3>3, RoutingAssumption DEF OrderedWhenComparable
  <2>3. QED BY <1>1, <2>1, <2>2, TableStep
<1>3. DOMAIN route_table' = 1 .. Len(route_table') BY <1>2
<1>4. \A s \in Slot :
        /\ walk'[s] \in Walk
        /\ walk'[s].pc = "walk" =>
             /\ walk'[s].packet \in Packet
             /\ walk'[s].at \in 1 .. Len(route_table')
             /\ \A i \in 1 .. walk'[s].at - 1 :
                  Matches(route_table'[i], walk'[s].packet.dst)
                    => route_table'[i] \in walk'[s].news
  BY <1>2, WalksStep
<1>5. walk' = [s \in Slot |-> walk'[s]]
  BY <1>1 DEF TypeOK, Next, routing, OnBnClickedOk, OnBnClickedButtonDelRoutingTableEntry,
       Receive, Routing, RouteHost, RouteGateway, RouteDropped, NextRow, NoRoute, Done
<1>6. ttl' \in [Iface -> Byte]
  <2>1. ASSUME NEW s \in Slot, NEW packet \in Packet, Receive(s, packet)
        PROVE  ttl' \in [Iface -> Byte]
    <3>1. packet.ttl \in 0 .. Base - 1 /\ Base \in Nat \ {0}
      BY RoutingAssumption DEF Datagram, Byte
    <3>2. (packet.ttl + Base - 1) % Base \in 0 .. Base - 1 BY <3>1
    <3>3. QED BY <1>1, <2>1, <3>2 DEF Receive, TypeOK, Byte
  <2>2. CASE ttl' = ttl BY <1>1, <2>2 DEF TypeOK
  <2>3. QED
    BY <2>1, <2>2 DEF Next, routing, OnBnClickedOk, OnBnClickedButtonDelRoutingTableEntry,
         Routing, RouteHost, RouteGateway, RouteDropped, NextRow, NoRoute
<1>7. list' \in Seq(Route) /\ ListedInstalled' BY ListStep DEF ListedInstalled
<1>8. TypeOK'
  <2>1. walk' \in [Slot -> Walk] BY <1>4, <1>5
  <2>2. QED BY <1>2, <1>3, <1>4, <1>6, <1>7, <2>1 DEF TypeOK
<1>9. NoRouteSkipped' BY <1>4 DEF NoRouteSkipped
<1>10. QED BY <1>2, <1>7, <1>8, <1>9 DEF IInv

-----------------------------------------------------------------------------
(* What an addition means for decisions. *)

\* Rows that do not match keep the decision, wherever they are inserted.
LEMMA OthersKept ==
  ASSUME NEW table \in Seq(Route), NEW rt \in Route, NEW ip, ~Matches(rt, ip)
  PROVE  LET r == AddRouteTable(table, rt)
             before == Decision(table, ip)
             after == Decision(r, ip)
         IN  IF before = 0 THEN after = 0 ELSE after # 0 /\ r[after] = table[before]
<1> DEFINE p == AddPoint(table, rt.gateway)
<1> DEFINE r == AddRouteTable(table, rt)
<1> DEFINE before == Decision(table, ip)
<1> DEFINE after == Decision(r, ip)
<1>1. /\ p \in 1 .. Len(table) + 1
      /\ r \in Seq(Route)
      /\ Len(r) = Len(table) + 1
      /\ \A j \in 1 .. p - 1 : r[j] = table[j]
      /\ r[p] = rt
      /\ \A j \in p .. Len(table) : r[j + 1] = table[j]
  BY AddEffect
<1>2. /\ before \in 0 .. Len(table)
      /\ before # 0 => Matches(table[before], ip)
      /\ \A i \in 1 .. Len(table) : Matches(table[i], ip) => before # 0 /\ before <= i
  BY DecisionEffect
<1> HIDE DEF p, before, r
\* Every matching row of r is a row of table, from p on one place further.
<1>3. ASSUME NEW i \in 1 .. Len(r), Matches(r[i], ip)
      PROVE  \E j \in 1 .. Len(table) :
               Matches(table[j], ip) /\ i = IF j < p THEN j ELSE j + 1
  <2>1. i # p BY <1>1, <1>3
  <2>2. CASE i < p
    <3>1. i \in 1 .. Len(table) /\ r[i] = table[i] BY <2>2, <1>1
    <3>2. QED BY <3>1, <2>2, <1>3
  <2>3. CASE i > p
    <3> DEFINE j == i - 1
    <3>1. j \in p .. Len(table) /\ j \in 1 .. Len(table) /\ i = j + 1 BY <2>3, <1>1
    <3> HIDE DEF j
    <3>2. r[i] = table[j] /\ ~(j < p) BY <3>1, <1>1
    <3>3. QED BY <3>1, <3>2, <1>3
  <2>4. QED BY <2>1, <2>2, <2>3, <1>1
<1>4. CASE before = 0
  <2>1. \A i \in 1 .. Len(r) : ~Matches(r[i], ip) BY <1>2, <1>3, <1>4
  <2>2. after \in 0 .. Len(r) /\ (after # 0 => Matches(r[after], ip))
    BY <1>1, DecisionEffect
  <2> HIDE DEF after
  <2>3. after = 0 BY <2>1, <2>2, <1>1
  <2>4. QED BY <2>3, <1>4 DEF after, before, r
<1>5. CASE before # 0
  <2> DEFINE d == IF before < p THEN before ELSE before + 1
  <2>1. before \in 1 .. Len(table) /\ Matches(table[before], ip) BY <1>2, <1>5
  <2>2. d \in 1 .. Len(r) /\ r[d] = table[before] BY <1>1, <2>1
  <2>3. ASSUME NEW i \in 1 .. d - 1, Matches(r[i], ip) PROVE FALSE
    <3>1. i \in 1 .. Len(r) BY <2>2, <1>1
    <3>2. PICK j \in 1 .. Len(table) :
            Matches(table[j], ip) /\ i = IF j < p THEN j ELSE j + 1
      BY <3>1, <2>3, <1>3
    <3>3. before <= j BY <3>2, <1>2
    <3>4. QED BY <2>1, <2>3, <3>2, <3>3, <1>1
  <2> HIDE DEF d
  <2>4. after = d BY <1>1, <2>1, <2>2, <2>3, DecisionUnique
  <2>5. d # 0 BY <2>2
  <2>6. QED BY <2>2, <2>4, <2>5, <1>5 DEF before, r
<1>6. QED BY <1>4, <1>5

\* In an ordered table, a route goes behind every row whose gateway is not less
\* than its own, so such a row's decisions stand.
LEMMA OlderKept ==
  ASSUME NEW table \in Seq(Route), NEW rt \in Route, NEW ip, Ordered(table),
         Comparable(AddRouteTable(table, rt)), Decision(table, ip) # 0,
         LongestPrefix(table[Decision(table, ip)].gateway, rt.gateway)
  PROVE  LET r == AddRouteTable(table, rt)
             after == Decision(r, ip)
         IN  after # 0 /\ r[after] = table[Decision(table, ip)]
<1> DEFINE p == AddPoint(table, rt.gateway)
<1> DEFINE r == AddRouteTable(table, rt)
<1> DEFINE before == Decision(table, ip)
<1>1. /\ p \in 1 .. Len(table) + 1
      /\ r \in Seq(Route)
      /\ Len(r) = Len(table) + 1
      /\ \A j \in 1 .. p - 1 : r[j] = table[j]
  BY AddEffect
<1>2. /\ before \in 1 .. Len(table)
      /\ Matches(table[before], ip)
      /\ \A i \in 1 .. Len(table) : Matches(table[i], ip) => before <= i
  BY DecisionEffect
<1>3. before \notin p .. Len(table) BY RestNotGreater
<1> HIDE DEF p, r, before
<1>4. before \in 1 .. p - 1 BY <1>1, <1>2, <1>3
<1>5. before \in 1 .. Len(r) /\ r[before] = table[before] BY <1>1, <1>2, <1>4
<1>6. ASSUME NEW i \in 1 .. before - 1 PROVE ~Matches(r[i], ip)
  <2>1. i \in 1 .. p - 1 /\ i \in 1 .. Len(table) /\ ~(before <= i)
    BY <1>1, <1>2, <1>4
  <2>2. r[i] = table[i] BY <2>1, <1>1
  <2>3. QED BY <2>1, <2>2, <1>2
<1>7. Decision(r, ip) = before BY <1>1, <1>2, <1>5, <1>6, DecisionUnique
<1>8. QED BY <1>2, <1>5, <1>7 DEF before, r

-----------------------------------------------------------------------------
(* The theorems. *)

\* Types, walks, list and order hold together in every reachable state.
THEOREM Invariance == Spec => []IInv
<1>1. Init => IInv BY InitInv
<1>2. IInv /\ [Next]_vars => IInv' BY NextInv DEF vars, routing
<1>3. QED BY <1>1, <1>2, PTL DEF Spec

\* Every variable has its type, and a walk is at a row of the table.
THEOREM TypeCorrect == Spec => []TypeOK
<1>1. IInv => TypeOK BY DEF IInv
<1>2. QED BY <1>1, Invariance, PTL

\* No walk leaves a matching row behind that was there when it began.
THEOREM WalksSkipNothing == Spec => []NoRouteSkipped
<1>1. IInv => NoRouteSkipped BY DEF IInv
<1>2. QED BY <1>1, Invariance, PTL

\* Every route that the dialog shows is in the table of the IP layer.
THEOREM ShownRoutesInstalled == Spec => []ListedInstalled
<1>1. IInv => ListedInstalled BY DEF IInv
<1>2. QED BY <1>1, Invariance, PTL

\* The larger of comparable gateways comes first.
THEOREM ComparableGatewaysOrdered == Spec => []OrderedWhenComparable
<1>1. IInv => OrderedWhenComparable BY DEF IInv
<1>2. QED BY <1>1, Invariance, PTL

\* A new route changes nothing for the destinations it does not match.
THEOREM UnmatchedUnchanged == Spec => OthersKeepRoute
<1> DEFINE Kept ==
      \A rt \in Route, packet \in Packet :
        OnBnClickedOk(rt) /\ ~Matches(rt, packet.dst) =>
          LET before == Decision(route_table, packet.dst)
              after  == Decision(route_table', packet.dst)
          IN  IF before = 0 THEN after = 0
              ELSE after # 0 /\ route_table'[after] = route_table[before]
<1>1. IInv => Kept
  <2>1. SUFFICES ASSUME IInv, NEW rt \in Route, NEW packet \in Packet,
                        OnBnClickedOk(rt), ~Matches(rt, packet.dst)
                 PROVE  LET before == Decision(route_table, packet.dst)
                            after  == Decision(route_table', packet.dst)
                        IN  IF before = 0 THEN after = 0
                            ELSE after # 0 /\ route_table'[after] = route_table[before]
    OBVIOUS
  <2>2. route_table \in Seq(Route) /\ route_table' = AddRouteTable(route_table, rt)
    BY <2>1 DEF IInv, TypeOK, OnBnClickedOk
  <2>3. QED BY <2>1, <2>2, OthersKept
<1> HIDE DEF Kept
<1>2. IInv /\ [Next]_vars => [Kept]_vars BY <1>1
<1>3. Spec => [][Kept]_vars BY <1>2, Invariance, PTL DEF Spec
<1>4. QED BY <1>3 DEF Kept, OthersKeepRoute

\* Among comparable gateways the older of equals, and every greater one, keeps
\* what it decides.
THEOREM OlderRoutesDecide == Spec => OlderEqualDecides
<1> DEFINE Kept ==
      \A rt \in Route, packet \in Packet :
        LET before == Decision(route_table, packet.dst)
            after  == Decision(route_table', packet.dst)
        IN  /\ OnBnClickedOk(rt) /\ Comparable(route_table')
            /\ before # 0
            /\ LongestPrefix(route_table[before].gateway, rt.gateway)
            => after # 0 /\ route_table'[after] = route_table[before]
<1>1. IInv => Kept
  <2>1. SUFFICES ASSUME IInv, NEW rt \in Route, NEW packet \in Packet,
                        OnBnClickedOk(rt), Comparable(route_table'),
                        Decision(route_table, packet.dst) # 0,
                        LongestPrefix(route_table[Decision(route_table, packet.dst)].gateway,
                                      rt.gateway)
                 PROVE  /\ Decision(route_table', packet.dst) # 0
                        /\ route_table'[Decision(route_table', packet.dst)]
                             = route_table[Decision(route_table, packet.dst)]
    OBVIOUS
  <2>2. route_table \in Seq(Route) /\ route_table' = AddRouteTable(route_table, rt)
    BY <2>1 DEF IInv, TypeOK, OnBnClickedOk
  <2>3. Ordered(route_table)
    BY <2>1, <2>2, ComparableBefore DEF IInv, OrderedWhenComparable
  <2>4. QED BY <2>1, <2>2, <2>3, OlderKept
<1> HIDE DEF Kept
<1>2. IInv /\ [Next]_vars => [Kept]_vars BY <1>1
<1>3. Spec => [][Kept]_vars BY <1>2, Invariance, PTL DEF Spec
<1>4. QED BY <1>3 DEF Kept, OlderEqualDecides

=============================================================================
