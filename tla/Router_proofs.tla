---------------------------- MODULE Router_proofs ----------------------------
(***************************************************************************)
(* Proofs about Router, from the invariants of its two parts.              *)
(***************************************************************************)
EXTENDS Router, ARPLayer_proofs

\* What is proved about the table of routes, for the table that Router has.
Routes == INSTANCE RoutingTable_proofs WITH sent <- calls

-----------------------------------------------------------------------------
(* Routing and Routes are the same. *)

LEMMA SameRows == Routes!RoutingAssumption
BY RowAssumption
DEF Routing!RoutingAssumption, Routing!Node, Routing!Datagram, Routing!Iface,
    Routing!Address, Routing!Byte, Routing!Flag,
    Routes!RoutingAssumption, Routes!Node, Routes!Datagram, Routes!Iface,
    Routes!Address, Routes!Byte, Routes!Flag

LEMMA RowInterface == ASSUME NEW row \in Route PROVE row.interface \in Iface
BY RowAssumption
DEF Routing!RoutingAssumption, Routing!Node, Routing!Iface, Iface, INNER, OUTER

LEMMA SameMatches ==
  ASSUME NEW row, NEW ip
  PROVE  Routing!Matches(row, ip) = Routes!Matches(row, ip)
BY DEF Routing!Matches, Routing!Masked, Routing!BitAnd,
       Routes!Matches, Routes!Masked, Routes!BitAnd

LEMMA SameReading == Routing!NoPacket = Routes!NoPacket /\ Routing!Reading = Routes!Reading
BY DEF Routing!Reading, Routes!Reading, Routing!NoPacket, Routes!NoPacket

LEMMA SamePoint ==
  ASSUME NEW table, NEW gateway
  PROVE  Routing!AddPoint(table, gateway) = Routes!AddPoint(table, gateway)
BY DEF Routing!AddPoint, Routing!LongestPrefix, Routing!SelectInSeq, Routing!Min,
       Routes!AddPoint, Routes!LongestPrefix, Routes!SelectInSeq, Routes!Min

LEMMA SameAdd ==
  ASSUME NEW table, NEW rt
  PROVE  Routing!AddRouteTable(table, rt) = Routes!AddRouteTable(table, rt)
BY SamePoint DEF Routing!AddRouteTable, Routing!InsertAt, Routes!AddRouteTable, Routes!InsertAt

LEMMA SameHit ==
  ASSUME NEW s
  PROVE  /\ Routing!Hit(s) <=> Routes!Hit(s)
         /\ Routing!Row(s) = Routes!Row(s)
         /\ Routing!Done(s) <=> Routes!Done(s)
BY SameMatches, SameReading DEF Routing!Hit, Routing!Row, Routing!Done, Routes!Hit, Routes!Row, Routes!Done

LEMMA SameOk ==
  ASSUME NEW rt
  PROVE  Routing!OnBnClickedOk(rt) <=> Routes!OnBnClickedOk(rt)
BY SamePoint, SameAdd DEF Routing!OnBnClickedOk, Routes!OnBnClickedOk

LEMMA SameReceive ==
  ASSUME NEW s, NEW packet
  PROVE  Routing!Receive(s, packet) <=> Routes!Receive(s, packet)
BY DEF Routing!Receive, Routes!Receive

LEMMA SameWalk ==
  ASSUME NEW s
  PROVE  /\ Routing!NextRow(s) <=> Routes!NextRow(s)
         /\ Routing!NoRoute(s) <=> Routes!NoRoute(s)
         /\ Routing!RouteDropped(s) <=> Routes!RouteDropped(s)
         /\ Routing!RouteHost(s) <=> Routes!RouteHost(s)
         /\ Routing!RouteGateway(s) <=> Routes!RouteGateway(s)
BY SameHit
DEF Routing!NextRow, Routing!NoRoute, Routing!RouteDropped, Routing!RouteHost,
    Routing!RouteGateway, Routing!RSend, Routing!Swapped,
    Routes!NextRow, Routes!NoRoute, Routes!RouteDropped, Routes!RouteHost,
    Routes!RouteGateway, Routes!RSend, Routes!Swapped

-----------------------------------------------------------------------------
(* The inductive invariant. *)

\* Some row of the table names hop and out for the packet, and of the rows in
\* front of it only those in news match the packet.
Follows(table, packet, hop, out, news) ==
  \E i \in 1 .. Len(table) :
    /\ NamesHop(table[i], packet, hop, out)
    /\ \A j \in 1 .. i - 1 : Routing!Matches(table[j], packet.dst) => table[j] \in news

\* The packet a thread asks or waits with was routed by the table, and still is but for
\* the routes that have been added since.
CargoFollows ==
  \A s \in Slot : rx[s].pc \in {"ask", "wait"} =>
    /\ cargo[s].packet \in Packet
    /\ Follows(route_table, cargo[s].packet, rx[s].hop, rx[s].out, cargo[s].news)

WalkersRead == \A s \in Slot : walk[s].pc = "walk" => rx[s].pc = "read"

Carried == [packet : Packet \cup {Routing!NoPacket}, news : SUBSET Route]

RouterIInv ==
  /\ IInv
  /\ Routes!IInv
  /\ cargo \in [Slot -> Carried]
  /\ WalkersRead
  /\ CargoFollows

LEMMA RoutesTypes ==
  ASSUME Routes!IInv
  PROVE  /\ route_table \in Seq(Route)
         /\ walk \in [Slot -> Routes!Walk]
         /\ \A s \in Slot : walk[s].pc = "walk" =>
              /\ walk[s].packet \in Packet
              /\ walk[s].at \in 1 .. Len(route_table)
              /\ \A i \in 1 .. walk[s].at - 1 :
                   Routing!Matches(route_table[i], walk[s].packet.dst)
                     => route_table[i] \in walk[s].news
<1>1. route_table \in Seq(Route) BY DEF Routes!IInv, Routes!TypeOK
<1>2. DOMAIN route_table = 1 .. Len(route_table) BY <1>1
<1>3. QED
  BY <1>1, <1>2, SameMatches DEF Routes!IInv, Routes!TypeOK, Routes!NoRouteSkipped

\* A new route moves the row that a packet follows, at most.
LEMMA FollowsAdd ==
  ASSUME NEW table \in Seq(Route), NEW rt \in Route, NEW packet, NEW hop, NEW out, NEW news,
         Follows(table, packet, hop, out, news)
  PROVE  Follows(Routing!AddRouteTable(table, rt), packet, hop, out, news \cup {rt})
<1> DEFINE r == Routing!AddRouteTable(table, rt)
<1> DEFINE p == Routes!AddPoint(table, rt.gateway)
<1>1. /\ p \in 1 .. Len(table) + 1
      /\ r \in Seq(Route)
      /\ Len(r) = Len(table) + 1
      /\ \A j \in 1 .. p - 1 : r[j] = table[j]
      /\ r[p] = rt
      /\ \A j \in p .. Len(table) : r[j + 1] = table[j]
  BY Routes!AddEffect, SameRows, SameAdd
<1>2. PICK i \in 1 .. Len(table) :
        /\ NamesHop(table[i], packet, hop, out)
        /\ \A j \in 1 .. i - 1 : Routing!Matches(table[j], packet.dst) => table[j] \in news
  BY DEF Follows
<1> HIDE DEF r, p
<1>3. CASE i < p
  <2>1. i \in 1 .. Len(r) /\ r[i] = table[i] /\ \A j \in 1 .. i - 1 : r[j] = table[j]
    BY <1>1, <1>3
  <2>2. QED BY <1>2, <2>1 DEF Follows, r
<1>4. CASE i >= p
  <2>1. i + 1 \in 1 .. Len(r) /\ r[i + 1] = table[i] BY <1>1, <1>4
  <2>2. ASSUME NEW j \in 1 .. i, Routing!Matches(r[j], packet.dst)
        PROVE  r[j] \in news \cup {rt}
    <3>1. CASE j < p
      <4>1. j \in 1 .. i - 1 /\ r[j] = table[j] BY <1>1, <1>4, <3>1
      <4>2. QED BY <1>2, <2>2, <4>1
    <3>2. CASE j = p BY <1>1, <3>2
    <3>3. CASE j > p
      <4> DEFINE k == j - 1
      <4>1. k \in p .. Len(table) /\ k \in 1 .. i - 1 /\ j = k + 1 BY <1>1, <3>3
      <4> HIDE DEF k
      <4>2. r[j] = table[k] BY <1>1, <4>1
      <4>3. QED BY <1>2, <2>2, <4>1, <4>2
    <3>4. QED BY <1>1, <3>1, <3>2, <3>3
  <2>3. (i + 1) - 1 = i OBVIOUS
  <2>4. QED BY <1>2, <2>1, <2>2, <2>3 DEF Follows, r
<1>5. QED BY <1>1, <1>3, <1>4

\* A matching row hands the packet of the walk to the hop that it names.
LEMMA CallFollows ==
  ASSUME Routes!IInv, NEW s \in Slot, Routing!RouteHost(s) \/ Routing!RouteGateway(s),
         NEW call \in calls'
  PROVE  /\ walk[s].pc = "walk"
         /\ call.packet = walk[s].packet /\ call.packet \in Packet
         /\ call.hop \in IPAddr /\ call.interface \in Iface
         /\ walk[s].news \in SUBSET Route
         /\ Follows(route_table, call.packet, call.hop, call.interface, walk[s].news)
<1> DEFINE row == route_table[walk[s].at]
<1>1. walk[s].pc = "walk" /\ Routing!Matches(row, walk[s].packet.dst)
  BY DEF Routing!RouteHost, Routing!RouteGateway, Routing!Hit, Routing!Row
<1>2. /\ walk[s].packet \in Packet
      /\ walk[s].at \in 1 .. Len(route_table)
      /\ \A i \in 1 .. walk[s].at - 1 :
           Routing!Matches(route_table[i], walk[s].packet.dst) => route_table[i] \in walk[s].news
  BY <1>1, RoutesTypes
<1>3. row \in Route BY <1>2, RoutesTypes
<1>4. walk[s] \in Routes!Walk BY RoutesTypes
<1>5. walk[s].news \in SUBSET Route BY <1>4 DEF Routes!Walk
<1>6. row.interface \in Iface BY <1>3, RowInterface
<1>7. /\ call.packet = walk[s].packet
      /\ call.interface = row.interface
      /\ "UP" \in row.flag
      /\ call.hop = IF "HOST" \in row.flag THEN walk[s].packet.dst ELSE row.gateway
  BY DEF Routing!RouteHost, Routing!RouteGateway, Routing!RSend, Routing!Row
<1> HIDE DEF row
<1>8. call.hop \in IPAddr
  <2>1. walk[s].packet.dst \in IPAddr BY <1>2, HopAssumption
  <2>2. row.gateway \in IPAddr BY <1>2, <1>3, HopAssumption
  <2>3. QED BY <1>7, <2>1, <2>2
<1>9. NamesHop(row, call.packet, call.hop, call.interface) BY <1>1, <1>7 DEF NamesHop
<1>10. Follows(route_table, call.packet, call.hop, call.interface, walk[s].news)
  BY <1>2, <1>7, <1>9 DEF Follows, row
<1>11. QED BY <1>1, <1>2, <1>5, <1>6, <1>7, <1>8, <1>10

-----------------------------------------------------------------------------
(* The steps. *)

\* What a step of Router is for the table of routes, and for the layer.
LEMMA RoutesStep ==
  ASSUME [RouterNext]_routerVars
  PROVE  [Routes!Next]_(Routes!routing)
<1>1. CASE UNCHANGED routes BY <1>1 DEF routes, Routes!routing
<1>2. ASSUME NEW rt \in Route, AddRoute(rt) PROVE Routes!Next
  <2>1. Routes!OnBnClickedOk(rt) BY <1>2, SameOk DEF AddRoute
  <2>2. QED BY <2>1 DEF Routes!Next
<1>3. ASSUME NEW s \in Slot, NEW packet \in Packet, Arrive(s, packet) PROVE Routes!Next
  <2>1. Routes!Receive(s, packet) BY <1>3, SameReceive DEF Arrive
  <2>2. QED BY <2>1 DEF Routes!Next
<1>4. ASSUME NEW s \in Slot, NextRow(s) \/ GiveUp(s) \/ Forward(s) PROVE Routes!Next
  <2>1. Routes!Routing(s) BY <1>4, SameWalk DEF NextRow, GiveUp, Forward, Routes!Routing
  <2>2. QED BY <2>1 DEF Routes!Next
<1>5. QED
  BY <1>1, <1>2, <1>3, <1>4 DEF RouterNext, routerVars, Other, Unrouted, Ask, Waited

LEMMA LayerSteps ==
  ASSUME RouterIInv, [RouterNext]_routerVars
  PROVE  [LayerStep]_vars
<1>1. CASE Other
  BY <1>1 DEF Other, LayerStep, Progress
<1>2. ASSUME NEW rt \in Route, AddRoute(rt) PROVE LayerStep
  BY <1>2 DEF AddRoute, Silent, LayerStep, Unmoved
<1>3. ASSUME NEW s \in Slot, NEW packet \in Packet, Arrive(s, packet) PROVE LayerStep
  BY <1>3 DEF Arrive, Silent, LayerStep, Unmoved, ReceiveIgnored
<1>4. ASSUME NEW s \in Slot, NextRow(s) PROVE LayerStep
  BY <1>4 DEF NextRow, Silent, LayerStep, Unmoved
<1>5. ASSUME NEW s \in Slot, GiveUp(s) PROVE LayerStep
  <2>1. walk[s].pc = "walk"
    BY <1>5 DEF GiveUp, Routing!RouteDropped, Routing!NoRoute, Routing!Hit
  <2>2. rx[s].pc = "read" BY <2>1 DEF RouterIInv, WalkersRead
  <2>3. QED BY <1>5, <2>2 DEF GiveUp, Silent, LayerStep, ReceiveIgnored
<1>6. ASSUME NEW s \in Slot, Forward(s) PROVE LayerStep
  <2>1. PICK call \in calls' : \/ ForwardByProxy(s, call.hop, call.interface)
                               \/ ForwardCached(s, call.hop, call.interface)
                               \/ ForwardMiss(s, call.hop, call.interface)
    BY <1>6 DEF Forward
  <2>2. call.hop \in IPAddr /\ call.interface \in Iface
    BY <1>6, CallFollows DEF RouterIInv, Forward
  <2>3. QED BY <2>1, <2>2 DEF LayerStep
<1>7. ASSUME NEW s \in Slot, Waited(s) PROVE LayerStep
  BY <1>7 DEF Waited, LayerStep, Progress
<1>8. ASSUME NEW s \in Slot, Ask(s) PROVE LayerStep
  BY <1>8 DEF Ask, LayerStep, Progress
<1>9. CASE UNCHANGED routerVars BY <1>9 DEF routerVars
<1>10. QED BY <1>1, <1>2, <1>3, <1>4, <1>5, <1>6, <1>7, <1>8, <1>9 DEF RouterNext

\* How a thread can change.
LEMMA ResumedThread ==
  ASSUME TypeOK, NEW s \in Slot, NEW t \in Slot, rx' = Resume(s)
  PROVE  IF t = s THEN rx'[t].pc \in {"read", "off"} ELSE rx'[t] = rx[t]
BY DEF TypeOK, Resume, At

LEMMA DialogThread ==
  ASSUME TypeOK, Dialog, NEW t \in Slot
  PROVE  \/ rx'[t] = rx[t]
         \/ rx[t].pc = "off" /\ rx'[t].pc = "read"
         \/ rx'[t].pc = rx[t].pc /\ rx'[t].hop = rx[t].hop /\ rx'[t].out = rx[t].out
<1>1. rx \in [Slot -> Thread] BY DEF TypeOK
<1>2. CASE Select
  <2>1. PICK T \in Startable : rx' = Spawn(T) BY <1>2 DEF Select
  <2>2. T \in SUBSET {q \in Slot : rx[q].pc = "off"} BY DEF Startable
  <2>3. CASE t \in T
    <3>1. rx[t].pc = "off" BY <2>2, <2>3
    <3>2. rx'[t] = At("read") BY <2>1, <2>3 DEF Spawn
    <3>3. rx'[t].pc = "read" BY <3>2 DEF At
    <3>4. QED BY <3>1, <3>3
  <2>4. CASE t \notin T BY <2>1, <2>4 DEF Spawn
  <2>5. QED BY <2>3, <2>4
<1>3. ASSUME NEW ips, rx' = Forsake(ips)
      PROVE  rx'[t].pc = rx[t].pc /\ rx'[t].hop = rx[t].hop /\ rx'[t].out = rx[t].out
  <2>1. \A u \in Thread : /\ [u EXCEPT !.gone = TRUE].pc = u.pc
                          /\ [u EXCEPT !.gone = TRUE].hop = u.hop
                          /\ [u EXCEPT !.gone = TRUE].out = u.out
    BY DEF Thread
  <2>2. QED BY <1>1, <1>3, <2>1 DEF Forsake
<1>4. ASSUME SendOn
      PROVE  rx'[t].pc = rx[t].pc /\ rx'[t].hop = rx[t].hop /\ rx'[t].out = rx[t].out
  <2>1. PICK ip \in IPAddr, header \in [src : IPAddr, dst : IPAddr] : Send(ip, header)
    BY <1>4, SendOnSends
  <2>2. PICK ips : rx' = Forsake(ips) BY <2>1 DEF Send
  <2>3. QED BY <1>3, <2>2
<1>5. QED
  BY <1>2, <1>3, <1>4
  DEF Dialog, TypeSource, OnCbnSelchangeComboAdapter, SelectRefused, Reselect, SendArp,
      OnTimer, DeleteRow, ClearTable, CreateProxy, DeleteProxy

\* What is neither Router's nor a packet's leaves a thread as it is, or lets it
\* begin or end, or go on reading.
LEMMA OtherThread ==
  ASSUME TypeOK, Other, NEW t \in Slot
  PROVE  \/ rx'[t].pc = rx[t].pc /\ rx'[t].hop = rx[t].hop /\ rx'[t].out = rx[t].out
         \/ rx'[t].pc \in {"read", "off"} /\ (rx[t].pc = "off" \/ walk[t].pc = "read")
<1>1. ASSUME NEW s \in Slot, rx' = Resume(s), walk[s].pc = "read"
      PROVE  \/ rx'[t] = rx[t]
             \/ rx'[t].pc \in {"read", "off"} /\ walk[t].pc = "read"
  BY <1>1, ResumedThread
<1>2. CASE Dialog BY <1>2, DialogThread
<1>3. CASE Tick BY <1>3 DEF Tick
<1>4. QED
  BY <1>1, <1>2, <1>3
  DEF Other, ReadTimeout, ReceiveIgnored, ReceiveRequest, ReceiveReply

\* The three things that a packet's forwarding can do to its thread.
LEMMA ForwardThread ==
  ASSUME TypeOK, NEW s \in Slot, NEW t \in Slot, NEW hop, NEW out,
         \/ ForwardByProxy(s, hop, out)
         \/ ForwardCached(s, hop, out)
         \/ ForwardMiss(s, hop, out)
  PROVE  IF t = s
         THEN \/ rx'[t].pc \in {"read", "off"}
              \/ rx'[t].pc = "ask" /\ rx'[t].hop = hop /\ rx'[t].out = out
         ELSE rx'[t] = rx[t]
<1>1. CASE ForwardMiss(s, hop, out)
  <2>1. PICK mac : rx' = [rx EXCEPT ![s] = Asking(hop, out, mac)] BY <1>1, MissThread
  <2>2. LET u == Asking(hop, out, mac) IN u.pc = "ask" /\ u.hop = hop /\ u.out = out
    BY DEF Asking
  <2>3. QED BY <2>1, <2>2 DEF TypeOK
<1>2. CASE ForwardByProxy(s, hop, out) \/ ForwardCached(s, hop, out)
  BY <1>2, ResumedThread DEF ForwardByProxy, ForwardCached
<1>3. QED BY <1>1, <1>2

\* A thread that has asked waits for the same hop.
LEMMA AskedThread ==
  ASSUME TypeOK, NEW s \in Slot, NEW t \in Slot, ForwardAsk(s)
  PROVE  IF t = s
         THEN /\ rx[t].pc = "ask" /\ rx'[t].pc = "wait"
              /\ rx'[t].hop = rx[t].hop /\ rx'[t].out = rx[t].out
         ELSE rx'[t] = rx[t]
<1> DEFINE own == myaddr[rx[s].out].ip = rx[s].hop
<1>1. rx[s].pc = "ask" BY DEF ForwardAsk
<1>2. rx' = [rx EXCEPT ![s] = Waiting(rx[s].hop, rx[s].out, own)] BY AskThread
<1>3. LET u == Waiting(rx[s].hop, rx[s].out, own)
      IN  u.pc = "wait" /\ u.hop = rx[s].hop /\ u.out = rx[s].out
  BY DEF Waiting
<1> HIDE DEF own
<1>4. QED BY <1>1, <1>2, <1>3 DEF TypeOK

\* What a step does to the walk of a thread.
LEMMA ReadingIsReading == Routing!Reading.pc = "read"
BY DEF Routing!Reading

LEMMA WalkersStep ==
  ASSUME RouterIInv, [RouterNext]_routerVars
  PROVE  WalkersRead'
<1> SUFFICES ASSUME NEW t \in Slot, walk'[t].pc = "walk" PROVE rx'[t].pc = "read"
  BY DEF WalkersRead
<1>1. /\ TypeOK /\ walk \in [Slot -> Routes!Walk] /\ rx \in [Slot -> Thread]
      /\ walk[t].pc = "walk" => rx[t].pc = "read"
  BY RoutesTypes DEF RouterIInv, IInv, TypeOK, WalkersRead
<1>2. CASE walk[t].pc = "walk" /\ rx'[t].pc = rx[t].pc BY <1>1, <1>2
<1>3. CASE Other
  <2>1. walk'[t] = walk[t] BY <1>3 DEF Other, Unrouted, routes
  <2>2. rx'[t].pc = rx[t].pc BY <1>1, <1>3, <2>1, OtherThread
  <2>3. QED BY <1>2, <2>1, <2>2
<1>4. ASSUME NEW rt \in Route, AddRoute(rt) PROVE rx'[t].pc = "read"
  <2>1. rx' = rx BY <1>4 DEF AddRoute
  <2>2. walk[t].pc = "walk"
    <3>1. CASE walk[t].pc = "walk" BY <3>1
    <3>2. CASE walk[t].pc # "walk"
      <4>1. walk'[t] = walk[t] BY <1>4, <3>2 DEF AddRoute, Routing!OnBnClickedOk
      <4>2. QED BY <3>2, <4>1
    <3>3. QED BY <3>1, <3>2
  <2>3. QED BY <1>2, <2>1, <2>2
<1>5. ASSUME NEW s \in Slot, NEW packet \in Packet, Arrive(s, packet)
      PROVE  rx'[t].pc = "read"
  <2>1. CASE route_table = << >>
    <3>1. walk' = walk /\ rx' = Resume(s) /\ walk[s].pc = "read"
      BY <1>5, <2>1 DEF Arrive, Routing!Receive
    <3>2. t # s BY <3>1
    <3>3. QED BY <1>1, <1>2, <3>1, <3>2, ResumedThread
  <2>2. CASE route_table # << >>
    <3>1. rx' = rx /\ rx[s].pc = "read" BY <1>5, <2>2 DEF Arrive
    <3>2. CASE t = s BY <3>1, <3>2
    <3>3. CASE t # s
      <4>1. walk'[t] = walk[t] BY <1>1, <1>5, <2>2, <3>3 DEF Arrive, Routing!Receive
      <4>2. QED BY <1>2, <3>1, <4>1
    <3>4. QED BY <3>2, <3>3
  <2>3. QED BY <2>1, <2>2
<1>6. ASSUME NEW s \in Slot, NextRow(s) PROVE rx'[t].pc = "read"
  <2>1. rx' = rx /\ walk[s].pc = "walk" /\ walk' = [walk EXCEPT ![s].at = @ + 1]
    BY <1>6 DEF NextRow, Routing!NextRow
  <2>2. t = s \/ walk'[t] = walk[t] BY <1>1, <2>1
  <2>3. QED BY <1>2, <2>1, <2>2
<1>7. ASSUME NEW s \in Slot, Routing!Done(s), IF t = s THEN TRUE ELSE rx'[t] = rx[t]
      PROVE  rx'[t].pc = "read"
  <2>1. walk' = [walk EXCEPT ![s] = Routing!Reading] BY <1>7 DEF Routing!Done
  <2>2. t # s BY <1>1, <2>1, ReadingIsReading
  <2>3. walk'[t] = walk[t] BY <1>1, <2>1, <2>2
  <2>4. QED BY <1>2, <1>7, <2>2, <2>3
<1>8. ASSUME NEW s \in Slot, GiveUp(s) PROVE rx'[t].pc = "read"
  <2>1. Routing!Done(s) /\ rx' = Resume(s)
    BY <1>8 DEF GiveUp, Routing!RouteDropped, Routing!NoRoute
  <2>2. QED BY <1>1, <1>7, <2>1, ResumedThread
<1>9. ASSUME NEW s \in Slot, Forward(s) PROVE rx'[t].pc = "read"
  <2>1. Routing!Done(s) BY <1>9 DEF Forward, Routing!RouteHost, Routing!RouteGateway
  <2>2. PICK call \in calls' : \/ ForwardByProxy(s, call.hop, call.interface)
                               \/ ForwardCached(s, call.hop, call.interface)
                               \/ ForwardMiss(s, call.hop, call.interface)
    BY <1>9 DEF Forward
  <2>3. IF t = s THEN TRUE ELSE rx'[t] = rx[t] BY <1>1, <2>2, ForwardThread
  <2>4. QED BY <1>7, <2>1, <2>3
<1>10. ASSUME NEW s \in Slot, Waited(s) PROVE rx'[t].pc = "read"
  <2>1. walk' = walk /\ rx[s].pc = "wait" /\ rx' = Resume(s)
    BY <1>10 DEF Waited, Unrouted, routes, ForwardWaited, ForwardDropped
  <2>2. t # s BY <1>1, <2>1
  <2>3. QED BY <1>1, <1>2, <2>1, <2>2, ResumedThread
<1>11. ASSUME NEW s \in Slot, Ask(s) PROVE rx'[t].pc = "read"
  <2>1. walk' = walk /\ ForwardAsk(s) BY <1>11 DEF Ask, Unrouted, routes
  <2>2. t # s /\ rx'[t] = rx[t] BY <1>1, <2>1, AskedThread
  <2>3. QED BY <1>2, <2>1, <2>2
<1>12. CASE UNCHANGED routerVars
  <2>1. walk' = walk /\ rx' = rx BY <1>12 DEF routerVars, routes, vars
  <2>2. QED BY <1>2, <2>1
<1>13. QED
  BY <1>3, <1>4, <1>5, <1>6, <1>8, <1>9, <1>10, <1>11, <1>12 DEF RouterNext

LEMMA NothingCarried == Nothing \in Carried
BY DEF Nothing, Carried

\* A thread that goes on waiting keeps its packet, one that begins to wait takes
\* the packet of its walk, and a route that is added is news to both.
LEMMA CargoStep ==
  ASSUME RouterIInv, [RouterNext]_routerVars
  PROVE  cargo' \in [Slot -> Carried] /\ CargoFollows'
<1>1. /\ TypeOK /\ rx \in [Slot -> Thread] /\ cargo \in [Slot -> Carried]
      /\ route_table \in Seq(Route) /\ Routes!IInv /\ WalkersRead /\ CargoFollows
  BY RoutesTypes DEF RouterIInv, IInv, TypeOK
<1> DEFINE Right(t) ==
      rx'[t].pc \in {"ask", "wait"} =>
        /\ cargo'[t].packet \in Packet
        /\ Follows(route_table', cargo'[t].packet, rx'[t].hop, rx'[t].out, cargo'[t].news)
<1>2. (\A t \in Slot : Right(t)) => CargoFollows'
  BY DEF CargoFollows
<1>3. ASSUME NEW t \in Slot, route_table' = route_table, cargo'[t] = cargo[t],
             rx'[t].pc \in {"ask", "wait"} =>
               /\ rx[t].pc \in {"ask", "wait"}
               /\ rx'[t].hop = rx[t].hop /\ rx'[t].out = rx[t].out
      PROVE  Right(t)
  BY <1>1, <1>3 DEF CargoFollows
<1>4. ASSUME NEW t \in Slot, rx'[t].pc \notin {"ask", "wait"} PROVE Right(t) BY <1>4
<1> HIDE DEF Right
<1>5. CASE Other
  <2>1. cargo' = cargo /\ route_table' = route_table BY <1>5 DEF Other, Unrouted, routes
  <2>2. \A t \in Slot : Right(t) BY <1>1, <1>3, <1>4, <1>5, <2>1, OtherThread
  <2>3. QED BY <1>1, <1>2, <2>1, <2>2
<1>6. ASSUME NEW rt \in Route, AddRoute(rt)
      PROVE  cargo' \in [Slot -> Carried] /\ \A t \in Slot : Right(t)
  <2>1. /\ rx' = rx
        /\ route_table' = Routing!AddRouteTable(route_table, rt)
        /\ cargo' = [q \in Slot |-> IF rx[q].pc \in {"ask", "wait"}
                                    THEN [cargo[q] EXCEPT !.news = @ \cup {rt}] ELSE cargo[q]]
    BY <1>6 DEF AddRoute, Routing!OnBnClickedOk
  <2>2. ASSUME NEW c \in Carried
        PROVE  LET d == [c EXCEPT !.news = @ \cup {rt}]
               IN  d \in Carried /\ d.packet = c.packet /\ d.news = c.news \cup {rt}
    BY DEF Carried
  <2>3. cargo' \in [Slot -> Carried] BY <1>1, <2>1, <2>2
  <2>4. ASSUME NEW t \in Slot PROVE Right(t)
    <3> SUFFICES ASSUME rx[t].pc \in {"ask", "wait"} PROVE Right(t) BY <1>4, <2>1
    <3>1. cargo'[t].packet = cargo[t].packet /\ cargo'[t].news = cargo[t].news \cup {rt}
      BY <1>1, <2>1, <2>2
    <3>2. /\ cargo[t].packet \in Packet
          /\ Follows(route_table, cargo[t].packet, rx[t].hop, rx[t].out, cargo[t].news)
      BY <1>1 DEF CargoFollows
    <3>3. Follows(route_table', cargo[t].packet, rx[t].hop, rx[t].out, cargo[t].news \cup {rt})
      BY <1>1, <2>1, <3>2, FollowsAdd
    <3>4. QED BY <2>1, <3>1, <3>2, <3>3 DEF Right
  <2>5. QED BY <2>3, <2>4
<1>7. ASSUME NEW s \in Slot, route_table' = route_table, cargo' = cargo,
             rx' = rx \/ rx' = Resume(s)
      PROVE  cargo' \in [Slot -> Carried] /\ \A t \in Slot : Right(t)
  <2>1. \A t \in Slot : Right(t)
    BY <1>1, <1>3, <1>4, <1>7, ResumedThread
  <2>2. QED BY <1>1, <1>7, <2>1
<1>8. ASSUME NEW s \in Slot,
             \/ \E packet \in Packet : Arrive(s, packet)
             \/ NextRow(s)
             \/ GiveUp(s)
      PROVE  cargo' \in [Slot -> Carried] /\ \A t \in Slot : Right(t)
  <2>1. route_table' = route_table /\ cargo' = cargo /\ (rx' = rx \/ rx' = Resume(s))
    BY <1>8 DEF Arrive, NextRow, GiveUp, Routing!Receive, Routing!NextRow,
                Routing!RouteDropped, Routing!NoRoute
  <2>2. QED BY <1>7, <2>1
<1>9. ASSUME NEW s \in Slot, Forward(s)
      PROVE  cargo' \in [Slot -> Carried] /\ \A t \in Slot : Right(t)
  <2>1. route_table' = route_table
    BY <1>9 DEF Forward, Routing!RouteHost, Routing!RouteGateway
  <2>2. PICK call \in calls' :
          /\ \/ ForwardByProxy(s, call.hop, call.interface)
             \/ ForwardCached(s, call.hop, call.interface)
             \/ ForwardMiss(s, call.hop, call.interface)
          /\ cargo' = [cargo EXCEPT ![s] =
               IF rx'[s].pc = "ask" THEN [packet |-> call.packet, news |-> walk[s].news]
               ELSE Nothing]
    BY <1>9 DEF Forward
  <2>3. /\ call.packet \in Packet /\ walk[s].news \in SUBSET Route
        /\ Follows(route_table, call.packet, call.hop, call.interface, walk[s].news)
    BY <1>1, <1>9, CallFollows DEF Forward
  <2> DEFINE c == [packet |-> call.packet, news |-> walk[s].news]
  <2>4. c \in Carried /\ c.packet = call.packet /\ c.news = walk[s].news
    BY <2>3 DEF Carried
  <2>5. cargo' = [cargo EXCEPT ![s] = IF rx'[s].pc = "ask" THEN c ELSE Nothing] BY <2>2
  <2> HIDE DEF c
  <2>6. cargo' \in [Slot -> Carried] BY <1>1, <2>4, <2>5, NothingCarried
  <2>7. ASSUME NEW t \in Slot PROVE Right(t)
    <3>1. CASE t # s
      <4>1. cargo'[t] = cargo[t] BY <1>1, <2>5, <3>1
      <4>2. rx'[t] = rx[t] BY <1>1, <2>2, <3>1, ForwardThread
      <4>3. QED BY <1>3, <2>1, <4>1, <4>2
    <3>2. CASE t = s /\ rx'[t].pc = "ask"
      <4>1. cargo'[t] = c BY <1>1, <2>5, <3>2
      <4>2. rx'[t].hop = call.hop /\ rx'[t].out = call.interface
        BY <1>1, <2>2, <3>2, ForwardThread
      <4>3. QED BY <2>1, <2>3, <2>4, <4>1, <4>2 DEF Right
    <3>3. CASE t = s /\ rx'[t].pc # "ask"
      <4>1. rx'[t].pc \notin {"ask", "wait"} BY <1>1, <2>2, <3>3, ForwardThread
      <4>2. QED BY <1>4, <4>1
    <3>4. QED BY <3>1, <3>2, <3>3
  <2>8. QED BY <2>6, <2>7
<1>10. ASSUME NEW s \in Slot, Waited(s)
       PROVE  cargo' \in [Slot -> Carried] /\ \A t \in Slot : Right(t)
  <2>1. route_table' = route_table /\ rx' = Resume(s) /\ cargo' = [cargo EXCEPT ![s] = Nothing]
    BY <1>10 DEF Waited, Unrouted, routes, ForwardWaited, ForwardDropped
  <2>2. cargo' \in [Slot -> Carried] BY <1>1, <2>1, NothingCarried
  <2>3. ASSUME NEW t \in Slot PROVE Right(t)
    <3>1. CASE t = s BY <1>1, <1>4, <2>1, <3>1, ResumedThread
    <3>2. CASE t # s
      <4>1. cargo'[t] = cargo[t] /\ rx'[t] = rx[t] BY <1>1, <2>1, <3>2, ResumedThread
      <4>2. QED BY <1>3, <2>1, <4>1
    <3>3. QED BY <3>1, <3>2
  <2>4. QED BY <2>2, <2>3
<1>11. ASSUME NEW s \in Slot, Ask(s)
       PROVE  cargo' \in [Slot -> Carried] /\ \A t \in Slot : Right(t)
  <2>1. route_table' = route_table /\ cargo' = cargo /\ ForwardAsk(s)
    BY <1>11 DEF Ask, Unrouted, routes
  <2>2. \A t \in Slot : Right(t) BY <1>1, <1>3, <2>1, AskedThread
  <2>3. QED BY <1>1, <2>1, <2>2
<1>12. CASE UNCHANGED routerVars
  <2>1. route_table' = route_table /\ rx' = rx /\ cargo' = cargo
    BY <1>12 DEF routerVars, routes, vars
  <2>2. \A t \in Slot : Right(t) BY <1>3, <2>1
  <2>3. QED BY <1>1, <1>2, <2>1, <2>2
<1>13. QED
  BY <1>2, <1>5, <1>6, <1>8, <1>9, <1>10, <1>11, <1>12 DEF RouterNext

-----------------------------------------------------------------------------
(* The invariant holds. *)

LEMMA RouterInitInv == RouterInit => RouterIInv
<1> SUFFICES ASSUME RouterInit PROVE RouterIInv OBVIOUS
<1>1. IInv BY InitInv DEF RouterInit
<1>2. Routing!Init BY DEF RouterInit
<1>3. Routes!Init
  BY <1>2, SameReading DEF Routing!Init, Routes!Init, Routing!Iface, Routes!Iface
<1>4. Routes!IInv BY <1>3, Routes!InitInv, SameRows
<1>5. cargo = [s \in Slot |-> Nothing] BY DEF RouterInit
<1>6. cargo \in [Slot -> Carried] BY <1>5, NothingCarried
<1>7. WalkersRead
  <2>1. walk = [s \in Slot |-> Routing!Reading] BY <1>2 DEF Routing!Init
  <2>2. QED BY <2>1, ReadingIsReading DEF WalkersRead
<1>8. CargoFollows
  <2>1. \A s \in Slot : rx[s].pc = "off" BY DEF RouterInit, Init, At
  <2>2. QED BY <2>1 DEF CargoFollows
<1>9. QED BY <1>1, <1>4, <1>6, <1>7, <1>8 DEF RouterIInv

LEMMA RouterNextInv ==
  ASSUME RouterIInv, [RouterNext]_routerVars
  PROVE  RouterIInv'
<1>1. IInv' BY LayerInv, LayerSteps DEF RouterIInv
<1>2. Routes!IInv' BY Routes!NextInv, SameRows, RoutesStep DEF RouterIInv
<1>3. QED BY <1>1, <1>2, WalkersStep, CargoStep DEF RouterIInv

\* Both parts keep their invariants in the program they make up, and the packet
\* that a thread carries through Wait stays bound to its row.
THEOREM RouterInvariance == RouterSpec => []RouterIInv
BY RouterInitInv, RouterNextInv, PTL DEF RouterSpec

\* Every variable of the program keeps its type; a thread walks along the table
\* only while it neither reads nor waits.
THEOREM RouterTypes == RouterSpec => []RouterTypeOK
<1>1. ASSUME RouterIInv PROVE RouterTypeOK
  <2>1. TypeOK BY <1>1 DEF RouterIInv, IInv
  <2>2. Routing!TypeOK
    <3>1. Routes!TypeOK BY <1>1 DEF RouterIInv, Routes!IInv
    <3>2. Routing!Walk = Routes!Walk
      BY DEF Routing!Walk, Routes!Walk, Routing!Datagram, Routes!Datagram,
             Routing!Address, Routes!Address, Routing!Byte, Routes!Byte
    <3>3. QED
      BY <3>1, <3>2
      DEF Routing!TypeOK, Routes!TypeOK, Routing!Iface, Routes!Iface, Routing!Byte, Routes!Byte
  <2>3. ASSUME NEW s \in Slot, rx[s].pc \in {"ask", "wait"} PROVE cargo[s] \in Cargo
    <3>1. cargo[s] \in Carried /\ cargo[s].packet \in Packet
      BY <1>1, <2>3 DEF RouterIInv, CargoFollows
    <3>2. QED BY <3>1 DEF Carried, Cargo
  <2>4. QED BY <1>1, <2>1, <2>2, <2>3 DEF RouterTypeOK, RouterIInv, WalkersRead
<1>2. QED BY <1>1, RouterInvariance, PTL

-----------------------------------------------------------------------------
(* What leaves. *)

\* A lookup returns what a claim, or a question, put there.
LEMMA LookupClaim ==
  ASSUME TableOK(arpTable), NEW hop, Cached(hop)
  PROVE  Lookup(arpTable, hop) \in StationsOf(hop) \cup {Broadcast, ZeroMAC}
<1> DEFINE m == inCache(arpTable, hop)
<1>1. arpTable \in Seq(Node) BY DEF TableOK
<1>2. m \in 1 .. Len(arpTable) /\ arpTable[m].ip = hop
  BY <1>1, InCache DEF Cached, Holds
<1>3. Sound(arpTable[m]) BY <1>2 DEF TableOK
<1>4. arpTable[m].mac \in StationsOf(hop) \cup {Broadcast, ZeroMAC} BY <1>2, <1>3 DEF Sound
<1>5. QED BY <1>4 DEF Lookup

Destination(mac, hop) ==
  \/ mac \in {Broadcast, ZeroMAC}
  \/ mac \in StationsOf(hop)
  \/ \E i \in DOMAIN proxyTable : proxyTable[i].ip = hop /\ proxyTable[i].mac = mac

\* The frames in which a packet for hop may be sent.
PacketsFor(hop, frames) ==
  \A frame \in frames : frame.body.op = "ip" => Destination(frame.dst, hop)

LEMMA TransmitFor ==
  ASSUME NEW out, NEW mac, NEW hop, Transmit(out, mac, hop), Destination(mac, hop)
  PROVE  PacketsFor(hop, sent')
<1>1. sent' = {PacketFrame(out, mac, hop)} BY DEF Transmit
<1>2. PacketFrame(out, mac, hop).dst = mac BY DEF PacketFrame
<1>3. QED BY <1>1, <1>2 DEF PacketsFor

\* However the table was changed since RSend looked, what leaves is addressed
\* by the first proxy row or the entry of its hop.
LEMMA FramesFor ==
  ASSUME IInv, NEW s \in Slot, NEW hop, NEW out,
         \/ ForwardByProxy(s, hop, out)
         \/ ForwardCached(s, hop, out)
         \/ ForwardMiss(s, hop, out)
         \/ (ForwardWaited(s) \/ ForwardDropped(s)) /\ hop = rx[s].hop
  PROVE  PacketsFor(hop, sent') /\ proxyTable' = proxyTable
<1>1. TypeOK /\ TableOK(arpTable) BY DEF IInv
<1>2. CASE ForwardByProxy(s, hop, out)
  <2> DEFINE i == ProxyFor(hop)
  <2>1. i \in 1 .. Len(proxyTable) /\ proxyTable[i].ip = hop
    BY <1>1, <1>2, ProxyForEffect DEF ForwardByProxy
  <2>2. Transmit(out, proxyTable[i].mac, hop) /\ proxyTable' = proxyTable
    BY <1>2 DEF ForwardByProxy
  <2>3. DOMAIN proxyTable = 1 .. Len(proxyTable) BY <1>1 DEF TypeOK
  <2> HIDE DEF i
  <2>4. Destination(proxyTable[i].mac, hop) BY <2>1, <2>3 DEF Destination
  <2>5. QED BY <2>2, <2>4, TransmitFor
<1>3. CASE ForwardCached(s, hop, out)
  <2>1. /\ Transmit(out, Lookup(arpTable, hop), hop) /\ Cached(hop)
        /\ proxyTable' = proxyTable
    BY <1>3 DEF ForwardCached
  <2>2. Destination(Lookup(arpTable, hop), hop)
    BY <1>1, <2>1, LookupClaim DEF Destination
  <2>3. QED BY <2>1, <2>2, TransmitFor
<1>4. CASE ForwardMiss(s, hop, out)
  BY <1>4 DEF ForwardMiss, Quiet, PacketsFor
<1>5. CASE ForwardWaited(s) /\ hop = rx[s].hop
  <2>1. /\ Transmit(rx[s].out, Lookup(arpTable, hop), hop) /\ Cached(hop)
        /\ proxyTable' = proxyTable
    BY <1>5 DEF ForwardWaited
  <2>2. Destination(Lookup(arpTable, hop), hop)
    BY <1>1, <2>1, LookupClaim DEF Destination
  <2>3. QED BY <2>1, <2>2, TransmitFor
<1>6. CASE ForwardDropped(s)
  BY <1>6 DEF ForwardDropped, Quiet, PacketsFor
<1>7. QED BY <1>2, <1>3, <1>4, <1>5, <1>6

\* What a packet that leaves carries with it.
LEMMA Leaves ==
  ASSUME NEW c, NEW hop, NEW out, NEW p \in Leaving(c, hop, out), PacketsFor(hop, sent')
  PROVE  /\ p.packet = c.packet /\ p.news = c.news
         /\ p.hop = hop /\ p.out = out
         /\ Destination(p.mac, hop)
BY DEF Leaving, PacketsFor

\* A step lets a packet leave only along the rows, to a station its hop can have.
LEMMA LeftStep ==
  ASSUME RouterIInv, RouterNext, NEW p \in left'
  PROVE  /\ route_table' = route_table /\ proxyTable' = proxyTable
         /\ Follows(route_table, p.packet, p.hop, p.out, p.news)
         /\ Destination(p.mac, p.hop)
<1>1. IInv /\ Routes!IInv /\ CargoFollows BY DEF RouterIInv
<1>2. PICK s \in Slot : Forward(s) \/ Waited(s)
  BY DEF RouterNext, Other, AddRoute, Arrive, NextRow, GiveUp, Ask, Silent
<1>3. CASE Forward(s)
  <2>1. PICK call \in calls' :
          LET c == [packet |-> call.packet, news |-> walk[s].news] IN
          /\ \/ ForwardByProxy(s, call.hop, call.interface)
             \/ ForwardCached(s, call.hop, call.interface)
             \/ ForwardMiss(s, call.hop, call.interface)
          /\ left' = Leaving(c, call.hop, call.interface)
    BY <1>3 DEF Forward
  <2> DEFINE c == [packet |-> call.packet, news |-> walk[s].news]
  <2>2. Follows(route_table, call.packet, call.hop, call.interface, walk[s].news)
    BY <1>1, <1>3, CallFollows DEF Forward
  <2>3. PacketsFor(call.hop, sent') /\ proxyTable' = proxyTable BY <1>1, <2>1, FramesFor
  <2>4. route_table' = route_table
    BY <1>3 DEF Forward, Routing!RouteHost, Routing!RouteGateway
  <2>5. c.packet = call.packet /\ c.news = walk[s].news OBVIOUS
  <2>6. p \in Leaving(c, call.hop, call.interface) BY <2>1
  <2> HIDE DEF c
  <2>7. QED BY <2>2, <2>3, <2>4, <2>5, <2>6, Leaves
<1>4. CASE Waited(s)
  <2>1. /\ left' = Leaving(cargo[s], rx[s].hop, rx[s].out)
        /\ ForwardWaited(s) \/ ForwardDropped(s)
        /\ rx[s].pc = "wait"
        /\ route_table' = route_table
    BY <1>4 DEF Waited, Unrouted, routes, ForwardWaited, ForwardDropped
  <2>2. Follows(route_table, cargo[s].packet, rx[s].hop, rx[s].out, cargo[s].news)
    BY <1>1, <2>1 DEF CargoFollows
  <2>3. PacketsFor(rx[s].hop, sent') /\ proxyTable' = proxyTable BY <1>1, <2>1, FramesFor
  <2>4. p \in Leaving(cargo[s], rx[s].hop, rx[s].out) BY <2>1
  <2>5. QED BY <2>1, <2>2, <2>3, <2>4, Leaves
<1>5. QED BY <1>2, <1>3, <1>4

\* Packets leave along the rows of the table, also after a wait.
THEOREM RoutesFollowed == RouterSpec => []PacketsFollowRoutes
<1>1. RouterInit => PacketsFollowRoutes BY DEF RouterInit, PacketsFollowRoutes
<1>2. ASSUME RouterIInv, RouterIInv', PacketsFollowRoutes, [RouterNext]_routerVars
      PROVE  PacketsFollowRoutes'
  <2>1. CASE RouterNext
    <3>1. DOMAIN route_table = 1 .. Len(route_table) BY <1>2, RoutesTypes DEF RouterIInv
    <3>2. ASSUME NEW p \in left'
          PROVE  \E i \in DOMAIN route_table' :
                   /\ NamesHop(route_table'[i], p.packet, p.hop, p.out)
                   /\ \A j \in 1 .. i - 1 :
                        Routing!Matches(route_table'[j], p.packet.dst)
                          => route_table'[j] \in p.news
      <4>1. route_table' = route_table /\ Follows(route_table, p.packet, p.hop, p.out, p.news)
        BY <1>2, <2>1, LeftStep
      <4>2. QED BY <3>1, <4>1 DEF Follows
    <3>3. QED BY <3>2 DEF PacketsFollowRoutes
  <2>2. CASE UNCHANGED routerVars
    <3>1. left' = left /\ route_table' = route_table BY <2>2 DEF routerVars, routes
    <3>2. QED BY <1>2, <3>1 DEF PacketsFollowRoutes
  <2>3. QED BY <1>2, <2>1, <2>2
<1>3. QED BY <1>1, <1>2, RouterInvariance, PTL DEF RouterSpec

\* No packet goes to a station that only another hop's entry was for.
THEOREM StationsAddressed == RouterSpec => []PacketsAddressed
<1>1. RouterInit => PacketsAddressed BY DEF RouterInit, PacketsAddressed
<1>2. ASSUME RouterIInv, PacketsAddressed, [RouterNext]_routerVars
      PROVE  PacketsAddressed'
  <2>1. CASE RouterNext
    <3>1. ASSUME NEW p \in left'
          PROVE  \/ p.mac \in {Broadcast, ZeroMAC}
                 \/ p.mac \in StationsOf(p.hop)
                 \/ \E i \in DOMAIN proxyTable' :
                      proxyTable'[i].ip = p.hop /\ proxyTable'[i].mac = p.mac
      <4>1. proxyTable' = proxyTable /\ Destination(p.mac, p.hop) BY <1>2, <2>1, LeftStep
      <4>2. QED BY <4>1 DEF Destination
    <3>2. QED BY <3>1 DEF PacketsAddressed
  <2>2. CASE UNCHANGED routerVars
    <3>1. left' = left /\ proxyTable' = proxyTable BY <2>2 DEF routerVars, vars
    <3>2. QED BY <1>2, <3>1 DEF PacketsAddressed
  <2>3. QED BY <1>2, <2>1, <2>2
<1>3. QED BY <1>1, <1>2, RouterInvariance, PTL DEF RouterSpec

\* In the whole program, too, a packet that waits finds its entry unless the user
\* removed it or a disturbed Send of the dialog wrote over it, and the cache is a
\* Resolver whatever the routes ask it.
THEOREM RouterWaiters == RouterSpec => []WaiterKeepsEntry
<1>1. RouterIInv => WaiterKeepsEntry BY DEF RouterIInv, IInv
<1>2. QED BY <1>1, RouterInvariance, PTL

THEOREM RouterResolver == RouterSpec => ImplementsResolver
<1>1. RouterInit => Cache!Init BY InitResolver DEF RouterInit
<1>2. RouterIInv /\ [RouterNext]_routerVars => [Cache!Next]_answers
  BY ResolverStep, LayerSteps DEF RouterIInv
<1>3. QED BY <1>1, <1>2, RouterInvariance, PTL DEF RouterSpec, ImplementsResolver, Cache!Spec, answers
=============================================================================
