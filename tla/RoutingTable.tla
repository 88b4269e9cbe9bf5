----------------------------- MODULE RoutingTable -----------------------------
(***************************************************************************)
(* The static routing table of CIPLayer: the dialogs that change it, and   *)
(* Routing, which walks it on a receive thread to find the hop of a packet *)
(* that is not for us.  The walk looks at one row per step, since the user *)
(* may add a route at any time and nothing locks the list.                 *)
(***************************************************************************)
EXTENDS Integers, Sequences, SequencesExt, FiniteSets

CONSTANTS
  Base,        \* 256: the values of a byte are 0 .. Base - 1
  AddrSize,    \* IP_ADDR_SIZE
  IPMaxSize,   \* IP_MAX_SIZE
  Route,       \* the rows a user may enter
  Packet,      \* the IP packets that may arrive
  Slot,        \* receive threads
  SlotIface,   \* SlotIface[s]: the interface thread s reads from
  MaxRoutes    \* bound on Len(route_table)

Byte == 0 .. Base - 1
Address == [1 .. AddrSize -> Byte]
Flag == {"UP", "HOST", "GATEWAY"}
Iface == {"INNER", "OUTER"}

\* struct _ROUTING_TABLE_NODE
Node == [destination_ip : Address, netmask : Address, gateway : Address,
         flag : SUBSET Flag, interface : Iface]

\* The fields of struct _IP_HEADER that routing reads; tlength is the number
\* the sender wrote.
Datagram == [dst : Address, ttl : Byte, tlength : 0 .. Base * Base - 1]

ASSUME RoutingAssumption ==
  /\ Base \in Nat \ {0}
  /\ AddrSize \in Nat
  /\ IPMaxSize \in Nat
  /\ MaxRoutes \in Nat
  /\ Route \subseteq Node
  /\ Packet \subseteq Datagram
  /\ SlotIface \in [Slot -> Iface]

VARIABLES
  route_table,  \* CIPLayer::route_table
  list,         \* the rows of the dialog's m_ListStaticRoutingTable
  ttl,          \* m_sHeader[f].ttl: the layer's own copy, for each interface
  walk,         \* where each receive thread is in Routing
  sent          \* the arguments of the last step's call of RSend

vars == <<route_table, list, ttl, walk, sent>>

\* A walk is at a row it has not looked at yet.  news: the routes added since
\* the walk began.
Walk == [pc : {"read", "walk"}, packet : Datagram, at : Nat, news : SUBSET Route]

NoPacket == [dst |-> [i \in 1 .. AddrSize |-> 0], ttl |-> 0, tlength |-> 0]

Reading == [pc |-> "read", packet |-> NoPacket, at |-> 0, news |-> {}]

Init ==
  /\ route_table = << >>
  /\ list = << >>
  /\ ttl = [f \in Iface |-> 0]
  /\ walk = [s \in Slot |-> Reading]
  /\ sent = {}

-----------------------------------------------------------------------------
(* Bytes and addresses. *)

\* Bitwise and of two bytes.
BitAnd[a \in Nat, b \in Nat] ==
  IF a = 0 \/ b = 0
  THEN 0
  ELSE 2 * BitAnd[a \div 2, b \div 2] + (a % 2) * (b % 2)

Masked(ip, netmask) == [i \in 1 .. AddrSize |-> BitAnd[ip[i], netmask[i]]]

\* A destination with bits outside of its mask matches nothing.
Matches(row, ip) == Masked(ip, row.netmask) = row.destination_ip

\* tlength is read as the machine's own, little-endian, number.
Swapped(n) == (n % Base) * Base + n \div Base

\* No byte of a is less than the byte of b at its place.
LongestPrefix(a, b) == \A i \in 1 .. AddrSize : a[i] >= b[i]

\* Mutant: the arguments of the comparison are exchanged.
AddPointSwapped(table, gateway) ==
  LET stop == SelectInSeq(table, LAMBDA row : ~LongestPrefix(gateway, row.gateway))
  IN  IF stop = 0 THEN Len(table) + 1 ELSE stop

\* Mutant: rows with the same gateway stop the search, too.
AddPointBeforeEquals(table, gateway) ==
  LET stop == SelectInSeq(table, LAMBDA row : \/ row.gateway = gateway
                                              \/ ~LongestPrefix(row.gateway, gateway))
  IN  IF stop = 0 THEN Len(table) + 1 ELSE stop

\* The index before which a row with this gateway is inserted.
AddPoint(table, gateway) ==
  LET stop == SelectInSeq(table, LAMBDA row : ~LongestPrefix(row.gateway, gateway))
  IN  IF stop = 0 THEN Len(table) + 1 ELSE stop

\* Mutant: the row at the place found is overwritten.
AddRouteTableOverwriting(table, rt) ==
  LET point == AddPoint(table, rt.gateway)
  IN  SubSeq(table, 1, point - 1) \o <<rt>> \o SubSeq(table, point + 1, Len(table))

AddRouteTable(table, rt) == InsertAt(table, AddPoint(table, rt.gateway), rt)

-----------------------------------------------------------------------------
(* The user. *)

\* The OK button of CRoutingTableEntry.  A walk keeps its place in the linked
\* list: it moves up when the new row is inserted before it.
OnBnClickedOk(rt) ==
  /\ Len(route_table) < MaxRoutes
  /\ list' = Append(list, rt)
  /\ route_table' = AddRouteTable(route_table, rt)
  /\ walk' = [s \in Slot |->
       IF walk[s].pc = "walk"
       THEN [walk[s] EXCEPT
               !.at = IF AddPoint(route_table, rt.gateway) <= @ THEN @ + 1 ELSE @,
               !.news = @ \cup {rt}]
       ELSE walk[s]]
  /\ sent' = {}
  /\ UNCHANGED ttl

\* The Delete button removes the row from the dialog's list.
OnBnClickedButtonDelRoutingTableEntry(i) ==
  /\ list' = RemoveAt(list, i)
  /\ sent' = {}
  /\ UNCHANGED <<route_table, ttl, walk>>

-----------------------------------------------------------------------------
(* The receive threads. *)

\* SetHeaderFields decrements the layer's own copy of the time to live, and
\* Routing begins at the first row.
Receive(s, packet) ==
  /\ walk[s].pc = "read"
  /\ ttl' = [ttl EXCEPT ![SlotIface[s]] = (packet.ttl + Base - 1) % Base]
  /\ walk' = IF route_table = << >>
             THEN walk
             ELSE [walk EXCEPT ![s] = [pc |-> "walk", packet |-> packet,
                                       at |-> 1, news |-> {}]]
  /\ sent' = {}
  /\ UNCHANGED <<route_table, list>>

Row(s) == route_table[walk[s].at]

Hit(s) == walk[s].pc = "walk" /\ Matches(Row(s), walk[s].packet.dst)

Done(s) == walk' = [walk EXCEPT ![s] = Reading]

\* RSend gets the packet as it arrived, and copies at most IPMaxSize bytes.
RSend(packet, hop, interface) ==
  LET nlength == Swapped(packet.tlength)
  IN  sent' = {[packet |-> packet, ttl |-> packet.ttl, hop |-> hop,
                nlength |-> IF nlength > IPMaxSize THEN IPMaxSize ELSE nlength,
                interface |-> interface]}

RouteHost(s) ==
  /\ Hit(s)
  /\ {"UP", "HOST"} \subseteq Row(s).flag
  /\ RSend(walk[s].packet, walk[s].packet.dst, Row(s).interface)
  /\ Done(s)
  /\ UNCHANGED <<route_table, list, ttl>>

RouteGateway(s) ==
  /\ Hit(s)
  /\ {"UP", "GATEWAY"} \subseteq Row(s).flag
  /\ "HOST" \notin Row(s).flag
  /\ RSend(walk[s].packet, Row(s).gateway, Row(s).interface)
  /\ Done(s)
  /\ UNCHANGED <<route_table, list, ttl>>

\* The first row that matches ends the walk, up or not.
RouteDropped(s) ==
  /\ Hit(s)
  /\ "UP" \notin Row(s).flag \/ Row(s).flag \cap {"HOST", "GATEWAY"} = {}
  /\ Done(s)
  /\ sent' = {}
  /\ UNCHANGED <<route_table, list, ttl>>

\* Mutant: a row that is down is passed over.
NextRowSkippingDown(s) ==
  /\ walk[s].pc = "walk"
  /\ ~Hit(s) \/ "UP" \notin Row(s).flag
  /\ walk[s].at < Len(route_table)
  /\ walk' = [walk EXCEPT ![s].at = @ + 1]
  /\ sent' = {}
  /\ UNCHANGED <<route_table, list, ttl>>

\* Mutant: a row that matches does not end the walk.
NextRowPastHit(s) ==
  /\ walk[s].pc = "walk"
  /\ walk[s].at < Len(route_table)
  /\ walk' = [walk EXCEPT ![s].at = @ + 1]
  /\ sent' = {}
  /\ UNCHANGED <<route_table, list, ttl>>

\* Mutant: the walk does not compare with end().
NextRowPastEnd(s) ==
  /\ walk[s].pc = "walk"
  /\ ~Hit(s)
  /\ walk' = [walk EXCEPT ![s].at = @ + 1]
  /\ sent' = {}
  /\ UNCHANGED <<route_table, list, ttl>>

NextRow(s) ==
  /\ walk[s].pc = "walk"
  /\ ~Hit(s)
  /\ walk[s].at < Len(route_table)
  /\ walk' = [walk EXCEPT ![s].at = @ + 1]
  /\ sent' = {}
  /\ UNCHANGED <<route_table, list, ttl>>

NoRoute(s) ==
  /\ walk[s].pc = "walk"
  /\ ~Hit(s)
  /\ walk[s].at = Len(route_table)
  /\ Done(s)
  /\ sent' = {}
  /\ UNCHANGED <<route_table, list, ttl>>

Routing(s) == RouteHost(s) \/ RouteGateway(s) \/ RouteDropped(s) \/ NextRow(s) \/ NoRoute(s)

Next ==
  \/ \E rt \in Route : OnBnClickedOk(rt)
  \/ \E i \in DOMAIN list : OnBnClickedButtonDelRoutingTableEntry(i)
  \/ \E s \in Slot :
        \/ \E packet \in Packet : Receive(s, packet)
        \/ Routing(s)

Spec == Init /\ [][Next]_vars

-----------------------------------------------------------------------------
(* Correctness. *)

\* Every variable has its type, a walk is at a row of the table, and the routes
\* it has heard of are rows.
TypeOK ==
  /\ route_table \in Seq(Route)
  /\ Len(route_table) <= MaxRoutes
  /\ list \in Seq(Route)
  /\ ttl \in [Iface -> Byte]
  /\ walk \in [Slot -> Walk]
  /\ \A s \in Slot : walk[s].pc = "walk" =>
       walk[s].packet \in Packet /\ walk[s].at \in DOMAIN route_table

Decision(table, ip) == SelectInSeq(table, LAMBDA row : Matches(row, ip))

\* However routes are added around it, a walk leaves no row behind that its
\* packet matches, except rows that were added after the walk began: no packet
\* is routed by a row that an older one shadows.
NoRouteSkipped ==
  \A s \in Slot : walk[s].pc = "walk" =>
    \A i \in 1 .. walk[s].at - 1 :
      Matches(route_table[i], walk[s].packet.dst) => route_table[i] \in walk[s].news

\* Every route the dialog shows is one that packets are routed by.
ListedInstalled == ToSet(list) \subseteq ToSet(route_table)

Ordered(table) ==
  \A i, j \in DOMAIN table :
    i < j => LongestPrefix(table[i].gateway, table[j].gateway)

Comparable(table) ==
  \A i, j \in DOMAIN table :
    \/ LongestPrefix(table[i].gateway, table[j].gateway)
    \/ LongestPrefix(table[j].gateway, table[i].gateway)

\* LongestPrefix is a partial order only.  If any two gateways of the table can
\* be compared, the larger one comes first, in whatever order routes were added.
OrderedWhenComparable == Comparable(route_table) => Ordered(route_table)

\* A new route changes nothing for the destinations it does not match.
OthersKeepRoute ==
  [][\A rt \in Route, packet \in Packet :
       OnBnClickedOk(rt) /\ ~Matches(rt, packet.dst) =>
         LET before == Decision(route_table, packet.dst)
             after  == Decision(route_table', packet.dst)
         IN  IF before = 0 THEN after = 0
             ELSE after # 0 /\ route_table'[after] = route_table[before]]_vars

\* Among comparable gateways, a new route takes no destination from a route
\* whose gateway is not less than its own: of equals, the older one decides.
OlderEqualDecides ==
  [][\A rt \in Route, packet \in Packet :
       LET before == Decision(route_table, packet.dst)
           after  == Decision(route_table', packet.dst)
       IN  /\ OnBnClickedOk(rt) /\ Comparable(route_table')
           /\ before # 0
           /\ LongestPrefix(route_table[before].gateway, rt.gateway)
           => after # 0 /\ route_table'[after] = route_table[before]]_vars
=============================================================================
