-------------------------------- MODULE Router --------------------------------
(***************************************************************************)
(* ARPLayer and RoutingTable as one program: a packet that arrives is      *)
(* taken along the rows of the table by the thread that read it, and then  *)
(* by the same thread to the hop that the row names, which RSend looks up, *)
(* or asks for and waits for, while the user adds routes and the cache     *)
(* changes.  The sets Hop and Announcement of ARPLayer are not assumed     *)
(* here to go together: a hop comes from a route and a packet.             *)
(* The Delete button of the routes only changes the list of the dialog,    *)
(* which nothing here reads, and is left to RoutingTable.                  *)
(***************************************************************************)
EXTENDS ARPLayer

CONSTANTS
  Base, AddrSize, IPMaxSize,  \* see RoutingTable
  Route,                      \* the rows a user may enter
  Packet,                     \* the IP packets that may arrive
  MaxRoutes                   \* bound on Len(route_table)

VARIABLES
  route_table, list, ttl, walk,  \* see RoutingTable
  calls,                         \* the arguments of the last step's call of RSend
  cargo,                         \* the packet each thread has copied in RSend
  left                           \* the packet that left in the last step, and how

routes == <<route_table, list, ttl, walk>>
routerVars == <<vars, routes, calls, cargo, left>>

Routing == INSTANCE RoutingTable WITH sent <- calls

ASSUME RowAssumption == Routing!RoutingAssumption

ASSUME HopAssumption ==
  \A p \in Packet : p.dst \in IPAddr /\ \A row \in Route : row.gateway \in IPAddr

\* news: the routes added since the packet arrived, a history variable.
Cargo == [packet : Packet, news : SUBSET Route]
Nothing == [packet |-> Routing!NoPacket, news |-> {}]

RouterInit ==
  /\ Init
  /\ Routing!Init
  /\ cargo = [s \in Slot |-> Nothing]
  /\ left = {}

-----------------------------------------------------------------------------
Unrouted == calls' = {} /\ UNCHANGED routes

Silent == left' = {} /\ Quiet

\* What has nothing to do with routes.
Other ==
  /\ \/ Dialog
     \/ Tick
     \/ \E s \in Slot :
          /\ walk[s].pc = "read"
          /\ \/ ReadTimeout(s)
             \/ ReceiveIgnored(s)
             \/ \E sender \in Announcement, target \in Target : ReceiveRequest(s, sender, target)
             \/ \E sender \in Announcement : ReceiveReply(s, sender)
  /\ Unrouted
  /\ left' = {}
  /\ UNCHANGED cargo

\* A route is added; packets on their way have missed it.
AddRoute(rt) ==
  /\ Routing!OnBnClickedOk(rt)
  /\ cargo' = [s \in Slot |-> IF rx[s].pc \in {"ask", "wait"}
                              THEN [cargo[s] EXCEPT !.news = @ \cup {rt}] ELSE cargo[s]]
  /\ Silent
  /\ UNCHANGED <<arpTable, proxyTable, arpList, lost, fields, myaddr, selected, sending, enetType, rx>>

\* Mutant: the thread tests canRead before the packet has been routed.
ArriveResumed(s, packet) ==
  /\ rx[s].pc = "read"
  /\ Routing!Receive(s, packet)
  /\ rx' = Resume(s)
  /\ Silent
  /\ UNCHANGED <<arpTable, proxyTable, arpList, lost, fields, myaddr, selected, sending, enetType, cargo>>

\* A packet arrives at a thread that reads; with no routes that is all.
Arrive(s, packet) ==
  /\ rx[s].pc = "read"
  /\ Routing!Receive(s, packet)
  /\ rx' = IF route_table = << >> THEN Resume(s) ELSE rx
  /\ Silent
  /\ UNCHANGED <<arpTable, proxyTable, arpList, lost, fields, myaddr, selected, sending, enetType, cargo>>

NextRow(s) ==
  /\ Routing!NextRow(s)
  /\ Silent
  /\ UNCHANGED <<arpTable, proxyTable, arpList, lost, fields, myaddr, selected, sending, enetType, rx, cargo>>

\* A row that is down matches first, or none does.
GiveUp(s) ==
  /\ Routing!RouteDropped(s) \/ Routing!NoRoute(s)
  /\ rx' = Resume(s)
  /\ Silent
  /\ UNCHANGED <<arpTable, proxyTable, arpList, lost, fields, myaddr, selected, sending, enetType, cargo>>

Leaving(c, hop, out) ==
  {[packet |-> c.packet, news |-> c.news, hop |-> hop, out |-> out, mac |-> frame.dst] :
     frame \in {f \in sent' : f.body.op = "ip"}}

\* A row that is up matches first, and hands the packet to RSend.
Forward(s) ==
  /\ Routing!RouteHost(s) \/ Routing!RouteGateway(s)
  /\ \E call \in calls' :
       LET c == [packet |-> call.packet, news |-> walk[s].news] IN
       /\ \/ ForwardByProxy(s, call.hop, call.interface)
          \/ ForwardCached(s, call.hop, call.interface)
          \/ ForwardMiss(s, call.hop, call.interface)
       /\ cargo' = [cargo EXCEPT ![s] = IF rx'[s].pc = "ask" THEN c ELSE Nothing]
       /\ left' = Leaving(c, call.hop, call.interface)

\* RSend sends its request and begins to wait.
Ask(s) ==
  /\ ForwardAsk(s)
  /\ left' = {}
  /\ Unrouted
  /\ UNCHANGED cargo

\* Mutant: index keeps the 0 it was initialised with.
WaitedFirstEntry(s) ==
  /\ rx[s].pc = "wait"
  /\ Cached(rx[s].hop)
  /\ Transmit(rx[s].out, arpTable[1].mac, rx[s].hop)
  /\ rx' = Resume(s)
  /\ UNCHANGED <<arpTable, proxyTable, arpList, lost, fields, myaddr, selected, sending>>
  /\ cargo' = [cargo EXCEPT ![s] = Nothing]
  /\ left' = Leaving(cargo[s], rx[s].hop, rx[s].out)
  /\ Unrouted

\* The second half of RSend, after Wait.
Waited(s) ==
  /\ ForwardWaited(s) \/ ForwardDropped(s)
  /\ cargo' = [cargo EXCEPT ![s] = Nothing]
  /\ left' = Leaving(cargo[s], rx[s].hop, rx[s].out)
  /\ Unrouted

RouterNext ==
  \/ Other
  \/ \E rt \in Route : AddRoute(rt)
  \/ \E s \in Slot :
       \/ \E packet \in Packet : Arrive(s, packet)
       \/ NextRow(s) \/ GiveUp(s) \/ Forward(s) \/ Ask(s) \/ Waited(s)

RouterSpec == RouterInit /\ [][RouterNext]_routerVars

-----------------------------------------------------------------------------
(* Correctness. *)

\* The types of both parts.  A thread that walks along the table reads no frame
\* and waits for no address.
RouterTypeOK ==
  /\ TypeOK
  /\ Routing!TypeOK
  /\ \A s \in Slot : /\ walk[s].pc = "walk" => rx[s].pc = "read"
                     /\ rx[s].pc \in {"ask", "wait"} => cargo[s] \in Cargo

NamesHop(row, packet, hop, out) ==
  /\ Routing!Matches(row, packet.dst)
  /\ "UP" \in row.flag
  /\ out = row.interface
  /\ hop = IF "HOST" \in row.flag THEN packet.dst ELSE row.gateway

\* A packet leaves for the hop and on the interface that some row of the table
\* names for it, and no row in front of that one matches it except those added
\* since it arrived, also when it has waited for its hop's address in between.
PacketsFollowRoutes ==
  \A p \in left :
    \E i \in DOMAIN route_table :
      /\ NamesHop(route_table[i], p.packet, p.hop, p.out)
      /\ \A j \in 1 .. i - 1 :
           Routing!Matches(route_table[j], p.packet.dst) => route_table[j] \in p.news

\* The frame goes to a station whose messages could be taken for the hop's, to
\* the device of a proxy row of the hop, or to one of the addresses that questions
\* are made with, but to no station that another hop's entry was for, however the
\* table was changed during the wait.
PacketsAddressed ==
  \A p \in left :
    \/ p.mac \in {Broadcast, ZeroMAC}
    \/ p.mac \in StationsOf(p.hop)
    \/ \E i \in DOMAIN proxyTable : proxyTable[i].ip = p.hop /\ proxyTable[i].mac = p.mac
=============================================================================
