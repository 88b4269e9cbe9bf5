------------------------------ MODULE ARPThreads ------------------------------
(***************************************************************************)
(* The handlers that ARPLayer takes for one step each, split where they    *)
(* read or write what all threads share: the vector of entries, is_Garp,   *)
(* the headers of the IP, ARP and Ethernet layers and the receive buffer   *)
(* of each interface.  Nothing locks any of it.  One process is the UI     *)
(* thread, which asks, announces and deletes; the others are receive       *)
(* threads, several of which serve one interface after a quick ReSelect.   *)
(*                                                                         *)
(* A step is what a handler does to one shared object in a row: the fields *)
(* of a header are written at once, a call of a vector's method is whole.  *)
(* Ages, statuses and proxies are left to ARPLayer.                        *)
(***************************************************************************)
EXTENDS Integers, Sequences, FiniteSets, SequencesExt

CONSTANTS
  UI,          \* the process of the dialog
  Slot,        \* the receive threads
  SlotIface,   \* SlotIface[s]: the interface thread s reads from
  MyIP,        \* MyIP[f]: our address on interface f
  Broadcast,   \* FF:FF:FF:FF:FF:FF
  ZeroMAC,     \* 00:00:00:00:00:00
  PeerMAC,     \* PeerMAC[a]: the station that has address a
  FirstFour,   \* FirstFour[m]: the first four bytes of m read as an address
  Asked,       \* addresses the user asks for
  Arriving,    \* the frames that peers send
  Hop,         \* Hop[a]: where packets for a are sent: a itself, or a gateway
  Out,         \* Out[a]: on which interface
  Unknown,     \* stands for an address read out of a frame of another type
  UnknownMAC,  \* and for a hardware address read there, whatever bytes it has
  MaxFrames,   \* bound on the frames delivered
  MaxClicks,   \* bound on the user's clicks
  MaxEvents,   \* bound on both together
  MaxEntries   \* bound on Len(table)

INNER == "INNER"
OUTER == "OUTER"
Iface == {INNER, OUTER}
Process == {UI} \cup Slot

Peer == DOMAIN PeerMAC
IPAddr == Peer \cup {MyIP[f] : f \in Iface} \cup {Unknown}
HostMAC == {PeerMAC[a] : a \in Peer}
MAC == HostMAC \cup {Broadcast, ZeroMAC, UnknownMAC}

\* The data of a frame.  mac is the address of the other end: the sender's in
\* an arriving message, the target's in one of ours.  An "unknown" message is one
\* of ARP whose opcode Receive has no case for.
Body == [op : {"none", "request", "reply", "unknown", "ip"}, src : IPAddr, dst : IPAddr, mac : MAC]

ASSUME ThreadAssumption ==
  /\ UI \notin Slot
  /\ SlotIface \in [Slot -> Iface]
  /\ Broadcast # ZeroMAC /\ UnknownMAC # ZeroMAC
  /\ {Broadcast, ZeroMAC, UnknownMAC} \cap HostMAC = {}
  /\ FirstFour \in [HostMAC -> IPAddr]
  /\ Asked \subseteq Peer
  /\ Arriving \subseteq Body
  /\ \A a \in Arriving : /\ a.op # "none"
                         /\ a.src \in Peer /\ a.mac = PeerMAC[a.src]
                         /\ a.op = "ip" => a.dst \in Peer
  /\ Hop \in [Peer -> Peer] /\ Out \in [Peer -> Iface]
  /\ {MaxFrames, MaxClicks, MaxEvents, MaxEntries} \subseteq Nat

VARIABLES
  table,      \* m_arpTable
  is_Garp,    \* the byte of the broadcast address is 255 * is_Garp
  ipHeader,   \* src and dst of CIPLayer::m_sHeader, for each interface
  arpHeader,  \* CARPLayer::m_sHeader
  frame,      \* CEthernetLayer::m_sHeader
  data,       \* CNILayer::data
  at,         \* the processes
  frames,     \* frames delivered so far
  clicks      \* clicks so far

vars == <<table, is_Garp, ipHeader, arpHeader, frame, data, at, frames, clicks>>

headers == <<ipHeader, arpHeader, frame>>

\* by: why the entry was made; meant: the address its maker had in mind; hit:
\* whether another thread had changed the addresses the maker was working with;
\* stray: whether it, or an entry whose place it took, was heard or was made by a
\* Send that had been disturbed.
Node == [ip : IPAddr, mac : MAC, by : {"user", "hop", "announcement", "heard"},
         meant : IPAddr, hit : BOOLEAN, stray : BOOLEAN]

\* What a process can find changed under its hands; "miss": there are entries
\* behind the last one that its search has seen.
Shared == {"buffer", "ip", "arp", "frame", "table", "miss"}

\* ip is the address a handler is about, node the address of Send's newNode,
\* index what inCache returned, body what was copied from the buffer.
Local == [pc : {"idle", "set", "fill", "search", "store", "dest", "message", "data",
                "pcap", "reset", "header", "lookup", "again", "learn", "update", "turn", "thrown"},
          job : {"none", "user", "announcement", "packet", "hop", "forward", "heard"},
          out : Iface, ip : IPAddr, node : IPAddr, mac : MAC,
          index : 0 .. MaxEntries, body : Body, hit : SUBSET Shared]

NoBody == [op |-> "none", src |-> Unknown, dst |-> Unknown, mac |-> UnknownMAC]

Idle == [pc |-> "idle", job |-> "none", out |-> INNER, ip |-> Unknown, node |-> Unknown,
         mac |-> ZeroMAC, index |-> 0, body |-> NoBody, hit |-> {}]

Init ==
  /\ table = << >>
  /\ is_Garp = TRUE
  /\ ipHeader = [f \in Iface |-> [src |-> Unknown, dst |-> Unknown]]
  /\ arpHeader = [f \in Iface |-> NoBody]
  /\ frame = [f \in Iface |-> [dst |-> ZeroMAC, type |-> "none", body |-> NoBody]]
  /\ data = [f \in Iface |-> NoBody]
  /\ at = [p \in Process |-> Idle]
  /\ frames = 0
  /\ clicks = 0

inCache(ip) == SelectInSeq(table, LAMBDA node : node.ip = ip)

-----------------------------------------------------------------------------
(* Who disturbs whom. *)

In(p) == IF p = UI THEN INNER ELSE SlotIface[p]

\* The interfaces a click has still to send on: Send asks on INNER, then on OUTER.
Ahead(p) == IF at[p].job = "user" /\ at[p].out = INNER THEN Iface ELSE {at[p].out}

\* Whether p has written this object of interface f, or decided by it, and will
\* read it again.
Uses(p, object, f) ==
  LET L == at[p] IN
  CASE object = "buffer" -> L.job \in {"packet", "hop", "heard"} /\ f = In(p)
    [] object = "ip" -> /\ L.job \in {"user", "announcement"}
                        /\ L.pc \notin {"set", "reset"} /\ f \in Ahead(p)
    [] object = "arp" -> /\ L.pc = "data" /\ f = L.out
                         /\ L.job \in {"user", "announcement", "hop"}
    [] object = "frame" -> /\ L.pc \in {"message", "data", "pcap"} /\ f = L.out
    [] object = "table" -> \/ L.pc = "store" /\ L.index # 0
                           \/ L.pc = "update"
                           \/ L.pc = "dest" /\ L.job = "forward"
    [] object = "miss" -> L.pc = "store" /\ L.index = 0

\* p goes on as L; the others note what it has changed under their hands.
Step(p, L, object, fs) ==
  at' = [q \in Process |->
           IF q = p THEN L
           ELSE IF \E f \in fs : Uses(q, object, f)
                THEN [at[q] EXCEPT !.hit = @ \cup {object}]
                ELSE at[q]]

Alone(p, L) == Step(p, L, "frame", {})

Goto(p, pc) == [at[p] EXCEPT !.pc = pc]

-----------------------------------------------------------------------------
(* The user. *)

Click(L, object, fs) ==
  /\ at[UI].pc = "idle"
  /\ clicks < MaxClicks /\ clicks + frames < MaxEvents
  /\ clicks' = clicks + 1
  /\ Step(UI, L, object, fs)

OnBnClickedButtonSendArp(dst) ==
  /\ Click([Idle EXCEPT !.pc = "set", !.job = "user", !.ip = dst], "frame", {})
  /\ UNCHANGED <<table, is_Garp, headers, data, frames>>

\* Select, while threads are running, ends in the announcement of OUTER and
\* then of INNER.
OnBnClickedButtonGArpSend ==
  /\ Click([Idle EXCEPT !.pc = "set", !.job = "announcement",
                            !.ip = MyIP[OUTER], !.out = OUTER], "frame", {})
  /\ is_Garp' = FALSE
  /\ UNCHANGED <<table, headers, data, frames>>

\* The first entry of the row's address goes; the others move up.
OnBnClickedButtonItemDel(ip) ==
  /\ inCache(ip) # 0
  /\ Click(Idle, "table", Iface)
  /\ table' = RemoveAt(table, inCache(ip))
  /\ UNCHANGED <<is_Garp, headers, data, frames>>

\* Send sets the source and the destination of both interfaces, an announcement
\* those of one.
SetHeaders ==
  /\ at[UI].pc = "set"
  /\ ipHeader' = [f \in Iface |-> IF f \in Ahead(UI)
                                  THEN [src |-> MyIP[f], dst |-> at[UI].ip]
                                  ELSE ipHeader[f]]
  /\ Step(UI, Goto(UI, "fill"), "ip", Ahead(UI))
  /\ UNCHANGED <<table, is_Garp, arpHeader, frame, data, frames, clicks>>

\* isGARP(FALSE)
ResetGarp ==
  /\ at[UI].pc = "reset"
  /\ is_Garp' = TRUE
  /\ Alone(UI, Idle)
  /\ UNCHANGED <<table, headers, data, frames, clicks>>

-----------------------------------------------------------------------------
(* CARPLayer::Send, for the dialog and for a receive thread whose hop is not   *)
(* in the table.                                                               *)

\* The live header of the IP layer, or the local one RSend has filled in.
Asking(p) == IF p = UI
             THEN ipHeader[at[p].out]
             ELSE [src |-> MyIP[at[p].out], dst |-> at[p].node]

\* The buffer of a thread's interface read as a packet and as a message.
Packet(s) == IF data[In(s)].op = "ip" THEN data[In(s)] ELSE NoBody
Message(s) == IF data[In(s)].op = "ip" THEN NoBody ELSE data[In(s)]

\* The address of a packet is read where it lies in the receive buffer, that of
\* a gateway was copied with its route.
NextHop(s) ==
  IF Hop[at[s].ip] # at[s].ip THEN Hop[at[s].ip]
  ELSE Packet(s).dst

Fill(p) ==
  /\ at[p].pc = "fill"
  /\ Alone(p, [at[p] EXCEPT
       !.pc = "search",
       !.mac = IF is_Garp THEN Broadcast ELSE ZeroMAC,
       !.node = IF p = UI THEN ipHeader[at[p].out].dst ELSE NextHop(p)])
  /\ UNCHANGED <<table, is_Garp, headers, data, frames, clicks>>

\* Mutant: the equal addresses of an announcement are not noticed.
SearchAlways(p) ==
  /\ at[p].pc = "search"
  /\ Alone(p, [at[p] EXCEPT !.pc = "store", !.index = inCache(Asking(p).dst)])
  /\ UNCHANGED <<table, is_Garp, headers, data, frames, clicks>>

\* An announcement is recognised by its equal addresses, and left out.
Search(p) ==
  /\ at[p].pc = "search"
  /\ Alone(p, IF Asking(p).src = Asking(p).dst THEN Goto(p, "dest")
              ELSE [at[p] EXCEPT !.pc = "store", !.index = inCache(Asking(p).dst)])
  /\ UNCHANGED <<table, is_Garp, headers, data, frames, clicks>>

\* The entry that Send makes.
NewNode(p) ==
  LET L == at[p] IN
  [ip |-> L.node, mac |-> L.mac, by |-> L.job,
   meant |-> IF L.job = "hop" THEN Hop[L.ip] ELSE L.ip,
   hit |-> L.hit \cap {"ip", "buffer"} # {},
   stray |-> \/ L.hit \cap {"ip", "buffer", "table", "miss"} # {}
             \/ L.index \in DOMAIN table /\ table[L.index].stray]

\* Another thread may be about to append for the same address, or to use an entry
\* that is now another address's.
Stored(p) ==
  LET L == at[p] IN
  /\ Len(table') <= MaxEntries
  /\ Step(p, [L EXCEPT !.pc = "dest", !.index = 0],
          IF L.index = 0 THEN "miss" ELSE "table",
          {f \in Iface : \/ L.index = 0
                         \/ L.index \in DOMAIN table /\ table[L.index].ip # L.node})
  /\ UNCHANGED <<is_Garp, headers, data, frames, clicks>>

\* Mutant: a new entry is put in front of the others.
StoreInFront(p) ==
  LET index == at[p].index IN
  /\ at[p].pc = "store"
  /\ at[p].job # "heard"
  /\ table' = IF index = 0 THEN <<NewNode(p)>> \o table
              ELSE IF index \in DOMAIN table THEN ReplaceAt(table, index, NewNode(p))
              ELSE table
  /\ Stored(p)

\* Mutant: Send appends, whatever it has found.
StoreBehind(p) ==
  /\ at[p].pc = "store"
  /\ at[p].job # "heard"
  /\ table' = Append(table, NewNode(p))
  /\ Stored(p)

\* An assignment behind the last entry changes none.
Store(p) ==
  LET index == at[p].index IN
  /\ at[p].pc = "store"
  /\ at[p].job # "heard"
  /\ table' = IF index = 0 THEN Append(table, NewNode(p))
              ELSE IF index \in DOMAIN table THEN ReplaceAt(table, index, NewNode(p))
              ELSE table
  /\ Stored(p)

SetRequest(p) ==
  /\ at[p].pc = "message"
  /\ arpHeader' = [arpHeader EXCEPT ![at[p].out] =
       [op |-> "request", src |-> Asking(p).src, dst |-> Asking(p).dst, mac |-> at[p].mac]]
  /\ Step(p, Goto(p, "data"), "arp", {at[p].out})
  /\ UNCHANGED <<table, is_Garp, ipHeader, frame, data, frames, clicks>>

-----------------------------------------------------------------------------
(* CEthernetLayer, for every sender. *)

\* What the sender takes for the destination; behind the last entry it can read
\* anything.
Destination(p) ==
  LET L == at[p] IN
  CASE L.job \in {"user", "announcement", "hop"} -> {L.mac}
    [] L.job = "forward" -> IF L.index \in DOMAIN table THEN {table[L.index].mac} ELSE MAC
    [] L.job = "heard" -> {Message(p).mac}

\* Mutant: only a packet sets the type.
SetDestinOnly(p) ==
  LET job == at[p].job IN
  /\ at[p].pc = "dest"
  /\ \E mac \in Destination(p) :
       /\ frame' = [frame EXCEPT ![at[p].out].dst = mac,
                                 ![at[p].out].type = IF job = "forward" THEN "IP" ELSE @]
       /\ Step(p, [at[p] EXCEPT !.pc = IF job \in {"forward", "heard"} THEN "data" ELSE "message",
                                !.mac = mac, !.index = 0],
               "frame", {at[p].out})
  /\ UNCHANGED <<table, is_Garp, ipHeader, arpHeader, data, frames, clicks>>

\* A reply leaves the type as it is.
SetDestinAndType(p) ==
  LET job == at[p].job IN
  /\ at[p].pc = "dest"
  /\ \E mac \in Destination(p) :
       /\ frame' = [frame EXCEPT ![at[p].out].dst = mac,
                                 ![at[p].out].type = CASE job = "forward" -> "IP"
                                                       [] job = "heard" -> @
                                                       [] OTHER -> "ARP"]
       /\ Step(p, [at[p] EXCEPT !.pc = IF job \in {"forward", "heard"} THEN "data" ELSE "message",
                                !.mac = mac, !.index = 0],
               "frame", {at[p].out})
  /\ UNCHANGED <<table, is_Garp, ipHeader, arpHeader, data, frames, clicks>>

CopyData(p) ==
  /\ at[p].pc = "data"
  /\ frame' = [frame EXCEPT ![at[p].out].body =
                 CASE at[p].job = "forward" -> at[p].body
                   [] at[p].job = "heard" -> data[In(p)]
                   [] OTHER -> arpHeader[at[p].out]]
  /\ Step(p, Goto(p, "pcap"), "frame", {at[p].out})
  /\ UNCHANGED <<table, is_Garp, ipHeader, arpHeader, data, frames, clicks>>

\* pcap_sendpacket takes the frame as it is now; see FrameAsMeant.
Send(p) ==
  /\ at[p].pc = "pcap"
  /\ Alone(p,
       CASE at[p].job = "user" /\ at[p].out = INNER ->
              [at[p] EXCEPT !.pc = "fill", !.out = OUTER, !.mac = ZeroMAC,
                            !.hit = @ \cap {"ip"}]
         [] at[p].job = "announcement" /\ at[p].out = OUTER ->
              [Idle EXCEPT !.pc = "set", !.job = "announcement", !.ip = MyIP[INNER]]
         [] at[p].job = "announcement" /\ at[p].out = INNER -> Goto(p, "reset")
         [] at[p].job = "hop" -> Goto(p, "again")
         [] OTHER -> Idle)
  /\ UNCHANGED <<table, is_Garp, headers, data, frames, clicks>>

-----------------------------------------------------------------------------
(* The receive threads. *)

\* Mutant: every frame is handed to the ARP layer.
DeliverToARP(s, body) ==
  /\ at[s].pc = "idle"
  /\ frames < MaxFrames /\ clicks + frames < MaxEvents
  /\ frames' = frames + 1
  /\ data' = [data EXCEPT ![In(s)] = body]
  /\ Step(s, [Idle EXCEPT !.pc = "learn", !.job = "heard", !.ip = body.src, !.out = In(s)],
          "buffer", {In(s)})
  /\ UNCHANGED <<table, is_Garp, headers, clicks>>

\* The frame is copied into the buffer of its interface and handed up.
Deliver(s, body) ==
  /\ at[s].pc = "idle"
  /\ frames < MaxFrames /\ clicks + frames < MaxEvents
  /\ frames' = frames + 1
  /\ data' = [data EXCEPT ![In(s)] = body]
  /\ Step(s, IF body.op = "ip"
             THEN [Idle EXCEPT !.pc = "header", !.job = "packet", !.ip = body.dst,
                               !.out = Out[body.dst]]
             ELSE [Idle EXCEPT !.pc = "learn", !.job = "heard", !.ip = body.src,
                               !.out = In(s)],
          "buffer", {In(s)})
  /\ UNCHANGED <<table, is_Garp, headers, clicks>>

\* CIPLayer::Receive fills in its own header from the packet.
SetHeaderFields(s) ==
  /\ at[s].pc = "header"
  /\ ipHeader' = [ipHeader EXCEPT ![In(s)] = [src |-> Packet(s).src, dst |-> Packet(s).dst]]
  /\ Step(s, Goto(s, "lookup"), "ip", {In(s)})
  /\ UNCHANGED <<table, is_Garp, arpHeader, frame, data, frames, clicks>>

\* RSend copies the packet and looks for its hop.
Lookup(s) ==
  LET index == inCache(NextHop(s)) IN
  /\ at[s].pc = "lookup"
  /\ Alone(s, [at[s] EXCEPT !.pc = IF index = 0 THEN "fill" ELSE "dest",
                            !.job = IF index = 0 THEN "hop" ELSE "forward",
                            !.index = index, !.body = data[In(s)]])
  /\ UNCHANGED <<table, is_Garp, headers, data, frames, clicks>>

\* Wait has passed.
LookAgain(s) ==
  LET index == inCache(NextHop(s)) IN
  /\ at[s].pc = "again"
  /\ Alone(s, IF index = 0 THEN Idle
              ELSE [at[s] EXCEPT !.pc = "dest", !.job = "forward", !.index = index,
                                 !.hit = @ \cap {"buffer"}])
  /\ UNCHANGED <<table, is_Garp, headers, data, frames, clicks>>

\* CARPLayer::Receive.  The opcode is read where it lies in the buffer.  A request
\* has been looked up by its sender's hardware address, a reply is by its address.
Learn(s) ==
  LET body == data[In(s)] IN
  /\ at[s].pc = "learn"
  /\ body.op # "ip"
  /\ body.src = MyIP[INNER] \/ body.op \in {"request", "reply"}
  /\ Alone(s, IF body.src = MyIP[INNER] \/ (body.op = "reply" /\ inCache(body.src) = 0)
              THEN Idle
              ELSE [at[s] EXCEPT
                      !.pc = IF body.op = "request" THEN "store" ELSE "update",
                      !.index = IF body.op = "reply" THEN inCache(body.src)
                                ELSE IF body.mac \in HostMAC THEN inCache(FirstFour[body.mac])
                                ELSE 0])
  /\ UNCHANGED <<table, is_Garp, headers, data, frames, clicks>>

\* The reply completes the entry that it was found for; behind the last entry it
\* changes none.
Update(s) ==
  LET L == at[s] IN
  /\ L.pc = "update"
  /\ table' = IF L.index \in DOMAIN table
              THEN [table EXCEPT ![L.index].mac = Message(s).mac] ELSE table
  /\ Alone(s, Idle)
  /\ UNCHANGED <<is_Garp, headers, data, frames, clicks>>

\* An unknown opcode, or what lies there of a packet, is thrown at nobody who
\* would catch it.
Throw(s) ==
  LET body == data[In(s)] IN
  /\ at[s].pc = "learn"
  /\ body.op = "ip" \/ (body.op = "unknown" /\ body.src # MyIP[INNER])
  /\ Alone(s, Goto(s, "thrown"))
  /\ UNCHANGED <<table, is_Garp, headers, data, frames, clicks>>

\* Mutant: on a match the whole entry is replaced by the sender's.
StoreHeardRenaming(s) ==
  LET L == at[s]
      node == [ip |-> Message(s).src, mac |-> Message(s).mac, by |-> "heard",
               meant |-> L.ip, hit |-> "buffer" \in L.hit, stray |-> TRUE]
  IN  /\ L.pc = "store"
      /\ L.job = "heard"
      /\ table' = IF L.index = 0 THEN Append(table, node)
                  ELSE IF L.index \in DOMAIN table THEN ReplaceAt(table, L.index, node)
                  ELSE table
      /\ Len(table') <= MaxEntries
      /\ Step(s, [L EXCEPT !.pc = "turn", !.index = 0], "miss",
              {f \in Iface : L.index = 0})
      /\ UNCHANGED <<is_Garp, headers, data, frames, clicks>>

StoreHeard(s) ==
  LET L == at[s]
      body == Message(s)
  IN  /\ L.pc = "store"
      /\ L.job = "heard"
      /\ table' = IF L.index = 0
                  THEN Append(table, [ip |-> body.src, mac |-> body.mac, by |-> "heard",
                                      meant |-> L.ip, hit |-> "buffer" \in L.hit,
                                      stray |-> TRUE])
                  ELSE IF L.index \in DOMAIN table
                  THEN [table EXCEPT ![L.index].mac = body.mac]
                  ELSE table
      /\ Len(table') <= MaxEntries
      /\ Step(s, [L EXCEPT !.pc = "turn", !.index = 0], "miss",
              {f \in Iface : L.index = 0})
      /\ UNCHANGED <<is_Garp, headers, data, frames, clicks>>

\* Mutant: the source address of the reply is read where the hardware address lies.
TurnMisread(s) ==
  LET body == Message(s) IN
  /\ at[s].pc = "turn"
  /\ IF body.dst = MyIP[INNER]
     THEN /\ data' = [data EXCEPT ![In(s)] = [op |-> "reply", src |-> body.mac,
                                              dst |-> body.src, mac |-> body.mac]]
          /\ Step(s, Goto(s, "dest"), "buffer", {In(s)})
     ELSE Alone(s, Idle) /\ UNCHANGED data
  /\ UNCHANGED <<table, is_Garp, headers, frames, clicks>>

\* A request for the inner address is turned into its reply, in place.
Turn(s) ==
  LET body == Message(s) IN
  /\ at[s].pc = "turn"
  /\ IF body.dst = MyIP[INNER]
     THEN /\ data' = [data EXCEPT ![In(s)] = [op |-> "reply", src |-> body.dst,
                                              dst |-> body.src, mac |-> body.mac]]
          /\ Step(s, Goto(s, "dest"), "buffer", {In(s)})
     ELSE Alone(s, Idle) /\ UNCHANGED data
  /\ UNCHANGED <<table, is_Garp, headers, frames, clicks>>

-----------------------------------------------------------------------------
Dialog ==
  \/ \E dst \in Asked : OnBnClickedButtonSendArp(dst)
  \/ OnBnClickedButtonGArpSend
  \/ \E ip \in IPAddr : OnBnClickedButtonItemDel(ip)
  \/ SetHeaders \/ ResetGarp

Ask(p) == Fill(p) \/ Search(p) \/ Store(p) \/ SetRequest(p)

Ethernet(p) == SetDestinAndType(p) \/ CopyData(p) \/ Send(p)

Receive(s) ==
  \/ \E body \in Arriving : Deliver(s, body)
  \/ SetHeaderFields(s) \/ Lookup(s) \/ LookAgain(s)
  \/ Learn(s) \/ Update(s) \/ Throw(s) \/ StoreHeard(s) \/ Turn(s)

Next ==
  \/ Dialog
  \/ \E p \in Process : Ask(p) \/ Ethernet(p)
  \/ \E s \in Slot : Receive(s)

Spec == Init /\ [][Next]_vars

-----------------------------------------------------------------------------
(* Correctness: what no interleaving can do, and what it takes to do the rest. *)

\* Every variable has its type, and the bounds are kept.
TypeOK ==
  /\ table \in Seq(Node) /\ Len(table) <= MaxEntries
  /\ is_Garp \in BOOLEAN
  /\ ipHeader \in [Iface -> [src : IPAddr, dst : IPAddr]]
  /\ arpHeader \in [Iface -> Body]
  /\ frame \in [Iface -> [dst : MAC, type : {"none", "ARP", "IP"}, body : Body]]
  /\ data \in [Iface -> Body]
  /\ at \in [Process -> Local]
  /\ frames \in 0 .. MaxFrames
  /\ clicks \in 0 .. MaxClicks

\* The address of the entry a process has found and is about to use.
Found(p) ==
  CASE at[p].job = "user" -> at[p].ip
    [] at[p].job = "announcement" -> Unknown
    [] at[p].job = "heard" -> IF at[p].pc = "update" THEN Message(p).src
                              ELSE FirstFour[Message(p).mac]
    [] at[p].job = "hop" -> at[p].node
    [] at[p].job = "forward" -> Hop[at[p].ip]

\* ARPLayer.cpp:192, :124 and :93: an index that inCache returned still is the entry
\* that was looked for when it is used, whatever the other threads append and
\* update; only a deletion by the user moves it (or a Send whose IP header or a
\* frame whose buffer was overwritten on the way).
IndexHolds ==
  \A p \in Process : Uses(p, "table", INNER) /\ at[p].hit \cap {"table", "ip", "buffer"} = {} =>
    at[p].index \in DOMAIN table /\ table[at[p].index].ip = Found(p)

\* An entry is for the address its maker had in mind and never comes from an
\* announcement, unless a packet overwrote the dialog's IP header during the Send
\* (IPLayer.cpp:73) or a frame the buffer; and what the user asks for is never
\* stored under the zero address of an announcement (ARPLayer.cpp:116).
StoredAsMeant ==
  \A i \in DOMAIN table :
    /\ ~table[i].hit => table[i].ip = table[i].meant /\ table[i].by # "announcement"
    /\ table[i].by = "user" => table[i].mac # ZeroMAC

\* ARPLayer.cpp:122-127: of two entries for one address, one comes from a request
\* that was heard (which is looked up by its sender's hardware address, :47) or from
\* a Send that another thread has disturbed: by a push_back between its search and
\* its own, by moving its index, or by overwriting its header or buffer.  The user
\* and packets that ask for one address one after the other share its entry.
CopiesStray ==
  \A i, j \in DOMAIN table :
    i # j /\ table[i].ip = table[j].ip => table[i].stray \/ table[j].stray

Meant(p) ==
  LET L == at[p]
      request(dst, mac) == [dst |-> mac, type |-> "ARP",
        body |-> [op |-> "request", src |-> MyIP[L.out], dst |-> dst, mac |-> mac]]
  IN  CASE L.job = "user" -> {request(L.ip, Broadcast)}
        [] L.job = "announcement" -> {request(MyIP[L.out], ZeroMAC)}
        [] L.job = "hop" -> {request(Hop[L.ip], mac) : mac \in {Broadcast, ZeroMAC}}
        [] L.job = "forward" -> [dst : MAC, type : {"IP"}, body : {b \in Arriving :
                                   b.op = "ip" /\ b.dst = L.ip}]
        [] L.job = "heard" -> [dst : {PeerMAC[L.ip]}, type : {"none", "ARP", "IP"},
             body : {[op |-> "reply", src |-> MyIP[INNER], dst |-> L.ip,
                      mac |-> PeerMAC[L.ip]]}]

\* EthernetLayer.cpp:59: a frame leaves torn, with another's destination, type,
\* addresses or data, only if some other thread wrote the header of that
\* interface (or what the frame is made of) between its first write and its send.
FrameAsMeant ==
  \A p \in Process : at[p].pc = "pcap" /\ at[p].hit = {} => frame[at[p].out] \in Meant(p)

\* An address becomes unknown again when the user deletes it and in no other way,
\* except that a disturbed Send can put its entry over another one.
OnlyUserForgets ==
  [][\A ip \in IPAddr : inCache(ip) # 0 /\ inCache(ip)' = 0 =>
       \/ OnBnClickedButtonItemDel(ip)
       \/ \E p \in Process : Store(p) /\ at[p].hit \cap {"ip", "table", "buffer"} # {}]_vars

\* ARPLayer.cpp:105: the exception that ends the program is thrown for a message of
\* an unknown opcode, as any peer can send it, and otherwise only when a frame of
\* another thread has overwritten the buffer in between (NILayer.cpp:172); never for
\* a request, a reply or a packet that was left alone.
ThrowsForCause ==
  \A s \in Slot : at[s].pc = "thrown" =>
    "buffer" \in at[s].hit \/ data[In(s)].op = "unknown"

=============================================================================
