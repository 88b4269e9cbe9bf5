------------------------------- MODULE ARPLayer -------------------------------
(***************************************************************************)
(* CARPLayer as the program runs it: the dialog's handlers (CARPDlg) on    *)
(* the UI thread, the frames that the receive threads of CNILayer deliver  *)
(* through CEthernetLayer, and the packets CIPLayer routes to RSend on the *)
(* same threads.                                                           *)
(*                                                                         *)
(* A handler is one step here, except where it sends a request.  RSend     *)
(* searches, asks, and waits for three seconds; the dialog sends on one    *)
(* interface after the other, and reads the address it asks for in a       *)
(* header that every packet overwrites.  In between every other handler    *)
(* may run, and an entry that is added between the search of Send and its  *)
(* push_back is missed.                                                    *)
(*                                                                         *)
(* The properties below speak of interleavings of these steps.  Of what    *)
(* happens inside a handler, ARPThreads has more: there a deletion by the  *)
(* user moves an index before it is used, and frames are torn, and both    *)
(* are exceptions to what is said here.                                    *)
(***************************************************************************)
EXTENDS ARPTable, FiniteSets

CONSTANTS
  NoAddr,        \* 0.0.0.0, what a blank address field reads as
  AdapterIP,     \* AdapterIP[f]: the IPv4 address of the adapter of interface f
  MyMAC,         \* MyMAC[f]: the Ethernet address of that adapter
  Announcement,  \* the [ip, mac] pairs peers put in the sender part of ARP packets
  Target,        \* addresses users and peers ask for
  Hop,           \* the [ip, out] next hops that packets are routed to
  Passing,       \* source and destination of packets that arrive during a Send
  Typed,         \* addresses a user may type into the source address fields
  Proxied,       \* the [src, ip, mac] rows a user may register as proxies
  Slot,          \* receive threads that can exist at a time
  SlotIface,     \* SlotIface[s]: the interface thread s reads from
  MaxEntries,    \* bound on Len(arpTable)
  MaxProxies     \* bound on Len(proxyTable)

INNER == "INNER"
OUTER == "OUTER"
Iface == {INNER, OUTER}

Proxy == [src : HostMAC, ip : IPAddr, mac : HostMAC]

ASSUME AddressAssumption ==
  /\ NoAddr \in IPAddr
  /\ AdapterIP \in [Iface -> IPAddr \ {NoAddr}]
  /\ MyMAC \in [Iface -> HostMAC]
  /\ Announcement \subseteq [ip : IPAddr, mac : HostMAC]
  /\ Target \subseteq IPAddr \ {NoAddr}
  /\ Hop \subseteq [ip : IPAddr, out : Iface]
  /\ Passing \subseteq [src : IPAddr, dst : IPAddr]
  /\ Typed \subseteq IPAddr
  /\ Proxied \subseteq Proxy

ASSUME BoundAssumption ==
  /\ SlotIface \in [Slot -> Iface]
  /\ MaxEntries \in Nat
  /\ MaxProxies \in Nat

VARIABLES
  arpTable,    \* m_arpTable
  proxyTable,  \* m_proxyTable; the dialog's proxy rows have the same indices
  arpList,     \* the addresses in the dialog's list of the cache (m_ListARPTable)
  lost,        \* history: addresses whose entry a disturbed Send has written over
               \* since the list was last emptied
  fields,      \* the source address and MAC shown for each interface
  myaddr,      \* myip and mymac of the ARP layer
  selected,    \* canRead; the timer runs and the combo boxes are disabled with it
  sending,     \* the handler of the dialog that is sending
  enetType,    \* enet_type in the frame header of each interface
  rx,          \* the receive threads
  sent,        \* the frames the last step handed to pcap_sendpacket
  heard        \* history: the sender of the ARP message the last step has read

vars == <<arpTable, proxyTable, arpList, lost, fields, myaddr, selected, sending,
          enetType, rx, sent, heard>>

Address == [ip : IPAddr, mac : HostMAC \cup {ZeroMAC}]

\* An ARP message and an IP packet; of a packet only its next hop matters.
ARPBody == [op : {"request", "reply"}, srcMAC : MAC, srcIP : IPAddr,
            dstMAC : MAC, dstIP : IPAddr]
IPBody  == [op : {"ip"}, hop : IPAddr]
EtherType == {"none", "ARP", "IP"}
Frame == [iface : Iface, dst : MAC, type : EtherType, body : ARPBody \cup IPBody]

\* A thread that asks for an address or waits for it remembers the next hop and
\* the interface it will send on; mac is what its request is filled with.  gone:
\* the entry it waits for was never made or has been removed.
Thread == [pc : {"off", "read", "ask", "wait"}, hop : IPAddr, out : Iface,
           mac : {Broadcast, ZeroMAC}, gone : BOOLEAN]

Asking(hop, out, mac) ==
  [pc |-> "ask", hop |-> hop, out |-> out, mac |-> mac, gone |-> FALSE]

Waiting(hop, out, gone) ==
  [pc |-> "wait", hop |-> hop, out |-> out, mac |-> Broadcast, gone |-> gone]

At(pc) == [pc |-> pc, hop |-> NoAddr, out |-> INNER, mac |-> Broadcast, gone |-> FALSE]

\* The Send button's request for dst or the announcements of Select: the
\* interface to send on next, and the length of the table when that Send began.
Sending == [job : {"none", "ask", "announce"}, dst : IPAddr, on : Iface, from : 0 .. MaxEntries]

NotSending == [job |-> "none", dst |-> NoAddr, on |-> INNER, from |-> 0]

\* isGARP(TRUE) and isGARP(FALSE) enclose the announcements.
is_Garp == sending.job # "announce"

Cached(ip) == Holds(arpTable, ip)

Init ==
  /\ arpTable = << >>
  /\ proxyTable = << >>
  /\ arpList = {}
  /\ lost = {}
  /\ fields = [f \in Iface |-> [ip |-> NoAddr, mac |-> ZeroMAC]]
  /\ myaddr = [f \in Iface |-> [ip |-> NoAddr, mac |-> ZeroMAC]]
  /\ selected = FALSE
  /\ sending = NotSending
  /\ enetType = [f \in Iface |-> "none"]
  /\ rx = [s \in Slot |-> At("off")]
  /\ sent = {}
  /\ heard = {}

-----------------------------------------------------------------------------
(* Frames. *)

\* What Send puts on interface f: an ARP request from src for dst, in a frame
\* addressed to mac, which is also the target hardware address.
Request(f, src, dst, mac) ==
  [iface |-> f, dst |-> mac, type |-> "ARP",
   body |-> [op |-> "request", srcMAC |-> MyMAC[f], srcIP |-> src,
             dstMAC |-> mac, dstIP |-> dst]]

\* Receive turns the request round: the frame keeps whatever type the header
\* of the interface had.
Reply(f, to, ip, mac) ==
  [iface |-> f, dst |-> to.mac, type |-> enetType[f],
   body |-> [op |-> "reply", srcMAC |-> mac, srcIP |-> ip,
             dstMAC |-> to.mac, dstIP |-> to.ip]]

PacketFrame(f, mac, hop) ==
  [iface |-> f, dst |-> mac, type |-> "IP", body |-> [op |-> "ip", hop |-> hop]]

\* Mutant: the search goes on after a match.
ProxyForLast(ip) == SelectLastInSeq(proxyTable, LAMBDA p : p.ip = ip)

\* The first proxy row of this address, or 0.
ProxyFor(ip) == SelectInSeq(proxyTable, LAMBDA p : p.ip = ip)

\* The replies to a request from sender for target that arrives on f.
Answers(f, sender, target) ==
  IF target = myaddr[INNER].ip
  THEN {Reply(f, sender, target, myaddr[INNER].mac)}
  ELSE IF ProxyFor(target) # 0
       THEN {Reply(f, sender, target, proxyTable[ProxyFor(target)].src)}
       ELSE {}

-----------------------------------------------------------------------------
(* The dialog. *)

Quiet == sent' = {} /\ heard' = {}

\* A handler begins when the one before it has returned.
Idle == sending.job = "none"

TypeSource(f, ip) ==
  /\ Idle
  /\ ~selected
  /\ fields' = [fields EXCEPT ![f].ip = ip]
  /\ Quiet
  /\ UNCHANGED <<arpTable, proxyTable, arpList, lost, myaddr, selected, sending, enetType, rx>>

FromAdapter(f) == [ip |-> AdapterIP[f], mac |-> MyMAC[f]]

OnCbnSelchangeComboAdapter(f) ==
  /\ Idle
  /\ ~selected
  /\ fields' = [fields EXCEPT ![f] = FromAdapter(f)]
  /\ Quiet
  /\ UNCHANGED <<arpTable, proxyTable, arpList, lost, myaddr, selected, sending, enetType, rx>>

\* The first branch of the Select button: the fields are read, then reloaded
\* from the adapters; with no outer address read, that is all.
SelectRefused ==
  /\ Idle
  /\ ~selected
  /\ fields[OUTER].ip = NoAddr
  /\ fields' = [f \in Iface |-> FromAdapter(f)]
  /\ Quiet
  /\ UNCHANGED <<arpTable, proxyTable, arpList, lost, myaddr, selected, sending, enetType, rx>>

Spawn(started) == [s \in Slot |-> IF s \in started THEN At("read") ELSE rx[s]]

\* Mutant: the button starts a thread for the outer interface only.
StartableOuter == {T \in SUBSET {s \in Slot : rx[s].pc = "off"} :
                     Cardinality(T) = 1 /\ \A s \in T : SlotIface[s] = OUTER}

\* One free slot for each interface.
Startable == {T \in SUBSET {s \in Slot : rx[s].pc = "off"} :
                \A f \in Iface : Cardinality({s \in T : SlotIface[s] = f}) = 1}

\* Otherwise what was read becomes our address, two threads start, and the
\* (reloaded) addresses are to be announced, that of OUTER first.
Select ==
  /\ Idle
  /\ ~selected
  /\ fields[OUTER].ip # NoAddr
  /\ selected' = TRUE
  /\ myaddr' = fields
  /\ fields' = [f \in Iface |-> FromAdapter(f)]
  /\ \E started \in Startable : rx' = Spawn(started)
  /\ sending' = [NotSending EXCEPT !.job = "announce", !.on = OUTER, !.from = Len(arpTable)]
  /\ Quiet
  /\ UNCHANGED <<arpTable, proxyTable, arpList, lost, enetType>>

\* The second branch of the same button.  No thread is joined.
Reselect ==
  /\ Idle
  /\ selected
  /\ selected' = FALSE
  /\ Quiet
  /\ UNCHANGED <<arpTable, proxyTable, arpList, lost, fields, myaddr, sending, enetType, rx>>

\* The request goes out on both interfaces, INNER first.
SendArp(dst) ==
  /\ Idle
  /\ selected
  /\ sending' = [job |-> "ask", dst |-> dst, on |-> INNER, from |-> Len(arpTable)]
  /\ Quiet
  /\ UNCHANGED <<arpTable, proxyTable, arpList, lost, fields, myaddr, selected, enetType, rx>>

\* What the handler has written into the header of the IP layer.
Header == [src |-> fields[sending.on].ip,
           dst |-> IF sending.job = "announce" THEN fields[sending.on].ip ELSE sending.dst]

\* Threads waiting for one of these addresses can no longer count on it.
Forsake(ips) ==
  [s \in Slot |-> IF rx[s].pc = "wait" /\ rx[s].hop \in ips
                  THEN [rx[s] EXCEPT !.gone = TRUE] ELSE rx[s]]

\* Then the handler goes on with the other interface, or returns.
NextSending(from) ==
  IF sending.on = (IF sending.job = "ask" THEN INNER ELSE OUTER)
  THEN [sending EXCEPT !.on = IF @ = INNER THEN OUTER ELSE INNER, !.from = from]
  ELSE NotSending

\* CARPLayer::Send for the dialog.  The new entry is for the address ip that the
\* header held at first; what it held then is compared, searched for and sent.
\* An announcement is recognised by its equal addresses, and not stored.
Send(ip, header) ==
  LET f      == sending.on
      mac    == IF is_Garp THEN Broadcast ELSE ZeroMAC
      missed == inCache(arpTable, header.dst) > sending.from
      over   == IF header.src = header.dst \/ ip = header.dst THEN {} ELSE {header.dst}
  IN  /\ ~Idle
      /\ arpTable' \in IF header.src = header.dst THEN {arpTable}
                       ELSE Stored(arpTable, header.dst, Question(ip, mac), missed)
      /\ Len(arpTable') <= MaxEntries
      /\ lost' = lost \cup over
      /\ rx' = Forsake(over)
      /\ sent' = {Request(f, header.src, header.dst, mac)}
      /\ heard' = {}
      /\ enetType' = [enetType EXCEPT ![f] = "ARP"]
      /\ sending' = NextSending(Len(arpTable'))
      /\ UNCHANGED <<proxyTable, arpList, fields, myaddr, selected>>

\* While the dialog sends, the thread of that interface reads.
SendOn ==
  \/ Send(Header.dst, Header)
  \/ \E p \in Passing : \E ip \in {Header.dst} \cup {q.dst : q \in Passing} : Send(ip, p)

OnTimer ==
  /\ Idle
  /\ selected
  /\ arpTable' = updateTable(arpTable)
  /\ arpList' = arpList \cup {arpTable[i].ip : i \in DOMAIN arpTable}
  /\ Quiet
  /\ UNCHANGED <<proxyTable, lost, fields, myaddr, selected, sending, enetType, rx>>

\* The user picks a row; all rows go and the timer brings the others back.  With
\* no entry for the row the code erases end(), and nothing is known from then on.
DeleteRow(ip) ==
  /\ Idle
  /\ ip \in arpList
  /\ Cached(ip)
  /\ arpTable' = deleteItem(arpTable, ip)
  /\ arpList' = {}
  /\ lost' = {}
  /\ rx' = Forsake({ip})
  /\ Quiet
  /\ UNCHANGED <<proxyTable, fields, myaddr, selected, sending, enetType>>

ClearTable ==
  /\ Idle
  /\ arpTable' = << >>
  /\ arpList' = {}
  /\ lost' = {}
  /\ rx' = Forsake(IPAddr)
  /\ Quiet
  /\ UNCHANGED <<proxyTable, fields, myaddr, selected, sending, enetType>>

CreateProxy(p) ==
  /\ Idle
  /\ Len(proxyTable) < MaxProxies
  /\ proxyTable' = Append(proxyTable, p)
  /\ Quiet
  /\ UNCHANGED <<arpTable, arpList, lost, fields, myaddr, selected, sending, enetType, rx>>

DeleteProxy(i) ==
  /\ Idle
  /\ proxyTable' = RemoveAt(proxyTable, i)
  /\ Quiet
  /\ UNCHANGED <<arpTable, arpList, lost, fields, myaddr, selected, sending, enetType, rx>>

-----------------------------------------------------------------------------
(* The receive threads. *)

\* Mutant: the thread does not test canRead again.
ResumeForever(s) == [rx EXCEPT ![s] = At("read")]

\* The thread tests canRead again once a frame has been handled.
Resume(s) == [rx EXCEPT ![s] = At(IF selected THEN "read" ELSE "off")]

\* pcap_next_ex returned nothing.
ReadTimeout(s) ==
  /\ rx[s].pc = "read"
  /\ ~selected
  /\ rx' = Resume(s)
  /\ Quiet
  /\ UNCHANGED <<arpTable, proxyTable, arpList, lost, fields, myaddr, selected, sending, enetType>>

\* A packet that carries our own INNER address, or a reverse ARP opcode.
ReceiveIgnored(s) ==
  /\ rx[s].pc = "read"
  /\ rx' = Resume(s)
  /\ Quiet
  /\ UNCHANGED <<arpTable, proxyTable, arpList, lost, fields, myaddr, selected, sending, enetType>>

ReceiveRequest(s, sender, target) ==
  /\ rx[s].pc = "read"
  /\ sender.ip # myaddr[INNER].ip
  /\ arpTable' = HearRequest(arpTable, sender.ip, sender.mac)
  /\ Len(arpTable') <= MaxEntries
  /\ sent' = Answers(SlotIface[s], sender, target)
  /\ heard' = {sender}
  /\ rx' = Resume(s)
  /\ UNCHANGED <<proxyTable, arpList, lost, fields, myaddr, selected, sending, enetType>>

ReceiveReply(s, sender) ==
  /\ rx[s].pc = "read"
  /\ sender.ip # myaddr[INNER].ip
  /\ arpTable' = HearReply(arpTable, sender.ip, sender.mac)
  /\ rx' = Resume(s)
  /\ sent' = {}
  /\ heard' = {sender}
  /\ UNCHANGED <<proxyTable, arpList, lost, fields, myaddr, selected, sending, enetType>>

\* The end of RSend: the packet leaves for mac.
Transmit(out, mac, hop) ==
  /\ sent' = {PacketFrame(out, mac, hop)}
  /\ heard' = {}
  /\ enetType' = [enetType EXCEPT ![out] = "IP"]

ForwardByProxy(s, hop, out) ==
  /\ rx[s].pc = "read"
  /\ ProxyFor(hop) # 0
  /\ Transmit(out, proxyTable[ProxyFor(hop)].mac, hop)
  /\ rx' = Resume(s)
  /\ UNCHANGED <<arpTable, proxyTable, arpList, lost, fields, myaddr, selected, sending>>

ForwardCached(s, hop, out) ==
  /\ rx[s].pc = "read"
  /\ ProxyFor(hop) = 0
  /\ Cached(hop)
  /\ Transmit(out, Lookup(arpTable, hop), hop)
  /\ rx' = Resume(s)
  /\ UNCHANGED <<arpTable, proxyTable, arpList, lost, fields, myaddr, selected, sending>>

\* An unknown hop is to be asked for; what Send fills its request with depends on
\* the flag that the dialog sets for its announcements.
ForwardMiss(s, hop, out) ==
  /\ rx[s].pc = "read"
  /\ ProxyFor(hop) = 0
  /\ ~Cached(hop)
  /\ rx' = [rx EXCEPT ![s] = Asking(hop, out, IF is_Garp THEN Broadcast ELSE ZeroMAC)]
  /\ Quiet
  /\ UNCHANGED <<arpTable, proxyTable, arpList, lost, fields, myaddr, selected, sending, enetType>>

\* The request for the hop, from the address the layer knows as its own.  The
\* second search, that of Send, may have missed the hop like the first.
ForwardAsk(s) ==
  LET hop == rx[s].hop
      out == rx[s].out
      own == myaddr[out].ip
  IN  /\ rx[s].pc = "ask"
      /\ arpTable' \in IF own = hop THEN {arpTable}
                       ELSE Stored(arpTable, hop, Question(hop, rx[s].mac), TRUE)
      /\ Len(arpTable') <= MaxEntries
      /\ sent' = {Request(out, own, hop, rx[s].mac)}
      /\ heard' = {}
      /\ enetType' = [enetType EXCEPT ![out] = "ARP"]
      /\ rx' = [rx EXCEPT ![s] = Waiting(hop, out, own = hop)]
      /\ UNCHANGED <<proxyTable, arpList, lost, fields, myaddr, selected, sending>>

\* Three seconds later the table is searched again, and only the table.
ForwardWaited(s) ==
  /\ rx[s].pc = "wait"
  /\ Cached(rx[s].hop)
  /\ Transmit(rx[s].out, Lookup(arpTable, rx[s].hop), rx[s].hop)
  /\ rx' = Resume(s)
  /\ UNCHANGED <<arpTable, proxyTable, arpList, lost, fields, myaddr, selected, sending>>

ForwardDropped(s) ==
  /\ rx[s].pc = "wait"
  /\ ~Cached(rx[s].hop)
  /\ rx' = Resume(s)
  /\ Quiet
  /\ UNCHANGED <<arpTable, proxyTable, arpList, lost, fields, myaddr, selected, sending, enetType>>

-----------------------------------------------------------------------------
Tick ==
  /\ arpTable' = Older(arpTable)
  /\ Quiet
  /\ UNCHANGED <<proxyTable, arpList, lost, fields, myaddr, selected, sending, enetType, rx>>

Dialog ==
  \/ \E f \in Iface, ip \in Typed : TypeSource(f, ip)
  \/ \E f \in Iface : OnCbnSelchangeComboAdapter(f)
  \/ SelectRefused
  \/ Select
  \/ Reselect
  \/ \E dst \in Target : SendArp(dst)
  \/ SendOn
  \/ OnTimer
  \/ \E ip \in IPAddr : DeleteRow(ip)
  \/ ClearTable
  \/ \E p \in Proxied : CreateProxy(p)
  \/ \E i \in DOMAIN proxyTable : DeleteProxy(i)

Receive(s) ==
  \/ ReceiveIgnored(s)
  \/ \E sender \in Announcement, target \in Target : ReceiveRequest(s, sender, target)
  \/ \E sender \in Announcement : ReceiveReply(s, sender)
  \/ \E n \in Hop : \/ ForwardByProxy(s, n.ip, n.out)
                    \/ ForwardCached(s, n.ip, n.out)
                    \/ ForwardMiss(s, n.ip, n.out)

\* What a thread does by itself, whatever the network delivers.
Progress(s) == ReadTimeout(s) \/ ForwardAsk(s) \/ ForwardWaited(s) \/ ForwardDropped(s)

Next ==
  \/ Dialog
  \/ \E s \in Slot : Receive(s) \/ Progress(s)
  \/ Tick

Spec == Init /\ [][Next]_vars

\* Time passes, the window's timer keeps firing, a handler of the dialog goes on,
\* and a thread's pcap_next_ex and Wait both end.  Users and peers owe nothing.
Fairness ==
  /\ WF_vars(Tick)
  /\ WF_vars(OnTimer)
  /\ WF_vars(SendOn)
  /\ \A s \in Slot : WF_vars(Progress(s))

FairSpec == Spec /\ Fairness

-----------------------------------------------------------------------------
(* Correctness. *)

StatusOf(ip) == arpTable[inCache(arpTable, ip)].status

\* Every variable has its type; the table stays within its bound.
TypeOK ==
  /\ arpTable \in Seq(Node)
  /\ Len(arpTable) <= MaxEntries
  /\ proxyTable \in Seq(Proxy)
  /\ arpList \subseteq IPAddr
  /\ lost \subseteq IPAddr
  /\ fields \in [Iface -> Address]
  /\ myaddr \in [Iface -> Address]
  /\ selected \in BOOLEAN
  /\ sending \in Sending
  /\ enetType \in [Iface -> EtherType]
  /\ rx \in [Slot -> Thread]
  /\ sent \subseteq Frame
  /\ heard \subseteq Announcement

\* Every row of the dialog's list has an entry in the table, so that deleteItem
\* (ARPLayer.cpp:366) finds it and erases no end(), whatever messages, questions
\* and ticks there were since the list was last refreshed; except the addresses
\* whose entry a Send has written over, because a packet put another one into the
\* header it reads (IPLayer.cpp:73).
RowsBacked == \A ip \in arpList \ lost : Cached(ip)

\* The stations whose messages may be taken for ip's: those that name it, and
\* those whose hardware address begins with it.
StationsOf(ip) ==
  {a.mac : a \in {b \in Announcement : b.ip = ip \/ FirstFour[b.mac] = ip}}

\* A complete entry was announced by its own station, unless a station whose
\* hardware address begins with that IP address took the entry over.
Announced(node) == node.status = "complete" => node.mac \in StationsOf(node.ip)

BindingAnnounced == \A i \in DOMAIN arpTable : Announced(arpTable[i])

\* A thread that asked for a hop finds an entry when it wakes up unless the user
\* removed one meanwhile or a disturbed Send of the dialog wrote over it (or the hop
\* is our own address): between whole steps, RSend gives a packet up for no other
\* reason.
WaiterKeepsEntry ==
  \A s \in Slot : rx[s].pc = "wait" /\ ~rx[s].gone => Cached(rx[s].hop)

\* While the program listens, a thread serves each interface, however often the
\* Select button was pressed before the old threads had noticed.
InterfacesServed ==
  selected => \A f \in Iface : \E s \in Slot : SlotIface[s] = f /\ rx[s].pc # "off"

\* The layer answers for its inner address with the inner MAC, or for the first
\* proxy row of an address with that row's device, and answers nobody who claims
\* to be the inner address.
AnswersOwned ==
  \A frame \in sent : frame.body.op = "reply" =>
    /\ frame.body.dstIP # myaddr[INNER].ip
    /\ \/ frame.body.srcIP = myaddr[INNER].ip /\ frame.body.srcMAC = myaddr[INNER].mac
       \/ /\ frame.body.srcIP # myaddr[INNER].ip
          /\ \E i \in DOMAIN proxyTable :
               /\ proxyTable[i].ip = frame.body.srcIP
               /\ proxyTable[i].src = frame.body.srcMAC
               /\ \A j \in 1 .. i - 1 : proxyTable[j].ip # frame.body.srcIP

Open(ip) == Cached(ip) /\ StatusOf(ip) = "incomplete"

\* Once the user stops asking, a question does not stay open while the program
\* listens: it is answered, deleted, or the timer declares it timed out.  The
\* forwarding threads may ask on, and several at once for one hop.
QuestionsEnd ==
  <>[][~ \E dst \in Target : SendArp(dst)]_vars =>
    \A ip \in Target \cup {n.ip : n \in Hop} : (selected /\ Open(ip)) ~> (~selected \/ ~Open(ip))

\* If the program stops listening for good, every receive thread ends; provided
\* that no send fails, for then a message box (NILayer.cpp:73), which is left out
\* here, holds the thread until the user closes it.
ThreadsStop == <>[]~selected => <>[](\A s \in Slot : rx[s].pc = "off")

-----------------------------------------------------------------------------
(* The cache as a resolver. *)

\* The answer for an address is its first entry.
AnswerOf(ip) ==
  IF ~Cached(ip) THEN [state |-> "unknown", mac |-> Broadcast]
  ELSE [state |-> CASE StatusOf(ip) = "incomplete" -> "open"
                    [] StatusOf(ip) = "complete" -> "known"
                    [] StatusOf(ip) = "timeout" -> "stale",
        mac |-> Lookup(arpTable, ip)]

\* A message speaks for its sender's address and for the one its hardware address
\* begins with.
Cache == INSTANCE Resolver WITH
       Address <- IPAddr, Nobody <- Broadcast, Blank <- {Broadcast, ZeroMAC},
       Message <- Announcement, Station <- [a \in Announcement |-> a.mac],
       For <- [a \in Announcement |-> {a.ip, FirstFour[a.mac]}],
       answer <- [ip \in IPAddr |-> AnswerOf(ip)]

\* However copies pile up and are deleted, and whoever asks at the same time: what
\* users of the table see of an address becomes known only by the message of that
\* very step that speaks for it, or by a deletion that brings an older answer to
\* light; no message or timer loses one or reopens a question; and no step changes
\* two addresses but the timer, the button that clears the table, and a Send that
\* writes its question over the entry of another address.
ImplementsResolver == Cache!Spec

-----------------------------------------------------------------------------
(* What the documentation says and the code does not do. *)

\* README.md:35: a frame that carries an ARP message has the ARP type.
ARPFramesTyped ==
  \A frame \in sent : frame.body.op \in {"request", "reply"} => frame.type = "ARP"

\* ARPLayer.cpp:185: a packet whose hop was asked for leaves when the reply has
\* come, so that after Wait no packet goes to an unresolved address.
PacketsResolved ==
  [][\A s \in Slot : ForwardWaited(s) => \A frame \in sent' : frame.dst \in HostMAC]_vars

=============================================================================
