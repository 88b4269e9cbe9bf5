-------------------------- MODULE ARPThreads_proofs --------------------------
(***************************************************************************)
(* Invariants of ARPThreads for every number of threads and every frame.   *)
(***************************************************************************)
EXTENDS ARPThreads, SequenceFacts

-----------------------------------------------------------------------------
(* The inductive invariant, process by process. *)

Asks == {"fill", "search", "store", "dest", "message", "data", "pcap"}
Filled == Asks \ {"fill"}

\* Where a process can be with each of its jobs, and what the job is about.
Control(p) ==
  LET L == at[p] IN
  /\ L.job \in IF p = UI THEN {"none", "user", "announcement"}
               ELSE {"none", "packet", "hop", "forward", "heard"}
  /\ L.job = "none" => L.pc = "idle"
  /\ L.job = "user" => L.pc \in Asks \cup {"set"}
  /\ L.job = "announcement" => L.pc \in Asks \cup {"set", "reset"} /\ L.ip = MyIP[L.out]
  /\ L.job = "packet" => L.pc \in {"header", "lookup"}
  /\ L.job = "hop" => L.pc \in Asks \cup {"again"}
  /\ L.job = "forward" => L.pc \in {"dest", "data", "pcap"}
  /\ L.job = "heard" => L.pc \in {"learn", "store", "update", "turn", "dest", "data", "pcap", "thrown"}
  /\ L.job \in {"user", "packet", "hop", "forward", "heard"} => L.ip \in Peer

\* The hardware address a request is for, and the flag it is made from: isGARP is
\* set for as long as the dialog announces, and for no click of the user.
Flagged(p) ==
  LET L == at[p] IN
  /\ p = UI => (is_Garp <=> L.job # "announcement")
  /\ L.pc \in Filled => /\ L.job = "user" => L.mac = Broadcast
                        /\ L.job = "announcement" => L.mac = ZeroMAC
                        /\ L.job = "hop" => L.mac \in {Broadcast, ZeroMAC}

PacketFor(ip) == {b \in Arriving : b.op = "ip" /\ b.dst = ip}

ReplyTo(ip) == [op |-> "reply", src |-> MyIP[INNER], dst |-> ip, mac |-> PeerMAC[ip]]

\* What lies in the buffer, and what was copied from it, unless another frame has
\* come in since.
BufferKept(p) ==
  LET L == at[p]
      body == data[In(p)]
  IN  "buffer" \notin L.hit =>
        /\ L.job \in {"packet", "hop"} => body \in PacketFor(L.ip)
        /\ L.job \in {"hop", "forward"} => L.body \in PacketFor(L.ip)
        /\ L.job = "heard" =>
             /\ L.pc = "learn" => body \in Arriving /\ body.op # "ip" /\ body.src = L.ip
             /\ L.pc \in {"store", "turn"} =>
                  body \in Arriving /\ body.op = "request" /\ body.src = L.ip
             /\ L.pc = "update" =>
                  body \in Arriving /\ body.op = "reply" /\ body.src = L.ip
             /\ L.pc \in {"dest", "data"} => body = ReplyTo(L.ip)
             /\ L.pc = "thrown" => body.op = "unknown"

\* The IP headers a Send relies on, and the address it took from them, unless a
\* packet has come in since.
HeaderKept(p) ==
  LET L == at[p] IN
  /\ L.job \in {"user", "announcement"} /\ L.pc \in Asks /\ "ip" \notin L.hit =>
       /\ \A f \in Ahead(p) : ipHeader[f] = [src |-> MyIP[f], dst |-> L.ip]
       /\ L.pc # "fill" => L.node = L.ip
       /\ L.pc = "store" => L.job = "user"
  /\ L.job = "hop" /\ L.pc \in Filled /\ "buffer" \notin L.hit => L.node = Hop[L.ip]

\* IndexHolds, of one process.
IndexKept(p) ==
  Uses(p, "table", INNER) /\ at[p].hit \cap {"table", "ip", "buffer"} = {} =>
    at[p].index \in DOMAIN table /\ table[at[p].index].ip = Found(p)

\* A Send that has found no entry of its address, and that no one has disturbed,
\* still finds none but strays.
MissKept(p) ==
  LET L == at[p] IN
  /\ L.pc = "store" /\ L.job # "heard" /\ L.index = 0
  /\ L.hit \cap {"ip", "buffer", "table", "miss"} = {}
  => \A i \in DOMAIN table : table[i].ip = L.node => table[i].stray

Wanted(p) == IF at[p].job = "hop" THEN Hop[at[p].ip] ELSE at[p].ip

\* The ARP header of a request, from SetRequest to CopyData.
MessageKept(p) ==
  LET L == at[p] IN
  L.job \in {"user", "announcement", "hop"} /\ L.pc = "data" /\ L.hit = {} =>
    arpHeader[L.out] = [op |-> "request", src |-> MyIP[L.out], dst |-> Wanted(p),
                        mac |-> L.mac]

\* The frame header, from its first write to pcap_sendpacket.
FrameKept(p) ==
  LET L == at[p] IN
  L.hit = {} =>
    /\ L.pc \in {"message", "data"} =>
         /\ L.job \in {"user", "announcement", "hop"} =>
              frame[L.out].type = "ARP" /\ frame[L.out].dst = L.mac
         /\ L.job = "forward" => frame[L.out].type = "IP"
         /\ L.job = "heard" => frame[L.out].dst = PeerMAC[L.ip]
    /\ L.pc = "pcap" => frame[L.out] \in Meant(p)

Right(p) ==
  /\ Control(p) /\ Flagged(p) /\ BufferKept(p) /\ HeaderKept(p)
  /\ IndexKept(p) /\ MissKept(p) /\ MessageKept(p) /\ FrameKept(p)

SharedTypes ==
  /\ table \in Seq(Node) /\ Len(table) <= MaxEntries
  /\ is_Garp \in BOOLEAN
  /\ ipHeader \in [Iface -> [src : IPAddr, dst : IPAddr]]
  /\ arpHeader \in [Iface -> Body]
  /\ frame \in [Iface -> [dst : MAC, type : {"none", "ARP", "IP"}, body : Body]]
  /\ data \in [Iface -> Body]
  /\ frames \in 0 .. MaxFrames
  /\ clicks \in 0 .. MaxClicks

\* No frame carries the zero address that only announcements are for.
NoZero == \A f \in Iface : data[f].mac # ZeroMAC

Entered == StoredAsMeant /\ CopiesStray

SharedOK == SharedTypes /\ NoZero /\ Entered

IInv == SharedOK /\ at \in [Process -> Local] /\ \A p \in Process : Right(p)

LEMMA Types == (SharedTypes /\ at \in [Process -> Local]) <=> TypeOK
BY DEF SharedTypes, TypeOK

LEMMA Interfaces ==
  /\ UI \in Process
  /\ \A p \in Process : In(p) \in Iface
  /\ \A f \in Iface : MyIP[f] \in IPAddr
  /\ \A a \in Peer : a \in IPAddr /\ PeerMAC[a] \in HostMAC /\ Hop[a] \in Peer /\ Out[a] \in Iface
  /\ HostMAC \subseteq MAC /\ {Broadcast, ZeroMAC, UnknownMAC} \subseteq MAC
  /\ MaxFrames \in Nat /\ MaxClicks \in Nat /\ MaxEntries \in Nat
BY ThreadAssumption DEF In, Process, Iface, INNER, OUTER, IPAddr, HostMAC, MAC

-----------------------------------------------------------------------------
(* The table. *)

Index(t, ip) == SelectInSeq(t, LAMBDA node : node.ip = ip)

LEMMA IndexNow ==
  ASSUME NEW ip
  PROVE  inCache(ip) = Index(table, ip) /\ inCache(ip)' = Index(table', ip)
BY DEF inCache, Index, SelectInSeq

LEMMA IndexEffect ==
  ASSUME NEW t \in Seq(Node), NEW ip
  PROVE  /\ Index(t, ip) \in 0 .. Len(t)
         /\ Index(t, ip) # 0 => t[Index(t, ip)].ip = ip
         /\ \A j \in 1 .. Len(t) : t[j].ip = ip => Index(t, ip) # 0
<1> DEFINE I == {j \in 1 .. Len(t) : t[j].ip = ip}
<1> DEFINE m == Index(t, ip)
<1>1. m = IF I # {} THEN Min(I) ELSE 0 BY DEF Index, SelectInSeq
<1>2. I \in SUBSET Nat OBVIOUS
<1>3. CASE I = {}
  <2>1. m = 0 BY <1>1, <1>3
  <2>2. \A j \in 1 .. Len(t) : t[j].ip # ip BY <1>3
  <2>3. QED BY <2>1, <2>2
<1>4. CASE I # {}
  <2>1. Min(I) \in I BY <1>2, <1>4, LeastElement DEF Min
  <2>2. m \in 1 .. Len(t) /\ t[m].ip = ip BY <1>1, <1>4, <2>1
  <2> HIDE DEF m
  <2>3. QED BY <2>2 DEF m
<1>5. QED BY <1>3, <1>4

-----------------------------------------------------------------------------
(* What a step does to the processes that do not take it. *)

Asker == {"user", "announcement", "hop"}

LEMMA StepOwn ==
  ASSUME NEW p \in Process, NEW L, NEW object, NEW fs, Step(p, L, object, fs)
  PROVE  at'[p] = L
BY DEF Step

\* A process is left alone, or finds the object marked.
Bystands(q, object, fs) ==
  /\ at[q] \in Local /\ at'[q] \in Local
  /\ at'[q].pc = at[q].pc /\ at'[q].job = at[q].job /\ at'[q].out = at[q].out
  /\ at'[q].ip = at[q].ip /\ at'[q].node = at[q].node /\ at'[q].mac = at[q].mac
  /\ at'[q].index = at[q].index /\ at'[q].body = at[q].body
  /\ at[q].hit \subseteq at'[q].hit
  /\ \A f \in fs : Uses(q, object, f) => object \in at'[q].hit

LEMMA Bystander ==
  ASSUME at \in [Process -> Local], NEW p \in Process, NEW L, NEW object \in Shared,
         NEW fs, Step(p, L, object, fs), NEW q \in Process, q # p
  PROVE  Bystands(q, object, fs)
<1>1. ASSUME NEW t \in Local
      PROVE  LET u == [t EXCEPT !.hit = @ \cup {object}]
             IN  /\ u \in Local
                 /\ u.pc = t.pc /\ u.job = t.job /\ u.out = t.out /\ u.ip = t.ip
                 /\ u.node = t.node /\ u.mac = t.mac /\ u.index = t.index
                 /\ u.body = t.body /\ u.hit = t.hit \cup {object}
  BY DEF Local
<1>2. at[q] \in Local OBVIOUS
<1>3. CASE \E f \in fs : Uses(q, object, f)
  <2>1. at'[q] = [at[q] EXCEPT !.hit = @ \cup {object}] BY <1>3 DEF Step
  <2>2. QED BY <1>1, <1>2, <2>1 DEF Bystands
<1>4. CASE ~ \E f \in fs : Uses(q, object, f)
  <2>1. at'[q] = at[q] BY <1>4 DEF Step
  <2>2. QED BY <1>2, <1>4, <2>1 DEF Bystands
<1>5. QED BY <1>3, <1>4

\* Where an entry that is no stray stands after a step, one stood before it.
Covered ==
  \A i \in DOMAIN table' : ~table'[i].stray =>
    \E j \in DOMAIN table : ~table[j].stray /\ table[j].ip = table'[i].ip

\* A step writes no shared object but the one it marks.
Only(object, fs) ==
  /\ \A f \in Iface :
       /\ ipHeader'[f] = ipHeader[f] \/ (object = "ip" /\ f \in fs)
       /\ arpHeader'[f] = arpHeader[f] \/ (object = "arp" /\ f \in fs)
       /\ frame'[f] = frame[f] \/ (object = "frame" /\ f \in fs)
       /\ data'[f] = data[f] \/ (object = "buffer" /\ f \in fs)
  /\ \/ object = "table" /\ fs # {}
     \/ \A i \in DOMAIN table : i \in DOMAIN table' /\ table'[i].ip = table[i].ip
  /\ (object = "miss" /\ fs # {}) \/ Covered

LEMMA Others ==
  ASSUME IInv, NEW p \in Process, NEW L, NEW object \in Shared, NEW fs \in SUBSET Iface,
         Step(p, L, object, fs), Only(object, fs), p = UI \/ is_Garp' = is_Garp,
         NEW q \in Process, q # p
  PROVE  Right(q)'
<1>0. at \in [Process -> Local] BY DEF IInv
<1>1. Bystands(q, object, fs) BY <1>0, Bystander
<1> USE DEF Bystands
<1>2. Right(q) BY DEF IInv
<1>3. Control(q)' BY <1>1, <1>2 DEF Right, Control
<1>4. Flagged(q)' BY <1>1, <1>2 DEF Right, Flagged
<1>5. In(q) \in Iface /\ at[q].out \in Iface BY <1>1, Interfaces DEF Local
<1>6. data'[In(q)] = data[In(q)] \/ "buffer" \in at'[q].hit
                                 \/ at[q].job \notin {"packet", "hop", "heard"}
  BY <1>1, <1>5 DEF Only, Uses
<1>7. BufferKept(q)' BY <1>1, <1>2, <1>6 DEF Right, BufferKept
<1>8. HeaderKept(q)'
  <2>1. Ahead(q) \subseteq Iface /\ Ahead(q)' = Ahead(q) BY <1>1, <1>5 DEF Ahead
  <2>2. ASSUME NEW f \in Ahead(q), at[q].job \in {"user", "announcement"}, at[q].pc \in Asks,
               "ip" \notin at'[q].hit
        PROVE  ipHeader'[f] = ipHeader[f]
    BY <1>1, <2>1, <2>2 DEF Only, Uses, Asks
  <2>3. QED BY <1>1, <1>2, <2>1, <2>2 DEF Right, HeaderKept
<1>9. IndexKept(q)'
  <2> SUFFICES ASSUME Uses(q, "table", INNER)', at'[q].hit \cap {"table", "ip", "buffer"} = {}
               PROVE  at'[q].index \in DOMAIN table' /\ table'[at'[q].index].ip = Found(q)'
    BY DEF IndexKept
  <2>1. Uses(q, "table", INNER) /\ \A f : Uses(q, "table", f) BY <1>1 DEF Uses
  <2>2. at[q].hit \cap {"table", "ip", "buffer"} = {} BY <1>1
  <2>3. at[q].index \in DOMAIN table /\ table[at[q].index].ip = Found(q)
    BY <1>2, <2>1, <2>2 DEF Right, IndexKept
  <2>4. at'[q].index \in DOMAIN table' /\ table'[at'[q].index].ip = Found(q)
    BY <1>1, <2>1, <2>3 DEF Only, Covered
  <2>5. Found(q)' = Found(q)
    BY <1>1, <1>6 DEF Found, Message
  <2>6. QED BY <2>4, <2>5
<1>10. MessageKept(q)'
  <2>1. ASSUME at[q].job \in {"user", "announcement", "hop"}, at[q].pc = "data", at'[q].hit = {}
        PROVE  arpHeader'[at[q].out] = arpHeader[at[q].out]
    BY <1>1, <1>5, <2>1 DEF Only, Uses
  <2>2. Wanted(q)' = Wanted(q) BY <1>1 DEF Wanted
  <2>3. QED BY <1>1, <1>2, <2>1, <2>2 DEF Right, MessageKept
<1>11. FrameKept(q)'
  <2>1. ASSUME at[q].pc \in {"message", "data", "pcap"}, at'[q].hit = {}
        PROVE  frame'[at[q].out] = frame[at[q].out]
    BY <1>1, <1>5, <2>1 DEF Only, Uses
  <2>2. Meant(q)' = Meant(q) BY <1>1 DEF Meant
  <2>3. QED BY <1>1, <1>2, <2>1, <2>2 DEF Right, FrameKept
<1>12. MissKept(q)'
  <2> SUFFICES ASSUME at'[q].pc = "store", at'[q].job # "heard", at'[q].index = 0,
                      at'[q].hit \cap {"ip", "buffer", "table", "miss"} = {},
                      NEW i \in DOMAIN table', table'[i].ip = at'[q].node, ~table'[i].stray
               PROVE  FALSE
    BY DEF MissKept
  <2>1. \A f : Uses(q, "miss", f) BY <1>1 DEF Uses
  <2>2. ~(object = "miss" /\ fs # {}) BY <1>1, <2>1
  <2>3. PICK j \in DOMAIN table : ~table[j].stray /\ table[j].ip = table'[i].ip
    BY <2>2 DEF Only, Covered
  <2>4. at[q].hit \cap {"ip", "buffer", "table", "miss"} = {} BY <1>1
  <2>5. MissKept(q) BY <1>2 DEF Right
  <2>6. QED BY <1>1, <2>3, <2>4, <2>5 DEF MissKept
<1>13. QED BY <1>3, <1>4, <1>7, <1>8, <1>9, <1>10, <1>11, <1>12 DEF Right

\* What remains to be shown of a step: the shared state and the process itself.
LEMMA StepInv ==
  ASSUME IInv, NEW p \in Process, NEW L \in Local, NEW object \in Shared,
         NEW fs \in SUBSET Iface, Step(p, L, object, fs), Only(object, fs),
         p = UI \/ is_Garp' = is_Garp, SharedOK', Right(p)'
  PROVE  IInv'
<1>1. at \in [Process -> Local] BY DEF IInv
<1>2. ASSUME NEW q \in Process PROVE at'[q] \in Local
  <2>1. CASE q = p BY <2>1, StepOwn
  <2>2. CASE q # p
    <3>1. Bystands(q, object, fs) BY <1>1, <2>2, Bystander
    <3>2. QED BY <3>1 DEF Bystands
  <2>3. QED BY <2>1, <2>2
<1>3. at' \in [Process -> Local] BY <1>2 DEF Step
<1>4. \A q \in Process : Right(q)' BY Others
<1>5. QED BY <1>3, <1>4 DEF IInv

LEMMA SharedKept ==
  ASSUME SharedOK, UNCHANGED <<table, is_Garp, headers, data, frames, clicks>>
  PROVE  SharedOK' /\ Only("frame", {})
<1>1. SharedTypes' /\ NoZero' BY DEF SharedOK, SharedTypes, NoZero, headers
<1>2. Entered' BY DEF SharedOK, Entered, StoredAsMeant, CopiesStray
<1>3. /\ ipHeader' = ipHeader /\ arpHeader' = arpHeader /\ frame' = frame
      /\ data' = data /\ table' = table
  BY DEF headers
<1>4. Only("frame", {}) BY <1>3 DEF Only, Covered
<1>5. QED BY <1>1, <1>2, <1>4 DEF SharedOK

\* A step that writes nothing shared.
LEMMA AloneInv ==
  ASSUME IInv, NEW p \in Process, NEW L \in Local, Alone(p, L),
         UNCHANGED <<table, is_Garp, headers, data, frames, clicks>>, Right(p)'
  PROVE  IInv'
<1>1. Step(p, L, "frame", {}) /\ "frame" \in Shared BY DEF Alone, Shared
<1>2. SharedOK' /\ Only("frame", {}) BY SharedKept DEF IInv
<1>3. is_Garp' = is_Garp OBVIOUS
<1>4. QED BY <1>1, <1>2, <1>3, StepInv

LEMMA AloneOwn ==
  ASSUME NEW p \in Process, NEW L, Alone(p, L)
  PROVE  at'[p] = L
BY StepOwn DEF Alone

\* What every proof about a step begins with.
LEMMA Start ==
  ASSUME IInv, NEW p \in Process
  PROVE  /\ at[p] \in Local /\ SharedTypes /\ at[p].out \in Iface /\ In(p) \in Iface
         /\ Control(p) /\ Flagged(p) /\ BufferKept(p) /\ HeaderKept(p)
         /\ IndexKept(p) /\ MissKept(p) /\ MessageKept(p) /\ FrameKept(p)
BY Interfaces DEF IInv, SharedOK, Local, Right

LEMMA Readings ==
  ASSUME SharedTypes, NEW p \in Process
  PROVE  NoBody \in Body /\ data[In(p)] \in Body /\ Packet(p) \in Body /\ Message(p) \in Body
<1>1. NoBody \in Body BY DEF NoBody, Body, IPAddr, MAC
<1>2. data[In(p)] \in Body BY Interfaces DEF SharedTypes
<1>3. QED BY <1>1, <1>2 DEF Packet, Message

\* The hop of a packet is that of its address while its buffer is left alone.
LEMMA NextHopEffect ==
  ASSUME SharedTypes, NEW p \in Process, at[p].ip \in Peer
  PROVE  /\ NextHop(p) \in IPAddr
         /\ data[In(p)] \in PacketFor(at[p].ip) => NextHop(p) = Hop[at[p].ip]
<1>1. Packet(p).dst \in IPAddr BY Readings DEF Body
<1>2. Hop[at[p].ip] \in IPAddr BY Interfaces
<1>3. data[In(p)] \in PacketFor(at[p].ip) => Packet(p).dst = at[p].ip
  BY DEF PacketFor, Packet
<1>4. QED BY <1>1, <1>2, <1>3 DEF NextHop

-----------------------------------------------------------------------------
(* Send. *)

LEMMA FillInv ==
  ASSUME IInv, NEW p \in Process, Fill(p)
  PROVE  IInv'
<1> DEFINE mac == IF is_Garp THEN Broadcast ELSE ZeroMAC
<1> DEFINE node == IF p = UI THEN ipHeader[at[p].out].dst ELSE NextHop(p)
<1> DEFINE L == [at[p] EXCEPT !.pc = "search", !.mac = mac, !.node = node]
<1>1. /\ at[p].pc = "fill" /\ Alone(p, L)
      /\ UNCHANGED <<table, is_Garp, headers, data, frames, clicks>>
  BY DEF Fill
<1>2. /\ at[p] \in Local /\ SharedTypes /\ at[p].out \in Iface
      /\ Control(p) /\ Flagged(p) /\ BufferKept(p) /\ HeaderKept(p)
  BY Start
<1>3. at[p].job \in {"user", "announcement", "hop"} /\ (p = UI <=> at[p].job # "hop")
  BY <1>1, <1>2 DEF Control
<1>4. mac \in {Broadcast, ZeroMAC} /\ mac \in MAC BY Interfaces
<1>5. /\ node \in IPAddr
      /\ at[p].job = "hop" /\ "buffer" \notin at[p].hit => node = Hop[at[p].ip]
      /\ p = UI /\ "ip" \notin at[p].hit => node = at[p].ip
  <2>1. CASE p = UI
    <3>1. ipHeader[at[p].out].dst \in IPAddr BY <1>2 DEF SharedTypes
    <3>2. at[p].out \in Ahead(p) BY <1>2 DEF Ahead
    <3>3. "ip" \notin at[p].hit =>
            ipHeader[at[p].out] = [src |-> MyIP[at[p].out], dst |-> at[p].ip]
      BY <1>1, <1>2, <1>3, <2>1, <3>2 DEF HeaderKept, Asks
    <3>4. QED BY <1>3, <2>1, <3>1, <3>3
  <2>2. CASE p # UI
    <3>1. at[p].job = "hop" /\ at[p].ip \in Peer BY <1>2, <1>3, <2>2 DEF Control
    <3>2. QED BY <1>2, <2>2, <3>1, NextHopEffect DEF BufferKept
  <2>3. QED BY <2>1, <2>2
<1> HIDE DEF mac, node
<1>6. /\ L \in Local /\ L.pc = "search" /\ L.job = at[p].job /\ L.out = at[p].out
      /\ L.ip = at[p].ip /\ L.node = node /\ L.mac = mac /\ L.body = at[p].body
      /\ L.hit = at[p].hit
  BY <1>2, <1>4, <1>5 DEF Local
<1>7. at'[p] = L BY <1>1, AloneOwn
<1> HIDE DEF L
<1>8. Right(p)'
  <2>1. Control(p)' BY <1>2, <1>3, <1>6, <1>7 DEF Control, Asks
  <2>2. Flagged(p)' BY <1>1, <1>2, <1>3, <1>4, <1>6, <1>7 DEF Flagged, mac
  <2>3. BufferKept(p)' BY <1>1, <1>2, <1>3, <1>6, <1>7 DEF BufferKept
  <2>4. HeaderKept(p)'
    <3>1. Ahead(p)' = Ahead(p) /\ ipHeader' = ipHeader
      BY <1>1, <1>6, <1>7 DEF Ahead, headers
    <3>2. QED BY <1>1, <1>2, <1>3, <1>5, <1>6, <1>7, <3>1 DEF HeaderKept, Asks
  <2>5. IndexKept(p)' BY <1>6, <1>7 DEF IndexKept, Uses
  <2>6. MissKept(p)' /\ MessageKept(p)' /\ FrameKept(p)'
    BY <1>6, <1>7 DEF MissKept, MessageKept, FrameKept
  <2>7. QED BY <2>1, <2>2, <2>3, <2>4, <2>5, <2>6 DEF Right
<1>9. QED BY <1>1, <1>6, <1>8, AloneInv

LEMMA Askers ==
  ASSUME NEW p \in Process, Control(p), at[p].pc \in {"fill", "search", "message"}
  PROVE  at[p].job \in {"user", "announcement", "hop"} /\ (p = UI <=> at[p].job # "hop")
BY DEF Control

\* The header that Send works with holds what was meant, unless it was marked.
LEMMA AskingKept ==
  ASSUME SharedTypes, NEW p \in Process, at[p] \in Local, Control(p), HeaderKept(p),
         at[p].pc \in {"search", "message"},
         at[p].hit \cap {"ip", "buffer"} = {}
  PROVE  Asking(p).src = MyIP[at[p].out] /\ Asking(p).dst = Wanted(p)
<1>1. at[p].job \in {"user", "announcement", "hop"} /\ (p = UI <=> at[p].job # "hop")
  BY Askers
<1>2. CASE p = UI
  <2>1. at[p].out \in Ahead(p) BY DEF Ahead, Local
  <2>2. "ip" \notin at[p].hit OBVIOUS
  <2>3. ipHeader[at[p].out] = [src |-> MyIP[at[p].out], dst |-> at[p].ip]
    BY <1>1, <1>2, <2>1, <2>2 DEF HeaderKept, Asks
  <2>4. QED BY <1>1, <1>2, <2>3 DEF Asking, Wanted
<1>3. CASE p # UI
  <2>1. "buffer" \notin at[p].hit OBVIOUS
  <2>2. at[p].node = Hop[at[p].ip] BY <1>1, <1>3, <2>1 DEF HeaderKept, Filled, Asks
  <2>3. QED BY <1>1, <1>3, <2>2 DEF Asking, Wanted
<1>4. QED BY <1>2, <1>3

LEMMA SearchInv ==
  ASSUME IInv, NEW p \in Process, Search(p)
  PROVE  IInv'
<1>1. /\ at[p].pc = "search"
      /\ UNCHANGED <<table, is_Garp, headers, data, frames, clicks>>
      /\ ipHeader' = ipHeader
  BY DEF Search, headers
<1>2. /\ at[p] \in Local /\ SharedTypes /\ at[p].out \in Iface
      /\ Control(p) /\ Flagged(p) /\ BufferKept(p) /\ HeaderKept(p)
  BY Start
<1>3. at[p].job \in {"user", "announcement", "hop"} /\ (p = UI <=> at[p].job # "hop")
  BY <1>1, <1>2, Askers
<1> DEFINE index == inCache(Asking(p).dst)
<1>4. /\ index \in 0 .. Len(table) /\ (index # 0 => table[index].ip = Asking(p).dst)
      /\ index = 0 => \A j \in DOMAIN table : table[j].ip # Asking(p).dst
  <2>1. table \in Seq(Node) /\ DOMAIN table = 1 .. Len(table) BY <1>2 DEF SharedTypes
  <2>2. QED BY <2>1, IndexNow, IndexEffect
<1>5. index \in 0 .. MaxEntries BY <1>2, <1>4, ThreadAssumption DEF SharedTypes
<1> HIDE DEF index
<1>6. CASE Asking(p).src = Asking(p).dst
  <2> DEFINE L == Goto(p, "dest")
  <2>1. Alone(p, L) BY <1>6 DEF Search
  <2>2. /\ L \in Local /\ L.pc = "dest" /\ L.job = at[p].job /\ L.out = at[p].out
        /\ L.ip = at[p].ip /\ L.node = at[p].node /\ L.mac = at[p].mac
        /\ L.body = at[p].body /\ L.hit = at[p].hit
    BY <1>2 DEF Local, Goto
  <2>3. at'[p] = L BY <2>1, AloneOwn
  <2> HIDE DEF L
  <2>4. Ahead(p)' = Ahead(p) BY <2>2, <2>3 DEF Ahead
  <2>5. Control(p)' BY <1>2, <1>3, <2>2, <2>3 DEF Control, Asks
  <2>6. Flagged(p)' BY <1>1, <1>2, <1>3, <2>2, <2>3 DEF Flagged, Filled, Asks
  <2>7. BufferKept(p)' BY <1>1, <1>2, <1>3, <2>2, <2>3 DEF BufferKept
  <2>8. HeaderKept(p)'
    BY <1>1, <1>2, <1>3, <2>2, <2>3, <2>4 DEF HeaderKept, Filled, Asks
  <2>9. IndexKept(p)' BY <1>3, <2>2, <2>3 DEF IndexKept, Uses
  <2>10. MissKept(p)' /\ MessageKept(p)' /\ FrameKept(p)'
    BY <2>2, <2>3 DEF MissKept, MessageKept, FrameKept
  <2>11. Right(p)' BY <2>5, <2>6, <2>7, <2>8, <2>9, <2>10 DEF Right
  <2>12. QED BY <1>1, <2>1, <2>2, <2>11, AloneInv
<1>7. CASE Asking(p).src # Asking(p).dst
  <2> DEFINE L == [at[p] EXCEPT !.pc = "store", !.index = index]
  <2>1. Alone(p, L) BY <1>7 DEF Search, index
  <2>2. /\ L \in Local /\ L.pc = "store" /\ L.job = at[p].job /\ L.out = at[p].out
        /\ L.ip = at[p].ip /\ L.node = at[p].node /\ L.mac = at[p].mac
        /\ L.index = index /\ L.body = at[p].body /\ L.hit = at[p].hit
    BY <1>2, <1>5 DEF Local
  <2>3. at'[p] = L BY <2>1, AloneOwn
  <2> HIDE DEF L
  <2>4. Ahead(p)' = Ahead(p) BY <2>2, <2>3 DEF Ahead
  <2>5. Control(p)' BY <1>2, <1>3, <2>2, <2>3 DEF Control, Asks
  <2>6. Flagged(p)' BY <1>1, <1>2, <1>3, <2>2, <2>3 DEF Flagged, Filled, Asks
  <2>7. BufferKept(p)' BY <1>1, <1>2, <1>3, <2>2, <2>3 DEF BufferKept
  <2>8. HeaderKept(p)'
    <3>1. ASSUME at[p].job = "announcement", "ip" \notin at[p].hit PROVE FALSE
      <4>1. p = UI /\ at[p].ip = MyIP[at[p].out] BY <1>2, <1>3, <3>1 DEF Control
      <4>2. at[p].out \in Ahead(p) BY <1>2 DEF Ahead
      <4>3. ipHeader[at[p].out] = [src |-> MyIP[at[p].out], dst |-> at[p].ip]
        BY <1>1, <1>2, <3>1, <4>2 DEF HeaderKept, Asks
      <4>4. QED BY <1>7, <4>1, <4>3 DEF Asking
    <3>2. QED
      BY <1>1, <1>2, <1>3, <2>2, <2>3, <2>4, <3>1 DEF HeaderKept, Filled, Asks
  <2>9. IndexKept(p)'
    <3> SUFFICES ASSUME at[p].hit \cap {"table", "ip", "buffer"} = {}, index # 0
                 PROVE  index \in DOMAIN table /\ table[index].ip = Found(p)'
      BY <1>1, <2>2, <2>3 DEF IndexKept, Uses
    <3>1. index \in DOMAIN table BY <1>2, <1>4 DEF SharedTypes
    <3>2. at[p].job # "announcement"
      <4>1. "ip" \notin at'[p].hit BY <2>2, <2>3
      <4>2. QED BY <2>2, <2>3, <2>8, <4>1 DEF HeaderKept, Asks
    <3>3. Asking(p).dst = Wanted(p)
      <4>1. at[p].hit \cap {"ip", "buffer"} = {} OBVIOUS
      <4>2. QED BY <1>1, <1>2, <4>1, AskingKept
    <3>4. CASE at[p].job = "user"
      BY <1>4, <2>2, <2>3, <3>1, <3>3, <3>4 DEF Found, Wanted
    <3>5. CASE at[p].job = "hop"
      <4>1. at[p].node = Asking(p).dst BY <1>3, <3>5 DEF Asking
      <4>2. Found(p)' = at[p].node BY <2>2, <2>3, <3>5 DEF Found
      <4>3. QED BY <1>4, <3>1, <4>1, <4>2
    <3>6. QED BY <1>3, <3>2, <3>4, <3>5
  <2>10. MessageKept(p)' /\ FrameKept(p)' BY <2>2, <2>3 DEF MessageKept, FrameKept
  <2>11. MissKept(p)'
    <3> SUFFICES ASSUME index = 0, at[p].hit \cap {"ip", "buffer", "table", "miss"} = {},
                        NEW i \in DOMAIN table
                 PROVE  table[i].ip # at[p].node
      BY <1>1, <2>2, <2>3 DEF MissKept
    <3>1. at[p].hit \cap {"ip", "buffer"} = {} OBVIOUS
    <3>2. Asking(p).dst = Wanted(p) BY <1>1, <1>2, <3>1, AskingKept
    <3>3. at[p].node = Wanted(p)
      BY <1>1, <1>2, <1>3, <3>1 DEF HeaderKept, Filled, Asks, Wanted
    <3>4. \A j \in DOMAIN table : table[j].ip # Asking(p).dst BY <1>4
    <3>5. QED BY <3>2, <3>3, <3>4
  <2>12. Right(p)' BY <2>5, <2>6, <2>7, <2>8, <2>9, <2>10, <2>11 DEF Right
  <2>13. QED BY <1>1, <2>1, <2>2, <2>12, AloneInv
<1>8. QED BY <1>6, <1>7

LEMMA SetRequestInv ==
  ASSUME IInv, NEW p \in Process, SetRequest(p)
  PROVE  IInv'
<1> DEFINE out == at[p].out
<1> DEFINE request == [op |-> "request", src |-> Asking(p).src, dst |-> Asking(p).dst,
                       mac |-> at[p].mac]
<1> DEFINE L == Goto(p, "data")
<1>1. /\ at[p].pc = "message"
      /\ Step(p, L, "arp", {out})
      /\ arpHeader' = [arpHeader EXCEPT ![out] = request]
      /\ UNCHANGED <<table, is_Garp, ipHeader, frame, data, frames, clicks>>
  BY DEF SetRequest
<1>2. /\ at[p] \in Local /\ SharedTypes /\ out \in Iface
      /\ Control(p) /\ Flagged(p) /\ BufferKept(p) /\ HeaderKept(p) /\ FrameKept(p)
  BY Start
<1>3. at[p].job \in {"user", "announcement", "hop"} /\ (p = UI <=> at[p].job # "hop")
  BY <1>1, <1>2, Askers
<1>4. request \in Body
  <2>1. at[p].mac \in MAC /\ at[p].node \in IPAddr BY <1>2 DEF Local
  <2>2. ipHeader[out] \in [src : IPAddr, dst : IPAddr] BY <1>2 DEF SharedTypes
  <2>3. Asking(p).src \in IPAddr /\ Asking(p).dst \in IPAddr
    BY <1>2, <2>1, <2>2, Interfaces DEF Asking
  <2>4. QED BY <2>1, <2>3 DEF Body
<1>5. /\ L \in Local /\ L.pc = "data" /\ L.job = at[p].job /\ L.out = at[p].out
      /\ L.ip = at[p].ip /\ L.node = at[p].node /\ L.mac = at[p].mac
      /\ L.body = at[p].body /\ L.hit = at[p].hit
  BY <1>2 DEF Local, Goto
<1>6. at'[p] = L BY <1>1, StepOwn
<1> HIDE DEF L
<1>7. Right(p)'
  <2>1. Control(p)' BY <1>2, <1>3, <1>5, <1>6 DEF Control, Asks
  <2>2. Flagged(p)' BY <1>1, <1>2, <1>3, <1>5, <1>6 DEF Flagged, Filled, Asks
  <2>3. BufferKept(p)' BY <1>1, <1>2, <1>3, <1>5, <1>6 DEF BufferKept
  <2>4. Ahead(p)' = Ahead(p) BY <1>5, <1>6 DEF Ahead
  <2>5. HeaderKept(p)'
    BY <1>1, <1>2, <1>3, <1>5, <1>6, <2>4 DEF HeaderKept, Filled, Asks
  <2>6. IndexKept(p)' /\ MissKept(p)' BY <1>3, <1>5, <1>6 DEF IndexKept, MissKept, Uses
  <2>7. MessageKept(p)'
    <3> SUFFICES ASSUME at[p].hit = {}
                 PROVE  arpHeader'[out] = [op |-> "request", src |-> MyIP[out],
                                           dst |-> Wanted(p)', mac |-> at[p].mac]
      BY <1>5, <1>6 DEF MessageKept
    <3>1. Wanted(p)' = Wanted(p) BY <1>5, <1>6 DEF Wanted
    <3>2. at[p].hit \cap {"ip", "buffer"} = {} OBVIOUS
    <3>3. Asking(p).src = MyIP[out] /\ Asking(p).dst = Wanted(p)
      BY <1>1, <1>2, <3>2, AskingKept
    <3>4. arpHeader'[out] = request BY <1>1, <1>2 DEF SharedTypes
    <3>5. QED BY <3>1, <3>3, <3>4
  <2>8. FrameKept(p)' BY <1>1, <1>2, <1>3, <1>5, <1>6 DEF FrameKept
  <2>9. QED BY <2>1, <2>2, <2>3, <2>5, <2>6, <2>7, <2>8 DEF Right
<1>8. SharedOK'
  <2>1. arpHeader' \in [Iface -> Body] BY <1>1, <1>2, <1>4 DEF SharedTypes
  <2>2. SharedTypes' BY <1>1, <1>2, <2>1 DEF SharedTypes
  <2>3. NoZero /\ Entered BY DEF IInv, SharedOK
  <2>4. NoZero' /\ Entered' BY <1>1, <2>3 DEF NoZero, Entered, StoredAsMeant, CopiesStray
  <2>5. QED BY <2>2, <2>4 DEF SharedOK
<1>9. Only("arp", {out}) BY <1>1, <1>2 DEF Only, Covered, SharedTypes
<1>10. "arp" \in Shared /\ {out} \in SUBSET Iface BY <1>2 DEF Shared
<1>11. is_Garp' = is_Garp BY <1>1
<1>12. QED BY <1>1, <1>5, <1>7, <1>8, <1>9, <1>10, <1>11, StepInv

\* What every property of the table's entries asks of one of them.
EntryOK(node) ==
  /\ ~node.hit => node.ip = node.meant /\ node.by # "announcement"
  /\ node.by = "user" => node.mac # ZeroMAC

LEMMA Entries ==
  ASSUME table \in Seq(Node), table' \in Seq(Node)
  PROVE  /\ StoredAsMeant <=> \A i \in 1 .. Len(table) : EntryOK(table[i])
         /\ StoredAsMeant' <=> \A i \in 1 .. Len(table') : EntryOK(table'[i])
<1>1. DOMAIN table = 1 .. Len(table) /\ DOMAIN table' = 1 .. Len(table') OBVIOUS
<1>2. QED BY <1>1 DEF StoredAsMeant, EntryOK

LEMMA AppendInv ==
  ASSUME SharedTypes, Entered, NEW node \in Node, EntryOK(node),
         ~node.stray => \A i \in DOMAIN table : table[i].ip = node.ip => table[i].stray,
         table' = Append(table, node)
  PROVE  /\ table' \in Seq(Node) /\ Entered'
         /\ \A i \in DOMAIN table : i \in DOMAIN table' /\ table'[i].ip = table[i].ip
<1>1. table \in Seq(Node) /\ StoredAsMeant /\ CopiesStray BY DEF SharedTypes, Entered
<1>2. table' \in Seq(Node) /\ Len(table') = Len(table) + 1 BY <1>1
<1>3. \A j \in 1 .. Len(table') : table'[j] = IF j = Len(table) + 1 THEN node ELSE table[j]
  BY <1>1, <1>2
<1>4. StoredAsMeant'
  <2>1. \A j \in 1 .. Len(table') : EntryOK(table'[j])
    BY <1>1, <1>2, <1>3, Entries
  <2>2. QED BY <1>1, <1>2, <2>1, Entries
<1>5. CopiesStray'
  <2> SUFFICES ASSUME NEW j \in 1 .. Len(table'), NEW k \in 1 .. Len(table'), j # k,
                      table'[j].ip = table'[k].ip, ~table'[j].stray, ~table'[k].stray
               PROVE  FALSE
    BY <1>2 DEF CopiesStray
  <2>1. DOMAIN table = 1 .. Len(table) /\ Len(table) \in Nat BY <1>1
  <2>2. CASE j = Len(table) + 1
    <3>1. k \in DOMAIN table /\ table'[j] = node /\ table'[k] = table[k]
      BY <1>2, <1>3, <2>1, <2>2
    <3>2. QED BY <3>1
  <2>3. CASE k = Len(table) + 1
    <3>1. j \in DOMAIN table /\ table'[k] = node /\ table'[j] = table[j]
      BY <1>2, <1>3, <2>1, <2>3
    <3>2. QED BY <3>1
  <2>4. CASE j # Len(table) + 1 /\ k # Len(table) + 1
    <3>1. /\ j \in DOMAIN table /\ table'[j] = table[j]
          /\ k \in DOMAIN table /\ table'[k] = table[k]
      BY <1>2, <1>3, <2>1, <2>4
    <3>2. QED BY <1>1, <3>1 DEF CopiesStray
  <2>5. QED BY <2>2, <2>3, <2>4
<1>6. QED BY <1>1, <1>2, <1>3, <1>4, <1>5 DEF Entered

LEMMA ReplaceInv ==
  ASSUME SharedTypes, Entered, NEW node \in Node, EntryOK(node), NEW i \in DOMAIN table,
         ~node.stray => ~table[i].stray /\ table[i].ip = node.ip,
         table' = [table EXCEPT ![i] = node]
  PROVE  /\ table' \in Seq(Node) /\ Entered' /\ Covered /\ Len(table') = Len(table)
         /\ table'[i].ip = node.ip
         /\ \A j \in DOMAIN table :
              j \in DOMAIN table' /\ (j # i => table'[j].ip = table[j].ip)
<1>1. table \in Seq(Node) /\ StoredAsMeant /\ CopiesStray BY DEF SharedTypes, Entered
<1>2. table' \in Seq(Node) /\ Len(table') = Len(table) BY <1>1
<1>3. \A j \in 1 .. Len(table') : table'[j] = IF j = i THEN node ELSE table[j]
  BY <1>1, <1>2
<1>4. StoredAsMeant'
  <2>1. \A j \in 1 .. Len(table') : EntryOK(table'[j])
    BY <1>1, <1>2, <1>3, Entries
  <2>2. QED BY <1>1, <1>2, <2>1, Entries
<1>5. DOMAIN table = 1 .. Len(table') /\ DOMAIN table' = 1 .. Len(table') BY <1>1, <1>2
<1>6. ASSUME NEW j \in 1 .. Len(table'), ~table'[j].stray
      PROVE  ~table[j].stray /\ table[j].ip = table'[j].ip
  BY <1>3, <1>6
<1>7. CopiesStray' BY <1>1, <1>5, <1>6 DEF CopiesStray
<1>8. Covered BY <1>5, <1>6 DEF Covered
<1>9. QED BY <1>1, <1>2, <1>3, <1>4, <1>5, <1>7, <1>8 DEF Entered

LEMMA StoreInv ==
  ASSUME IInv, NEW p \in Process, Store(p)
  PROVE  IInv'
<1> DEFINE index == at[p].index
<1> DEFINE disturbed == at[p].hit \cap {"ip", "buffer"} # {}
<1> DEFINE stray == \/ at[p].hit \cap {"ip", "buffer", "table", "miss"} # {}
                    \/ index \in DOMAIN table /\ table[index].stray
<1> DEFINE node == NewNode(p)
<1> DEFINE object == IF index = 0 THEN "miss" ELSE "table"
<1> DEFINE fs == {f \in Iface : \/ index = 0
                                \/ index \in DOMAIN table /\ table[index].ip # at[p].node}
<1> DEFINE L == [at[p] EXCEPT !.pc = "dest", !.index = 0]
<1>1. /\ at[p].pc = "store" /\ at[p].job # "heard"
      /\ table' = IF index = 0 THEN Append(table, node)
                  ELSE IF index \in DOMAIN table THEN ReplaceAt(table, index, node)
                  ELSE table
      /\ Len(table') <= MaxEntries
      /\ Step(p, L, object, fs)
      /\ UNCHANGED <<is_Garp, headers, data, frames, clicks>>
  BY DEF Store, Stored
<1>2. /\ at[p] \in Local /\ SharedTypes /\ at[p].out \in Iface
      /\ Control(p) /\ Flagged(p) /\ BufferKept(p) /\ HeaderKept(p)
      /\ IndexKept(p) /\ MissKept(p)
  BY Start
<1>3. at[p].job \in {"user", "announcement", "hop"} /\ (p = UI <=> at[p].job # "hop")
  BY <1>1, <1>2 DEF Control
<1>4. NoZero /\ Entered BY DEF IInv, SharedOK
<1>5. disturbed \in BOOLEAN /\ (~disturbed => "ip" \notin at[p].hit /\ "buffer" \notin at[p].hit)
  OBVIOUS
<1> HIDE DEF disturbed
<1>6. stray \in BOOLEAN
  <2>1. CASE index \in DOMAIN table
    <3>1. table[index] \in Node BY <1>2, <2>1 DEF SharedTypes
    <3>2. table[index].stray \in BOOLEAN BY <3>1 DEF Node
    <3>3. QED BY <3>2
  <2>2. CASE index \notin DOMAIN table BY <2>2
  <2>3. QED BY <2>1, <2>2
<1>7. ~stray => /\ at[p].hit \cap {"ip", "buffer", "table", "miss"} = {}
                /\ "ip" \notin at[p].hit /\ "buffer" \notin at[p].hit
                /\ at[p].hit \cap {"table", "ip", "buffer"} = {}
                /\ index \in DOMAIN table => ~table[index].stray
  OBVIOUS
<1> HIDE DEF stray
<1>8. /\ node \in Node /\ node.ip = at[p].node /\ node.mac = at[p].mac
      /\ node.by = at[p].job /\ node.meant = Wanted(p)
      /\ node.hit = disturbed /\ node.stray = stray
  <2>1. Hop[at[p].ip] \in IPAddr \/ at[p].job # "hop" BY <1>2, Interfaces DEF Control
  <2>2. at[p].ip \in IPAddr /\ at[p].node \in IPAddr /\ at[p].mac \in MAC BY <1>2 DEF Local
  <2>3. (IF at[p].job = "hop" THEN Hop[at[p].ip] ELSE at[p].ip) \in IPAddr BY <2>1, <2>2
  <2>4. node = [ip |-> at[p].node, mac |-> at[p].mac, by |-> at[p].job,
                meant |-> IF at[p].job = "hop" THEN Hop[at[p].ip] ELSE at[p].ip,
                hit |-> disturbed, stray |-> stray]
    BY DEF NewNode, disturbed, stray
  <2>5. node \in Node BY <1>3, <1>5, <1>6, <2>2, <2>3, <2>4 DEF Node
  <2>6. QED BY <2>4, <2>5 DEF Wanted
<1> HIDE DEF node
<1>9. EntryOK(node)
  <2>1. at[p].job = "user" => at[p].mac # ZeroMAC
    BY <1>1, <1>2, ThreadAssumption DEF Flagged, Filled, Asks
  <2>2. ~disturbed => at[p].node = Wanted(p) /\ at[p].job # "announcement"
    BY <1>1, <1>2, <1>3, <1>5 DEF HeaderKept, Filled, Asks, Wanted
  <2>3. QED BY <1>8, <2>1, <2>2 DEF EntryOK
<1>10. /\ L \in Local /\ L.pc = "dest" /\ L.job = at[p].job /\ L.out = at[p].out
       /\ L.ip = at[p].ip /\ L.node = at[p].node /\ L.mac = at[p].mac
       /\ L.body = at[p].body /\ L.hit = at[p].hit
  <2>1. 0 \in 0 .. MaxEntries BY Interfaces
  <2>2. QED BY <1>2, <2>1 DEF Local
<1>11. at'[p] = L BY <1>1, StepOwn
<1> HIDE DEF L
<1>12. /\ ipHeader' = ipHeader /\ arpHeader' = arpHeader /\ frame' = frame
       /\ is_Garp' = is_Garp
  BY <1>1 DEF headers
<1>13. Right(p)'
  <2>1. Control(p)' BY <1>2, <1>3, <1>10, <1>11 DEF Control, Asks
  <2>2. Flagged(p)' BY <1>1, <1>2, <1>3, <1>10, <1>11, <1>12 DEF Flagged, Filled, Asks
  <2>3. BufferKept(p)' BY <1>1, <1>2, <1>3, <1>10, <1>11 DEF BufferKept
  <2>4. Ahead(p)' = Ahead(p) BY <1>10, <1>11 DEF Ahead
  <2>5. HeaderKept(p)'
    BY <1>1, <1>2, <1>3, <1>10, <1>11, <1>12, <2>4 DEF HeaderKept, Filled, Asks
  <2>6. IndexKept(p)' BY <1>3, <1>10, <1>11 DEF IndexKept, Uses
  <2>7. MissKept(p)' /\ MessageKept(p)' /\ FrameKept(p)'
    BY <1>10, <1>11 DEF MissKept, MessageKept, FrameKept
  <2>8. QED BY <2>1, <2>2, <2>3, <2>5, <2>6, <2>7 DEF Right
<1>14. /\ ~stray /\ index = 0 =>
            \A i \in DOMAIN table : table[i].ip = node.ip => table[i].stray
       /\ ~stray /\ index \in DOMAIN table =>
            ~table[index].stray /\ table[index].ip = node.ip
  <2> SUFFICES ASSUME ~stray
               PROVE  /\ index = 0 =>
                           \A i \in DOMAIN table : table[i].ip = at[p].node => table[i].stray
                      /\ index \in DOMAIN table =>
                           ~table[index].stray /\ table[index].ip = at[p].node
    BY <1>8
  <2>1. index = 0 => \A i \in DOMAIN table : table[i].ip = at[p].node => table[i].stray
    BY <1>1, <1>2, <1>7 DEF MissKept
  <2>2. at[p].job \in {"user", "hop"} BY <1>1, <1>2, <1>3, <1>7 DEF HeaderKept, Asks
  <2>3. Found(p) = at[p].node BY <1>1, <1>2, <1>7, <2>2 DEF Found, HeaderKept, Asks
  <2>4. index # 0 => table[index].ip = at[p].node
    BY <1>1, <1>2, <1>7, <2>3 DEF IndexKept, Uses
  <2>5. index \in DOMAIN table => index # 0 BY <1>2 DEF SharedTypes
  <2>6. QED BY <1>7, <2>1, <2>4, <2>5
<1>15. /\ table' \in Seq(Node) /\ Entered'
       /\ (index = 0 /\ fs # {}) \/ Covered
       /\ \/ index # 0 /\ fs # {}
          \/ \A i \in DOMAIN table : i \in DOMAIN table' /\ table'[i].ip = table[i].ip
  <2>1. CASE index = 0
    <3>1. table' = Append(table, node) BY <1>1, <2>1
    <3>2. at[p].out \in fs BY <1>2, <2>1
    <3>3. ~node.stray => \A i \in DOMAIN table : table[i].ip = node.ip => table[i].stray
      BY <1>8, <1>14, <2>1
    <3>4. /\ table' \in Seq(Node) /\ Entered'
          /\ \A i \in DOMAIN table : i \in DOMAIN table' /\ table'[i].ip = table[i].ip
      BY <1>2, <1>4, <1>8, <1>9, <3>1, <3>3, AppendInv
    <3>5. QED BY <2>1, <3>2, <3>4
  <2>2. CASE index # 0 /\ index \in DOMAIN table
    <3>1. table' = [table EXCEPT ![index] = node] BY <1>1, <2>2 DEF ReplaceAt
    <3>2. ~node.stray => ~table[index].stray /\ table[index].ip = node.ip
      BY <1>8, <1>14, <2>2
    <3>3. /\ table' \in Seq(Node) /\ Entered' /\ Covered
          /\ table'[index].ip = at[p].node
          /\ \A j \in DOMAIN table :
               j \in DOMAIN table' /\ (j # index => table'[j].ip = table[j].ip)
      BY <1>2, <1>4, <1>8, <1>9, <2>2, <3>1, <3>2, ReplaceInv
    <3>4. CASE table[index].ip # at[p].node
      <4>1. at[p].out \in fs BY <1>2, <2>2, <3>4
      <4>2. QED BY <2>2, <3>3, <4>1
    <3>5. CASE table[index].ip = at[p].node
      BY <3>3, <3>5
    <3>6. QED BY <3>4, <3>5
  <2>3. CASE index # 0 /\ index \notin DOMAIN table
    <3>1. table' = table BY <1>1, <2>3
    <3>2. Entered' BY <1>4, <3>1 DEF Entered, StoredAsMeant, CopiesStray
    <3>3. Covered BY <3>1 DEF Covered
    <3>4. QED BY <1>2, <3>1, <3>2, <3>3 DEF SharedTypes
  <2>4. QED BY <2>1, <2>2, <2>3
<1>16. SharedOK'
  <2>1. SharedTypes' BY <1>1, <1>2, <1>12, <1>15 DEF SharedTypes
  <2>2. NoZero' BY <1>1, <1>4 DEF NoZero
  <2>3. QED BY <1>15, <2>1, <2>2 DEF SharedOK
<1>17. /\ fs \in SUBSET Iface /\ object \in Shared
       /\ index = 0 => object = "miss"
       /\ index # 0 => object = "table"
  BY DEF Shared
<1> HIDE DEF fs, object
<1>18. data' = data BY <1>1
<1>19. Only(object, fs) BY <1>12, <1>15, <1>17, <1>18 DEF Only
<1>20. QED BY <1>1, <1>10, <1>12, <1>13, <1>16, <1>17, <1>19, StepInv

LEMMA SetDestinInv ==
  ASSUME IInv, NEW p \in Process, SetDestinAndType(p)
  PROVE  IInv'
<1> DEFINE out == at[p].out
<1> DEFINE job == at[p].job
<1>1. /\ at[p].pc = "dest"
      /\ UNCHANGED <<table, is_Garp, ipHeader, arpHeader, data, frames, clicks>>
  BY DEF SetDestinAndType
<1>2. PICK mac \in Destination(p) :
        /\ frame' = [frame EXCEPT ![out].dst = mac,
                                  ![out].type = CASE job = "forward" -> "IP"
                                                  [] job = "heard" -> @
                                                  [] OTHER -> "ARP"]
        /\ Step(p, [at[p] EXCEPT !.pc = IF job \in {"forward", "heard"} THEN "data" ELSE "message",
                                 !.mac = mac, !.index = 0],
                "frame", {out})
  BY DEF SetDestinAndType
<1> DEFINE pc == IF job \in {"forward", "heard"} THEN "data" ELSE "message"
<1> DEFINE type == CASE job = "forward" -> "IP"
                     [] job = "heard" -> frame[out].type
                     [] OTHER -> "ARP"
<1> DEFINE L == [at[p] EXCEPT !.pc = pc, !.mac = mac, !.index = 0]
<1>3. /\ at[p] \in Local /\ SharedTypes /\ out \in Iface
      /\ Control(p) /\ Flagged(p) /\ BufferKept(p) /\ HeaderKept(p)
  BY Start
<1>4. job \in {"user", "announcement", "hop", "forward", "heard"}
  BY <1>1, <1>3 DEF Control
<1>5. mac \in MAC
  <2>1. at[p].mac \in MAC BY <1>3 DEF Local
  <2>2. Message(p).mac \in MAC BY <1>3, Readings DEF Body
  <2>3. at[p].index \in DOMAIN table => table[at[p].index].mac \in MAC
    <3> SUFFICES ASSUME at[p].index \in DOMAIN table PROVE table[at[p].index].mac \in MAC
      OBVIOUS
    <3>1. table[at[p].index] \in Node BY <1>3 DEF SharedTypes
    <3>2. QED BY <3>1 DEF Node
  <2>4. CASE job \in {"user", "announcement", "hop"} BY <2>1, <2>4 DEF Destination
  <2>5. CASE job = "forward" BY <2>3, <2>5 DEF Destination
  <2>6. CASE job = "heard" BY <2>2, <2>6 DEF Destination
  <2>7. QED BY <1>4, <2>4, <2>5, <2>6
<1>6. /\ job \in {"user", "announcement", "hop"} => mac = at[p].mac
      /\ job = "heard" /\ "buffer" \notin at[p].hit => mac = PeerMAC[at[p].ip]
  <2>1. CASE job \in {"user", "announcement", "hop"} BY <2>1 DEF Destination
  <2>2. CASE job = "heard" /\ "buffer" \notin at[p].hit
    <3>1. data[In(p)] = ReplyTo(at[p].ip) BY <1>1, <1>3, <2>2 DEF BufferKept
    <3>2. Message(p).mac = PeerMAC[at[p].ip] BY <3>1 DEF Message, ReplyTo
    <3>3. QED BY <2>2, <3>2 DEF Destination
  <2>3. QED BY <2>1, <2>2
<1>7. /\ frame' \in [Iface -> [dst : MAC, type : {"none", "ARP", "IP"}, body : Body]]
      /\ frame'[out].dst = mac /\ frame'[out].type = type
      /\ \A f \in Iface \ {out} : frame'[f] = frame[f]
  <2>1. frame \in [Iface -> [dst : MAC, type : {"none", "ARP", "IP"}, body : Body]]
    BY <1>3 DEF SharedTypes
  <2>2. type \in {"none", "ARP", "IP"}
    <3>1. frame[out].type \in {"none", "ARP", "IP"} BY <1>3, <2>1
    <3>2. QED BY <1>4, <3>1
  <2>3. ASSUME NEW h \in [dst : MAC, type : {"none", "ARP", "IP"}, body : Body]
        PROVE  LET g == [h EXCEPT !.dst = mac, !.type = type]
               IN  /\ g \in [dst : MAC, type : {"none", "ARP", "IP"}, body : Body]
                   /\ g.dst = mac /\ g.type = type
    BY <1>5, <2>2
  <2>4. frame[out] \in [dst : MAC, type : {"none", "ARP", "IP"}, body : Body] BY <1>3, <2>1
  <2>5. frame' = [frame EXCEPT ![out] = [frame[out] EXCEPT !.dst = mac, !.type = type]]
    BY <1>2, <1>3, <2>1, <2>4
  <2> HIDE DEF type
  <2>6. QED BY <1>3, <2>1, <2>3, <2>4, <2>5
<1>8. Step(p, L, "frame", {out}) BY <1>2
<1>9. pc \in {"data", "message"} /\ (pc = "data" <=> job \in {"forward", "heard"}) OBVIOUS
<1> HIDE DEF pc
<1>10. /\ L \in Local /\ L.pc = pc /\ L.job = job /\ L.out = out
       /\ L.ip = at[p].ip /\ L.node = at[p].node /\ L.mac = mac
       /\ L.body = at[p].body /\ L.hit = at[p].hit
  <2>1. 0 \in 0 .. MaxEntries BY Interfaces
  <2>2. QED BY <1>3, <1>5, <1>9, <2>1 DEF Local
<1>11. at'[p] = L BY <1>8, StepOwn
<1> HIDE DEF L
<1>12. Right(p)'
  <2>1. Control(p)' BY <1>3, <1>4, <1>9, <1>10, <1>11 DEF Control, Asks
  <2>2. Flagged(p)' BY <1>1, <1>3, <1>4, <1>6, <1>10, <1>11 DEF Flagged, Filled, Asks
  <2>3. BufferKept(p)' BY <1>1, <1>3, <1>4, <1>9, <1>10, <1>11 DEF BufferKept
  <2>4. Ahead(p)' = Ahead(p) BY <1>10, <1>11 DEF Ahead
  <2>5. HeaderKept(p)'
    BY <1>1, <1>3, <1>4, <1>9, <1>10, <1>11, <2>4 DEF HeaderKept, Filled, Asks
  <2>6. IndexKept(p)' /\ MissKept(p)' BY <1>9, <1>10, <1>11 DEF IndexKept, MissKept, Uses
  <2>7. MessageKept(p)' BY <1>9, <1>10, <1>11 DEF MessageKept
  <2>8. FrameKept(p)' BY <1>4, <1>6, <1>7, <1>9, <1>10, <1>11 DEF FrameKept
  <2>9. QED BY <2>1, <2>2, <2>3, <2>5, <2>6, <2>7, <2>8 DEF Right
<1>13. SharedOK'
  <2>1. SharedTypes' BY <1>1, <1>3, <1>7 DEF SharedTypes
  <2>2. NoZero /\ Entered BY DEF IInv, SharedOK
  <2>3. NoZero' /\ Entered' BY <1>1, <2>2 DEF NoZero, Entered, StoredAsMeant, CopiesStray
  <2>4. QED BY <2>1, <2>3 DEF SharedOK
<1>14. Only("frame", {out}) BY <1>1, <1>7 DEF Only, Covered
<1>15. "frame" \in Shared /\ {out} \in SUBSET Iface /\ is_Garp' = is_Garp
  BY <1>1, <1>3 DEF Shared
<1>16. QED BY <1>8, <1>10, <1>12, <1>13, <1>14, <1>15, StepInv

LEMMA CopyDataInv ==
  ASSUME IInv, NEW p \in Process, CopyData(p)
  PROVE  IInv'
<1> DEFINE out == at[p].out
<1> DEFINE job == at[p].job
<1> DEFINE body == CASE job = "forward" -> at[p].body
                     [] job = "heard" -> data[In(p)]
                     [] OTHER -> arpHeader[out]
<1> DEFINE L == Goto(p, "pcap")
<1> DEFINE Header == [dst : MAC, type : {"none", "ARP", "IP"}, body : Body]
<1>1. /\ at[p].pc = "data"
      /\ frame' = [frame EXCEPT ![out].body = body]
      /\ Step(p, L, "frame", {out})
      /\ UNCHANGED <<table, is_Garp, ipHeader, arpHeader, data, frames, clicks>>
  BY DEF CopyData
<1>2. /\ at[p] \in Local /\ SharedTypes /\ out \in Iface
      /\ Control(p) /\ Flagged(p) /\ BufferKept(p) /\ HeaderKept(p) /\ MessageKept(p)
      /\ FrameKept(p)
  BY Start
<1>3. job \in {"user", "announcement", "hop", "forward", "heard"}
  BY <1>1, <1>2 DEF Control
<1>4. body \in Body
  <2>1. at[p].body \in Body BY <1>2 DEF Local
  <2>2. data[In(p)] \in Body BY <1>2, Readings
  <2>3. arpHeader[out] \in Body BY <1>2 DEF SharedTypes
  <2>4. QED BY <2>1, <2>2, <2>3
<1>5. /\ job = "forward" => body = at[p].body
      /\ job = "heard" => body = data[In(p)]
      /\ job \in {"user", "announcement", "hop"} => body = arpHeader[out]
  OBVIOUS
<1> HIDE DEF body
<1>6. /\ frame \in [Iface -> Header] /\ frame' \in [Iface -> Header]
      /\ frame'[out] = [dst |-> frame[out].dst, type |-> frame[out].type, body |-> body]
      /\ \A f \in Iface \ {out} : frame'[f] = frame[f]
  <2>1. frame \in [Iface -> Header] BY <1>2 DEF SharedTypes
  <2>2. ASSUME NEW h \in Header
        PROVE  /\ [h EXCEPT !.body = body] \in Header
               /\ [h EXCEPT !.body = body] = [dst |-> h.dst, type |-> h.type, body |-> body]
    BY <1>4
  <2>3. frame[out] \in Header BY <1>2, <2>1
  <2>4. frame' = [frame EXCEPT ![out] = [frame[out] EXCEPT !.body = body]]
    BY <1>1, <1>2, <2>1
  <2> HIDE DEF Header
  <2>5. QED BY <1>2, <2>1, <2>2, <2>3, <2>4
<1>7. /\ L \in Local /\ L.pc = "pcap" /\ L.job = job /\ L.out = out
      /\ L.ip = at[p].ip /\ L.node = at[p].node /\ L.mac = at[p].mac
      /\ L.body = at[p].body /\ L.hit = at[p].hit
  BY <1>2 DEF Local, Goto
<1>8. at'[p] = L BY <1>1, StepOwn
<1> HIDE DEF L
<1>9. Right(p)'
  <2>1. Control(p)' BY <1>2, <1>3, <1>7, <1>8 DEF Control, Asks
  <2>2. Flagged(p)' BY <1>1, <1>2, <1>3, <1>7, <1>8 DEF Flagged, Filled, Asks
  <2>3. BufferKept(p)' BY <1>1, <1>2, <1>3, <1>7, <1>8 DEF BufferKept
  <2>4. Ahead(p)' = Ahead(p) BY <1>7, <1>8 DEF Ahead
  <2>5. HeaderKept(p)'
    BY <1>1, <1>2, <1>3, <1>7, <1>8, <2>4 DEF HeaderKept, Filled, Asks
  <2>6. IndexKept(p)' /\ MissKept(p)' BY <1>3, <1>7, <1>8 DEF IndexKept, MissKept, Uses
  <2>7. MessageKept(p)' BY <1>7, <1>8 DEF MessageKept
  <2>8. FrameKept(p)'
    <3> SUFFICES ASSUME at[p].hit = {} PROVE frame'[out] \in Meant(p)'
      BY <1>7, <1>8 DEF FrameKept
    <3>1. "buffer" \notin at[p].hit OBVIOUS
    <3>2. ASSUME job \in {"user", "announcement", "hop"}
          PROVE  frame'[out] = [dst |-> at[p].mac, type |-> "ARP",
                   body |-> [op |-> "request", src |-> MyIP[out], dst |-> Wanted(p),
                             mac |-> at[p].mac]]
      <4>1. frame[out].type = "ARP" /\ frame[out].dst = at[p].mac
        BY <1>1, <1>2, <3>2 DEF FrameKept
      <4>2. arpHeader[out] = [op |-> "request", src |-> MyIP[out], dst |-> Wanted(p),
                              mac |-> at[p].mac]
        BY <1>1, <1>2, <3>2 DEF MessageKept
      <4>3. QED BY <1>5, <1>6, <3>2, <4>1, <4>2
    <3>3. CASE job = "user"
      <4>1. at[p].mac = Broadcast BY <1>1, <1>2, <3>3 DEF Flagged, Filled, Asks
      <4>2. QED BY <1>7, <1>8, <3>2, <3>3, <4>1 DEF Meant, Wanted
    <3>4. CASE job = "announcement"
      <4>1. at[p].mac = ZeroMAC /\ at[p].ip = MyIP[out]
        BY <1>1, <1>2, <3>4 DEF Flagged, Filled, Asks, Control
      <4>2. QED BY <1>7, <1>8, <3>2, <3>4, <4>1 DEF Meant, Wanted
    <3>5. CASE job = "hop"
      <4>1. at[p].mac \in {Broadcast, ZeroMAC}
        BY <1>1, <1>2, <3>5 DEF Flagged, Filled, Asks
      <4>2. QED BY <1>7, <1>8, <3>2, <3>5, <4>1 DEF Meant, Wanted
    <3>6. CASE job = "forward"
      <4>1. at[p].body \in PacketFor(at[p].ip) BY <1>2, <3>1, <3>6 DEF BufferKept
      <4>2. frame[out].type = "IP" BY <1>1, <1>2, <3>6 DEF FrameKept
      <4>3. frame[out].dst \in MAC BY <1>2, <1>6
      <4>4. frame'[out] = [dst |-> frame[out].dst, type |-> "IP", body |-> at[p].body]
        BY <1>5, <1>6, <3>6, <4>2
      <4>5. Meant(p)' = [dst : MAC, type : {"IP"}, body : PacketFor(at[p].ip)]
        BY <1>7, <1>8, <3>6 DEF Meant, PacketFor
      <4>6. [dst |-> frame[out].dst, type |-> "IP", body |-> at[p].body]
              \in [dst : MAC, type : {"IP"}, body : PacketFor(at[p].ip)]
        BY <4>1, <4>3
      <4>7. QED BY <4>4, <4>5, <4>6
    <3>7. CASE job = "heard"
      <4>1. data[In(p)] = ReplyTo(at[p].ip) BY <1>1, <1>2, <3>1, <3>7 DEF BufferKept
      <4>2. frame[out].dst = PeerMAC[at[p].ip] BY <1>1, <1>2, <3>7 DEF FrameKept
      <4>3. frame[out].type \in {"none", "ARP", "IP"} BY <1>2, <1>6
      <4>4. frame'[out] = [dst |-> PeerMAC[at[p].ip], type |-> frame[out].type,
                           body |-> ReplyTo(at[p].ip)]
        BY <1>5, <1>6, <3>7, <4>1, <4>2
      <4>5. Meant(p)' = [dst : {PeerMAC[at[p].ip]}, type : {"none", "ARP", "IP"},
                         body : {ReplyTo(at[p].ip)}]
        BY <1>7, <1>8, <3>7 DEF Meant, ReplyTo
      <4>6. [dst |-> PeerMAC[at[p].ip], type |-> frame[out].type, body |-> ReplyTo(at[p].ip)]
              \in [dst : {PeerMAC[at[p].ip]}, type : {"none", "ARP", "IP"},
                   body : {ReplyTo(at[p].ip)}]
        BY <4>3
      <4>7. QED BY <4>4, <4>5, <4>6
    <3>8. QED BY <1>3, <3>3, <3>4, <3>5, <3>6, <3>7
  <2>9. QED BY <2>1, <2>2, <2>3, <2>5, <2>6, <2>7, <2>8 DEF Right
<1>10. SharedOK'
  <2>1. SharedTypes' BY <1>1, <1>2, <1>6 DEF SharedTypes
  <2>2. NoZero /\ Entered BY DEF IInv, SharedOK
  <2>3. NoZero' /\ Entered' BY <1>1, <2>2 DEF NoZero, Entered, StoredAsMeant, CopiesStray
  <2>4. QED BY <2>1, <2>3 DEF SharedOK
<1>11. Only("frame", {out}) BY <1>1, <1>6 DEF Only, Covered
<1>12. "frame" \in Shared /\ {out} \in SUBSET Iface /\ is_Garp' = is_Garp
  BY <1>1, <1>2 DEF Shared
<1>13. QED BY <1>1, <1>7, <1>9, <1>10, <1>11, <1>12, StepInv

LEMMA IdleFields ==
  /\ Idle \in Local /\ Idle.pc = "idle" /\ Idle.job = "none" /\ Idle.out = INNER
  /\ Idle.hit = {}
<1>1. NoBody \in Body BY DEF NoBody, Body, IPAddr, MAC
<1>2. 0 \in 0 .. MaxEntries BY Interfaces
<1>3. Unknown \in IPAddr /\ ZeroMAC \in MAC /\ INNER \in Iface BY DEF IPAddr, MAC, Iface
<1>4. QED BY <1>1, <1>2, <1>3 DEF Idle, Local

\* A process that has ended what it did owes nothing.
LEMMA IdleRight ==
  ASSUME NEW p \in Process, at'[p] = Idle, p = UI => is_Garp' = TRUE
  PROVE  Right(p)'
<1>1. at'[p].pc = "idle" /\ at'[p].job = "none" BY IdleFields
<1>2. Control(p)' /\ Flagged(p)' BY <1>1 DEF Control, Flagged, Filled, Asks
<1>3. BufferKept(p)' BY <1>1 DEF BufferKept
<1>4. HeaderKept(p)' /\ MissKept(p)' /\ MessageKept(p)' /\ FrameKept(p)'
  BY <1>1 DEF HeaderKept, MissKept, MessageKept, FrameKept
<1>5. IndexKept(p)' BY <1>1 DEF IndexKept, Uses
<1>6. QED BY <1>2, <1>3, <1>4, <1>5 DEF Right

LEMMA SendInv ==
  ASSUME IInv, NEW p \in Process, Send(p)
  PROVE  IInv'
<1> DEFINE out == at[p].out
<1> DEFINE job == at[p].job
<1>1. /\ at[p].pc = "pcap"
      /\ UNCHANGED <<table, is_Garp, headers, data, frames, clicks>>
      /\ ipHeader' = ipHeader
  BY DEF Send, headers
<1>2. /\ at[p] \in Local /\ SharedTypes /\ out \in Iface
      /\ Control(p) /\ Flagged(p) /\ BufferKept(p) /\ HeaderKept(p)
  BY Start
<1>3. /\ job \in {"user", "announcement", "hop", "forward", "heard"}
      /\ job \in {"user", "announcement"} <=> p = UI
  BY <1>1, <1>2 DEF Control
<1>4. CASE job = "user" /\ out = INNER
  <2> DEFINE L == [at[p] EXCEPT !.pc = "fill", !.out = OUTER, !.mac = ZeroMAC,
                                !.hit = @ \cap {"ip"}]
  <2>1. Alone(p, L) BY <1>4 DEF Send
  <2>2. /\ L \in Local /\ L.pc = "fill" /\ L.job = "user" /\ L.out = OUTER
        /\ L.ip = at[p].ip /\ L.hit = at[p].hit \cap {"ip"}
    BY <1>2, <1>4, Interfaces DEF Local, Iface
  <2>3. at'[p] = L BY <2>1, AloneOwn
  <2> HIDE DEF L
  <2>4. OUTER # INNER /\ OUTER \in Iface BY DEF INNER, OUTER, Iface
  <2>5. Ahead(p)' = {OUTER} /\ Ahead(p) = Iface BY <1>4, <2>2, <2>3, <2>4 DEF Ahead
  <2>6. Control(p)' BY <1>2, <1>3, <1>4, <2>2, <2>3 DEF Control, Asks
  <2>7. Flagged(p)' BY <1>1, <1>2, <1>3, <1>4, <2>2, <2>3 DEF Flagged, Filled, Asks
  <2>8. BufferKept(p)' BY <2>2, <2>3 DEF BufferKept
  <2>9. HeaderKept(p)'
    <3>1. "ip" \notin at'[p].hit => "ip" \notin at[p].hit BY <2>2, <2>3
    <3>2. QED BY <1>1, <1>2, <1>4, <2>2, <2>3, <2>4, <2>5, <3>1 DEF HeaderKept, Asks
  <2>10. IndexKept(p)' BY <2>2, <2>3 DEF IndexKept, Uses
  <2>11. MissKept(p)' /\ MessageKept(p)' /\ FrameKept(p)'
    BY <2>2, <2>3 DEF MissKept, MessageKept, FrameKept
  <2>12. Right(p)' BY <2>6, <2>7, <2>8, <2>9, <2>10, <2>11 DEF Right
  <2>13. QED BY <1>1, <2>1, <2>2, <2>12, AloneInv
<1>5. CASE job = "announcement" /\ out = OUTER
  <2> DEFINE L == [Idle EXCEPT !.pc = "set", !.job = "announcement", !.ip = MyIP[INNER]]
  <2>1. Alone(p, L) BY <1>5 DEF Send, INNER, OUTER
  <2>2. L \in Local /\ L.pc = "set" /\ L.job = "announcement" /\ L.out = INNER
        /\ L.ip = MyIP[INNER]
    <3>1. MyIP[INNER] \in IPAddr BY Interfaces DEF Iface
    <3>2. PICK idle : idle = Idle OBVIOUS
    <3>3. idle \in Local /\ idle.out = INNER BY <3>2, IdleFields
    <3>4. L = [idle EXCEPT !.pc = "set", !.job = "announcement", !.ip = MyIP[INNER]]
      BY <3>2
    <3> HIDE DEF L
    <3>5. QED BY <3>1, <3>3, <3>4 DEF Local
  <2>3. at'[p] = L BY <2>1, AloneOwn
  <2> HIDE DEF L
  <2>4. Control(p)' BY <1>3, <1>5, <2>2, <2>3 DEF Control
  <2>5. Flagged(p)' BY <1>1, <1>2, <1>3, <1>5, <2>2, <2>3 DEF Flagged, Filled, Asks
  <2>6. BufferKept(p)' BY <2>2, <2>3 DEF BufferKept
  <2>7. HeaderKept(p)' BY <2>2, <2>3 DEF HeaderKept, Asks
  <2>8. IndexKept(p)' BY <2>2, <2>3 DEF IndexKept, Uses
  <2>9. MissKept(p)' /\ MessageKept(p)' /\ FrameKept(p)'
    BY <2>2, <2>3 DEF MissKept, MessageKept, FrameKept
  <2>10. Right(p)' BY <2>4, <2>5, <2>6, <2>7, <2>8, <2>9 DEF Right
  <2>11. QED BY <1>1, <2>1, <2>2, <2>10, AloneInv
<1>6. CASE (job = "announcement" /\ out = INNER) \/ job = "hop"
  <2> DEFINE pc == IF job = "hop" THEN "again" ELSE "reset"
  <2> DEFINE L == Goto(p, pc)
  <2>1. Alone(p, L) BY <1>6 DEF Send, INNER, OUTER
  <2>2. pc = (IF job = "hop" THEN "again" ELSE "reset") /\ pc \in {"again", "reset"} OBVIOUS
  <2> HIDE DEF pc
  <2>3. /\ L \in Local /\ L.pc = pc /\ L.job = job /\ L.out = out /\ L.ip = at[p].ip
        /\ L.body = at[p].body /\ L.hit = at[p].hit
    BY <1>2, <2>2 DEF Local, Goto
  <2>4. at'[p] = L BY <2>1, AloneOwn
  <2> HIDE DEF L
  <2>5. Control(p)' BY <1>2, <1>3, <1>6, <2>2, <2>3, <2>4 DEF Control
  <2>6. Flagged(p)' BY <1>1, <1>2, <1>3, <2>2, <2>3, <2>4 DEF Flagged, Filled, Asks
  <2>7. BufferKept(p)' BY <1>1, <1>2, <1>3, <1>6, <2>3, <2>4 DEF BufferKept
  <2>8. HeaderKept(p)' BY <2>2, <2>3, <2>4 DEF HeaderKept, Filled, Asks
  <2>9. IndexKept(p)' BY <2>2, <2>3, <2>4 DEF IndexKept, Uses
  <2>10. MissKept(p)' /\ MessageKept(p)' /\ FrameKept(p)'
    BY <2>2, <2>3, <2>4 DEF MissKept, MessageKept, FrameKept
  <2>11. Right(p)' BY <2>5, <2>6, <2>7, <2>8, <2>9, <2>10 DEF Right
  <2>12. QED BY <1>1, <2>1, <2>3, <2>11, AloneInv
<1>7. CASE (job = "user" /\ out # INNER) \/ job \in {"forward", "heard"}
  <2>1. Alone(p, Idle) BY <1>7 DEF Send
  <2>2. at'[p] = Idle BY <2>1, AloneOwn
  <2>3. p = UI => is_Garp' = TRUE BY <1>1, <1>2, <1>3, <1>7 DEF Flagged, SharedTypes
  <2>4. Right(p)' BY <2>2, <2>3, IdleRight
  <2>5. QED BY <1>1, <2>1, <2>4, IdleFields, AloneInv
<1>8. out \in {INNER, OUTER} BY <1>2 DEF Iface
<1>9. QED BY <1>3, <1>4, <1>5, <1>6, <1>7, <1>8

-----------------------------------------------------------------------------
(* The user. *)

\* A process that has just been given something to do.
StartsAs(L, pc, job, ip, out) ==
  /\ L \in Local /\ L.pc = pc /\ L.job = job /\ L.ip = ip /\ L.out = out /\ L.hit = {}

LEMMA IdleWith ==
  ASSUME NEW pc \in {"set", "header", "learn"},
         NEW job \in {"user", "announcement", "packet", "heard"},
         NEW ip \in IPAddr, NEW out \in Iface
  PROVE  /\ StartsAs([Idle EXCEPT !.pc = pc, !.job = job, !.ip = ip], pc, job, ip, INNER)
         /\ StartsAs([Idle EXCEPT !.pc = pc, !.job = job, !.ip = ip, !.out = out],
                     pc, job, ip, out)
<1>1. PICK idle : idle = Idle OBVIOUS
<1>2. idle \in Local /\ idle.out = INNER /\ idle.hit = {} BY <1>1, IdleFields
<1>3. /\ StartsAs([idle EXCEPT !.pc = pc, !.job = job, !.ip = ip], pc, job, ip, INNER)
      /\ StartsAs([idle EXCEPT !.pc = pc, !.job = job, !.ip = ip, !.out = out],
                  pc, job, ip, out)
  BY <1>2 DEF StartsAs, Local
<1>4. QED BY <1>1, <1>3

\* Nothing but the count changes at a click.
LEMMA ClickKept ==
  ASSUME SharedOK, UNCHANGED <<headers, data, frames>>, NEW L, NEW object, NEW fs,
         Click(L, object, fs)
  PROVE  /\ clicks' \in 0 .. MaxClicks
         /\ ipHeader' = ipHeader /\ arpHeader' = arpHeader /\ frame' = frame
         /\ data' = data /\ frames' = frames /\ NoZero'
<1>1. clicks \in 0 .. MaxClicks BY DEF SharedOK, SharedTypes
<1>2. clicks' \in 0 .. MaxClicks BY <1>1, Interfaces DEF Click
<1>3. NoZero' BY DEF SharedOK, NoZero
<1>4. QED BY <1>2, <1>3 DEF headers

\* The dialog waits, so it is not announcing.
LEMMA Waiting ==
  ASSUME IInv, at[UI].pc = "idle"
  PROVE  at[UI].job = "none" /\ is_Garp = TRUE
<1>1. UI \in Process /\ Control(UI) /\ Flagged(UI) /\ SharedTypes BY Start, Interfaces
<1>2. at[UI].job = "none" BY <1>1 DEF Control, Asks
<1>3. QED BY <1>1, <1>2 DEF Flagged, SharedTypes

\* A process that starts with the dialog's Send relies on nothing yet.
LEMMA SetRight ==
  ASSUME NEW job \in {"user", "announcement"}, NEW ip, NEW out \in Iface,
         StartsAs(at'[UI], "set", job, ip, out),
         job = "user" => ip \in Peer, job = "announcement" => ip = MyIP[out],
         is_Garp' = (job = "user")
  PROVE  Right(UI)'
<1>1. at'[UI].pc = "set" /\ at'[UI].job = job /\ at'[UI].ip = ip /\ at'[UI].out = out
  BY DEF StartsAs
<1>2. Control(UI)' BY <1>1 DEF Control
<1>3. Flagged(UI)' BY <1>1 DEF Flagged, Filled, Asks
<1>4. BufferKept(UI)' BY <1>1 DEF BufferKept
<1>5. HeaderKept(UI)' BY <1>1 DEF HeaderKept, Asks
<1>6. IndexKept(UI)' BY <1>1 DEF IndexKept, Uses
<1>7. MissKept(UI)' /\ MessageKept(UI)' /\ FrameKept(UI)'
    BY <1>1 DEF MissKept, MessageKept, FrameKept
<1>8. QED BY <1>2, <1>3, <1>4, <1>5, <1>6, <1>7 DEF Right

LEMMA SendArpInv ==
  ASSUME IInv, NEW dst \in Asked, OnBnClickedButtonSendArp(dst)
  PROVE  IInv'
<1> DEFINE L == [Idle EXCEPT !.pc = "set", !.job = "user", !.ip = dst]
<1>1. /\ Click(L, "frame", {}) /\ at[UI].pc = "idle" /\ Step(UI, L, "frame", {})
      /\ UNCHANGED <<table, is_Garp, headers, data, frames>>
  BY DEF OnBnClickedButtonSendArp, Click
<1>2. UI \in Process /\ SharedOK BY Interfaces DEF IInv
<1>3. /\ clicks' \in 0 .. MaxClicks
      /\ ipHeader' = ipHeader /\ arpHeader' = arpHeader /\ frame' = frame
      /\ data' = data /\ frames' = frames /\ NoZero'
  BY <1>1, <1>2, ClickKept
<1>4. dst \in Peer /\ dst \in IPAddr BY ThreadAssumption, Interfaces
<1>5. INNER \in Iface BY DEF Iface
<1>6. StartsAs(L, "set", "user", dst, INNER) BY <1>4, <1>5, IdleWith
<1> HIDE DEF L
<1>7. at'[UI] = L BY <1>1, <1>2, StepOwn
<1>8. is_Garp' = TRUE BY <1>1, Waiting
<1>9. Right(UI)' BY <1>4, <1>5, <1>6, <1>7, <1>8, SetRight
<1>10. SharedOK'
  <2>1. SharedTypes' BY <1>1, <1>2, <1>3 DEF SharedOK, SharedTypes
  <2>2. Entered' BY <1>1, <1>2 DEF SharedOK, Entered, StoredAsMeant, CopiesStray
  <2>3. QED BY <1>3, <2>1, <2>2 DEF SharedOK
<1>11. Only("frame", {}) BY <1>1, <1>3 DEF Only, Covered
<1>12. L \in Local /\ "frame" \in Shared BY <1>6 DEF StartsAs, Shared
<1>13. QED BY <1>1, <1>2, <1>9, <1>10, <1>11, <1>12, StepInv

LEMMA GArpSendInv ==
  ASSUME IInv, OnBnClickedButtonGArpSend
  PROVE  IInv'
<1> DEFINE L == [Idle EXCEPT !.pc = "set", !.job = "announcement",
                             !.ip = MyIP[OUTER], !.out = OUTER]
<1>1. /\ Click(L, "frame", {}) /\ at[UI].pc = "idle" /\ Step(UI, L, "frame", {})
      /\ is_Garp' = FALSE
      /\ UNCHANGED <<table, headers, data, frames>>
  BY DEF OnBnClickedButtonGArpSend, Click
<1>2. UI \in Process /\ SharedOK BY Interfaces DEF IInv
<1>3. /\ clicks' \in 0 .. MaxClicks
      /\ ipHeader' = ipHeader /\ arpHeader' = arpHeader /\ frame' = frame
      /\ data' = data /\ frames' = frames /\ NoZero'
  BY <1>1, <1>2, ClickKept
<1>4. OUTER \in Iface BY DEF Iface
<1>5. MyIP[OUTER] \in IPAddr BY <1>4, Interfaces
<1>6. StartsAs(L, "set", "announcement", MyIP[OUTER], OUTER) BY <1>4, <1>5, IdleWith
<1> HIDE DEF L
<1>7. at'[UI] = L BY <1>1, <1>2, StepOwn
<1>8. Right(UI)' BY <1>1, <1>4, <1>6, <1>7, SetRight
<1>9. SharedOK'
  <2>1. SharedTypes' BY <1>1, <1>2, <1>3 DEF SharedOK, SharedTypes
  <2>2. Entered' BY <1>1, <1>2 DEF SharedOK, Entered, StoredAsMeant, CopiesStray
  <2>3. QED BY <1>3, <2>1, <2>2 DEF SharedOK
<1>10. Only("frame", {}) BY <1>1, <1>3 DEF Only, Covered
<1>11. L \in Local /\ "frame" \in Shared BY <1>6 DEF StartsAs, Shared
<1>12. QED BY <1>1, <1>2, <1>8, <1>9, <1>10, <1>11, StepInv

LEMMA ItemDelInv ==
  ASSUME IInv, NEW ip \in IPAddr, OnBnClickedButtonItemDel(ip)
  PROVE  IInv'
<1> DEFINE i == inCache(ip)
<1>1. /\ i # 0 /\ Click(Idle, "table", Iface) /\ at[UI].pc = "idle"
      /\ Step(UI, Idle, "table", Iface)
      /\ table' = RemoveAt(table, i)
      /\ UNCHANGED <<headers, data, frames>> /\ is_Garp' = is_Garp
  BY DEF OnBnClickedButtonItemDel, Click
<1>2. UI \in Process /\ SharedOK /\ SharedTypes BY Interfaces DEF IInv, SharedOK
<1>3. /\ clicks' \in 0 .. MaxClicks
      /\ ipHeader' = ipHeader /\ arpHeader' = arpHeader /\ frame' = frame
      /\ data' = data /\ frames' = frames /\ NoZero'
  BY <1>1, <1>2, ClickKept
<1>4. table \in Seq(Node) /\ Len(table) <= MaxEntries BY <1>2 DEF SharedTypes
<1>5. i \in 1 .. Len(table) BY <1>1, <1>4, IndexNow, IndexEffect
<1> HIDE DEF i
<1> DEFINE before(j) == IF j < i THEN j ELSE j + 1
<1>6. /\ table' \in Seq(Node) /\ Len(table') = Len(table) - 1
      /\ \A j \in 1 .. Len(table') :
           before(j) \in 1 .. Len(table) /\ table'[j] = table[before(j)]
      /\ \A j, k \in 1 .. Len(table') : before(j) = before(k) => j = k
  <2>1. table' = SubSeq(table, 1, i - 1) \o SubSeq(table, i + 1, Len(table))
    BY <1>1 DEF RemoveAt
  <2>2. /\ table' \in Seq(Node) /\ Len(table') = Len(table) - 1
        /\ \A j \in 1 .. Len(table') : table'[j] = IF j < i THEN table[j] ELSE table[j + 1]
    BY <1>4, <1>5, <2>1, WithoutElement
  <2>3. Len(table) \in Nat BY <1>4
  <2>4. ASSUME NEW j \in 1 .. Len(table')
        PROVE  before(j) \in 1 .. Len(table) /\ table'[j] = table[before(j)]
    <3>1. j \in 1 .. Len(table) /\ j + 1 \in 1 .. Len(table) BY <2>2, <2>3
    <3>2. QED BY <2>2, <3>1
  <2>5. \A j, k \in 1 .. Len(table') : before(j) = before(k) => j = k BY <1>4, <1>5, <2>2
  <2>6. QED BY <2>2, <2>4, <2>5
<1> HIDE DEF before
<1>7. Entered' /\ Covered
  <2>1. DOMAIN table = 1 .. Len(table) /\ DOMAIN table' = 1 .. Len(table') BY <1>4, <1>6
  <2>2. StoredAsMeant /\ CopiesStray BY <1>2 DEF SharedOK, Entered
  <2>3. \A k \in 1 .. Len(table) : EntryOK(table[k]) BY <1>4, <1>6, <2>2, Entries
  <2>4. \A j \in 1 .. Len(table') : EntryOK(table'[j]) BY <1>6, <2>3
  <2>5. StoredAsMeant' BY <1>4, <1>6, <2>4, Entries
  <2>6. CopiesStray' BY <1>6, <2>1, <2>2 DEF CopiesStray
  <2>7. Covered BY <1>6, <2>1 DEF Covered
  <2>8. QED BY <2>5, <2>6, <2>7 DEF Entered
<1>8. SharedOK'
  <2>1. Len(table') <= MaxEntries BY <1>4, <1>5, <1>6, Interfaces
  <2>2. SharedTypes' BY <1>1, <1>2, <1>3, <1>6, <2>1 DEF SharedTypes
  <2>3. QED BY <1>3, <1>7, <2>2 DEF SharedOK
<1>9. at'[UI] = Idle BY <1>1, <1>2, StepOwn
<1>10. Right(UI)' BY <1>1, <1>2, <1>9, IdleRight, Waiting
<1>11. Iface # {} BY DEF Iface
<1>12. Only("table", Iface) BY <1>3, <1>7, <1>11 DEF Only
<1>13. "table" \in Shared /\ Idle \in Local BY IdleFields DEF Shared
<1>14. QED BY <1>1, <1>2, <1>8, <1>10, <1>12, <1>13, StepInv

LEMMA SetHeadersInv ==
  ASSUME IInv, SetHeaders
  PROVE  IInv'
<1> DEFINE L == Goto(UI, "fill")
<1>1. /\ at[UI].pc = "set" /\ Step(UI, L, "ip", Ahead(UI))
      /\ ipHeader' = [f \in Iface |-> IF f \in Ahead(UI)
                                      THEN [src |-> MyIP[f], dst |-> at[UI].ip]
                                      ELSE ipHeader[f]]
      /\ UNCHANGED <<table, is_Garp, arpHeader, frame, data, frames, clicks>>
  BY DEF SetHeaders
<1>2. /\ UI \in Process /\ at[UI] \in Local /\ SharedTypes /\ at[UI].out \in Iface
      /\ Control(UI) /\ Flagged(UI)
  BY Start, Interfaces
<1>3. at[UI].job \in {"user", "announcement"} BY <1>1, <1>2 DEF Control
<1>4. Ahead(UI) \in SUBSET Iface BY <1>2 DEF Ahead
<1>5. /\ L \in Local /\ L.pc = "fill" /\ L.job = at[UI].job /\ L.out = at[UI].out
      /\ L.ip = at[UI].ip /\ L.hit = at[UI].hit
  BY <1>2 DEF Local, Goto
<1>6. at'[UI] = L BY <1>1, <1>2, StepOwn
<1> HIDE DEF L
<1>7. Right(UI)'
  <2>1. Control(UI)' BY <1>2, <1>3, <1>5, <1>6 DEF Control, Asks
  <2>2. Flagged(UI)' BY <1>1, <1>2, <1>3, <1>5, <1>6 DEF Flagged, Filled, Asks
  <2>3. BufferKept(UI)' BY <1>3, <1>5, <1>6 DEF BufferKept
  <2>4. Ahead(UI)' = Ahead(UI) BY <1>5, <1>6 DEF Ahead
  <2>5. HeaderKept(UI)' BY <1>1, <1>3, <1>4, <1>5, <1>6, <2>4 DEF HeaderKept, Filled, Asks
  <2>6. IndexKept(UI)' BY <1>3, <1>5, <1>6 DEF IndexKept, Uses
  <2>7. MissKept(UI)' /\ MessageKept(UI)' /\ FrameKept(UI)'
    BY <1>5, <1>6 DEF MissKept, MessageKept, FrameKept
  <2>8. QED BY <2>1, <2>2, <2>3, <2>5, <2>6, <2>7 DEF Right
<1>8. SharedOK'
  <2>1. at[UI].ip \in IPAddr BY <1>2 DEF Local
  <2>2. ipHeader' \in [Iface -> [src : IPAddr, dst : IPAddr]]
    <3> SUFFICES ASSUME NEW f \in Iface
                 PROVE  (IF f \in Ahead(UI) THEN [src |-> MyIP[f], dst |-> at[UI].ip]
                         ELSE ipHeader[f]) \in [src : IPAddr, dst : IPAddr]
      BY <1>1
    <3>1. MyIP[f] \in IPAddr BY Interfaces
    <3>2. ipHeader[f] \in [src : IPAddr, dst : IPAddr] BY <1>2 DEF SharedTypes
    <3>3. QED BY <2>1, <3>1, <3>2
  <2>3. SharedTypes' BY <1>1, <1>2, <2>2 DEF SharedTypes
  <2>4. NoZero /\ Entered BY DEF IInv, SharedOK
  <2>5. NoZero' /\ Entered' BY <1>1, <2>4 DEF NoZero, Entered, StoredAsMeant, CopiesStray
  <2>6. QED BY <2>3, <2>5 DEF SharedOK
<1>9. Only("ip", Ahead(UI)) BY <1>1 DEF Only, Covered
<1>10. "ip" \in Shared /\ is_Garp' = is_Garp BY <1>1 DEF Shared
<1>11. QED BY <1>1, <1>2, <1>4, <1>5, <1>7, <1>8, <1>9, <1>10, StepInv

LEMMA ResetGarpInv ==
  ASSUME IInv, ResetGarp
  PROVE  IInv'
<1>1. /\ Step(UI, Idle, "frame", {}) /\ is_Garp' = TRUE
      /\ ipHeader' = ipHeader /\ arpHeader' = arpHeader /\ frame' = frame
      /\ UNCHANGED <<table, data, frames, clicks>>
  BY DEF ResetGarp, Alone, headers
<1>2. UI \in Process /\ SharedTypes /\ NoZero /\ Entered
  BY Interfaces DEF IInv, SharedOK
<1>3. at'[UI] = Idle BY <1>1, <1>2, StepOwn
<1>4. Right(UI)' BY <1>1, <1>2, <1>3, IdleRight
<1>5. SharedOK'
  <2>1. SharedTypes' BY <1>1, <1>2 DEF SharedTypes
  <2>2. NoZero' /\ Entered' BY <1>1, <1>2 DEF NoZero, Entered, StoredAsMeant, CopiesStray
  <2>3. QED BY <2>1, <2>2 DEF SharedOK
<1>6. Only("frame", {}) BY <1>1 DEF Only, Covered
<1>7. "frame" \in Shared /\ Idle \in Local BY IdleFields DEF Shared
<1>8. QED BY <1>1, <1>2, <1>4, <1>5, <1>6, <1>7, StepInv

-----------------------------------------------------------------------------
(* The receive threads. *)

LEMMA Threads ==
  ASSUME NEW s \in Slot
  PROVE  s \in Process /\ s # UI
BY ThreadAssumption DEF Process

\* What peers send carries their own address.
LEMMA Arrivals ==
  ASSUME NEW body \in Arriving
  PROVE  /\ body \in Body /\ body.src \in Peer /\ body.mac = PeerMAC[body.src]
         /\ body.mac # ZeroMAC /\ (body.op = "ip" => body.dst \in Peer)
<1>1. /\ body \in Body /\ body.src \in Peer /\ body.mac = PeerMAC[body.src]
      /\ body.op = "ip" => body.dst \in Peer
  BY ThreadAssumption
<1>2. body.mac \in HostMAC BY <1>1, Interfaces
<1>3. QED BY <1>1, <1>2, ThreadAssumption

LEMMA DeliverInv ==
  ASSUME IInv, NEW s \in Slot, NEW body \in Arriving, Deliver(s, body)
  PROVE  IInv'
<1> DEFINE P == [Idle EXCEPT !.pc = "header", !.job = "packet", !.ip = body.dst,
                             !.out = Out[body.dst]]
<1> DEFINE H == [Idle EXCEPT !.pc = "learn", !.job = "heard", !.ip = body.src,
                             !.out = In(s)]
<1> DEFINE L == IF body.op = "ip" THEN P ELSE H
<1>1. /\ at[s].pc = "idle" /\ frames < MaxFrames /\ frames' = frames + 1
      /\ data' = [data EXCEPT ![In(s)] = body]
      /\ Step(s, L, "buffer", {In(s)})
      /\ UNCHANGED <<table, is_Garp, clicks>>
      /\ ipHeader' = ipHeader /\ arpHeader' = arpHeader /\ frame' = frame
  BY DEF Deliver, headers
<1>2. s \in Process /\ s # UI BY Threads
<1>3. SharedTypes /\ In(s) \in Iface /\ NoZero /\ Entered
  BY <1>2, Start DEF IInv, SharedOK
<1>4. /\ body \in Body /\ body.src \in Peer /\ body.mac # ZeroMAC
      /\ body.op = "ip" => body.dst \in Peer
  BY Arrivals
<1>5. body.op = "ip" => StartsAs(P, "header", "packet", body.dst, Out[body.dst])
  <2> SUFFICES ASSUME body.op = "ip"
               PROVE  StartsAs(P, "header", "packet", body.dst, Out[body.dst])
    OBVIOUS
  <2>1. body.dst \in IPAddr /\ Out[body.dst] \in Iface BY <1>4, Interfaces
  <2>2. QED BY <2>1, IdleWith
<1>6. StartsAs(H, "learn", "heard", body.src, In(s))
  <2>1. body.src \in IPAddr BY <1>4, Interfaces
  <2>2. QED BY <1>3, <2>1, IdleWith
<1> HIDE DEF P, H
<1>7. /\ L \in Local
      /\ body.op = "ip" => L.pc = "header" /\ L.job = "packet" /\ L.ip = body.dst
      /\ body.op # "ip" => L.pc = "learn" /\ L.job = "heard" /\ L.ip = body.src
  BY <1>5, <1>6 DEF StartsAs
<1>8. at'[s] = L BY <1>1, <1>2, StepOwn
<1> HIDE DEF L
<1>9. /\ data' \in [Iface -> Body] /\ data'[In(s)] = body
      /\ \A f \in Iface \ {In(s)} : data'[f] = data[f]
  BY <1>1, <1>3, <1>4 DEF SharedTypes
<1>10. Right(s)'
  <2>1. L.job \in {"packet", "heard"} BY <1>7
  <2>2. Control(s)' BY <1>2, <1>4, <1>7, <1>8 DEF Control
  <2>3. Flagged(s)' BY <1>2, <2>1, <1>8 DEF Flagged
  <2>4. BufferKept(s)'
    <3>1. In(s)' = In(s) BY DEF In
    <3>2. QED BY <1>7, <1>8, <1>9, <3>1 DEF BufferKept, PacketFor
  <2>5. HeaderKept(s)' BY <1>8, <2>1 DEF HeaderKept
  <2>6. IndexKept(s)' BY <1>7, <1>8 DEF IndexKept, Uses
  <2>7. MissKept(s)' /\ MessageKept(s)' /\ FrameKept(s)'
    BY <1>7, <1>8 DEF MissKept, MessageKept, FrameKept
  <2>8. QED BY <2>2, <2>3, <2>4, <2>5, <2>6, <2>7 DEF Right
<1>11. SharedOK'
  <2>1. frames' \in 0 .. MaxFrames BY <1>1, <1>3, Interfaces DEF SharedTypes
  <2>2. SharedTypes' BY <1>1, <1>3, <1>9, <2>1 DEF SharedTypes
  <2>3. NoZero' BY <1>3, <1>4, <1>9 DEF NoZero
  <2>4. Entered' BY <1>1, <1>3 DEF Entered, StoredAsMeant, CopiesStray
  <2>5. QED BY <2>2, <2>3, <2>4 DEF SharedOK
<1>12. Only("buffer", {In(s)}) BY <1>1, <1>9 DEF Only, Covered
<1>13. "buffer" \in Shared /\ {In(s)} \in SUBSET Iface /\ is_Garp' = is_Garp
  BY <1>1, <1>3 DEF Shared
<1>14. QED BY <1>1, <1>2, <1>7, <1>10, <1>11, <1>12, <1>13, StepInv

LEMMA SetHeaderFieldsInv ==
  ASSUME IInv, NEW s \in Slot, SetHeaderFields(s)
  PROVE  IInv'
<1> DEFINE fields == [src |-> Packet(s).src, dst |-> Packet(s).dst]
<1> DEFINE L == Goto(s, "lookup")
<1>1. /\ at[s].pc = "header" /\ Step(s, L, "ip", {In(s)})
      /\ ipHeader' = [ipHeader EXCEPT ![In(s)] = fields]
      /\ UNCHANGED <<table, is_Garp, arpHeader, frame, data, frames, clicks>>
  BY DEF SetHeaderFields
<1>2. s \in Process /\ s # UI BY Threads
<1>3. /\ at[s] \in Local /\ SharedTypes /\ In(s) \in Iface
      /\ Control(s) /\ Flagged(s) /\ BufferKept(s)
  BY <1>2, Start
<1>4. at[s].job = "packet" BY <1>1, <1>2, <1>3 DEF Control, Asks
<1>5. fields \in [src : IPAddr, dst : IPAddr] BY <1>2, <1>3, Readings DEF Body
<1> HIDE DEF fields
<1>6. /\ L \in Local /\ L.pc = "lookup" /\ L.job = at[s].job
      /\ L.ip = at[s].ip /\ L.body = at[s].body /\ L.hit = at[s].hit
  BY <1>3 DEF Local, Goto
<1>7. at'[s] = L BY <1>1, <1>2, StepOwn
<1> HIDE DEF L
<1>8. Right(s)'
  <2>1. Control(s)' BY <1>2, <1>3, <1>4, <1>6, <1>7 DEF Control
  <2>2. Flagged(s)' BY <1>2, <1>4, <1>6, <1>7 DEF Flagged
  <2>3. BufferKept(s)' BY <1>1, <1>3, <1>4, <1>6, <1>7 DEF BufferKept
  <2>4. HeaderKept(s)' BY <1>4, <1>6, <1>7 DEF HeaderKept
  <2>5. IndexKept(s)' BY <1>6, <1>7 DEF IndexKept, Uses
  <2>6. MissKept(s)' /\ MessageKept(s)' /\ FrameKept(s)'
    BY <1>6, <1>7 DEF MissKept, MessageKept, FrameKept
  <2>7. QED BY <2>1, <2>2, <2>3, <2>4, <2>5, <2>6 DEF Right
<1>9. SharedOK'
  <2>1. ipHeader' \in [Iface -> [src : IPAddr, dst : IPAddr]]
    BY <1>1, <1>3, <1>5 DEF SharedTypes
  <2>2. SharedTypes' BY <1>1, <1>3, <2>1 DEF SharedTypes
  <2>3. NoZero /\ Entered BY DEF IInv, SharedOK
  <2>4. NoZero' /\ Entered' BY <1>1, <2>3 DEF NoZero, Entered, StoredAsMeant, CopiesStray
  <2>5. QED BY <2>2, <2>4 DEF SharedOK
<1>10. Only("ip", {In(s)}) BY <1>1, <1>3 DEF Only, Covered, SharedTypes
<1>11. "ip" \in Shared /\ {In(s)} \in SUBSET Iface /\ is_Garp' = is_Garp
  BY <1>1, <1>3 DEF Shared
<1>12. QED BY <1>1, <1>2, <1>6, <1>8, <1>9, <1>10, <1>11, StepInv

\* An entry found for a packet is its hop's, while its buffer is left alone.
LEMMA HopFound ==
  ASSUME IInv, NEW s \in Slot, at[s].job \in {"packet", "hop"}
  PROVE  /\ inCache(NextHop(s)) \in 0 .. MaxEntries
         /\ inCache(NextHop(s)) # 0 /\ "buffer" \notin at[s].hit =>
              /\ inCache(NextHop(s)) \in DOMAIN table
              /\ table[inCache(NextHop(s))].ip = Hop[at[s].ip]
<1>1. s \in Process BY Threads
<1>2. SharedTypes /\ Control(s) /\ BufferKept(s) BY <1>1, Start
<1>3. at[s].ip \in Peer BY <1>2 DEF Control
<1>4. "buffer" \notin at[s].hit => NextHop(s) = Hop[at[s].ip]
  BY <1>1, <1>2, <1>3, NextHopEffect DEF BufferKept
<1> DEFINE i == inCache(NextHop(s))
<1>5. table \in Seq(Node) /\ Len(table) \in Nat /\ Len(table) <= MaxEntries /\ MaxEntries \in Nat
  BY <1>2, Interfaces DEF SharedTypes
<1>6. i \in 0 .. Len(table) /\ (i # 0 => table[i].ip = NextHop(s))
  BY <1>5, IndexNow, IndexEffect
<1>7. DOMAIN table = 1 .. Len(table) BY <1>5
<1> HIDE DEF i
<1>8. i \in 0 .. MaxEntries BY <1>5, <1>6
<1>9. i # 0 /\ "buffer" \notin at[s].hit => i \in DOMAIN table /\ table[i].ip = Hop[at[s].ip]
  BY <1>4, <1>5, <1>6, <1>7
<1>10. QED BY <1>8, <1>9 DEF i

LEMMA LookupInv ==
  ASSUME IInv, NEW s \in Slot, Lookup(s)
  PROVE  IInv'
<1> DEFINE index == inCache(NextHop(s))
<1> DEFINE pc == IF index = 0 THEN "fill" ELSE "dest"
<1> DEFINE job == IF index = 0 THEN "hop" ELSE "forward"
<1> DEFINE L == [at[s] EXCEPT !.pc = pc, !.job = job, !.index = index, !.body = data[In(s)]]
<1>1. /\ at[s].pc = "lookup" /\ Alone(s, L)
      /\ UNCHANGED <<table, is_Garp, headers, data, frames, clicks>>
  BY DEF Lookup
<1>2. s \in Process /\ s # UI BY Threads
<1>3. /\ at[s] \in Local /\ SharedTypes /\ Control(s) /\ BufferKept(s)
  BY <1>2, Start
<1>4. at[s].job = "packet" /\ at[s].ip \in Peer BY <1>1, <1>2, <1>3 DEF Control, Asks
<1>5. /\ index \in 0 .. MaxEntries
      /\ index # 0 /\ "buffer" \notin at[s].hit =>
           index \in DOMAIN table /\ table[index].ip = Hop[at[s].ip]
  BY <1>4, HopFound
<1>6. data[In(s)] \in Body BY <1>2, <1>3, Readings
<1>7. /\ pc \in {"fill", "dest"} /\ job \in {"hop", "forward"}
      /\ pc = "fill" <=> job = "hop" /\ index = 0
      /\ pc = "dest" <=> job = "forward" /\ index # 0
  OBVIOUS
<1> HIDE DEF index, pc, job
<1>8. /\ L \in Local /\ L.pc = pc /\ L.job = job /\ L.ip = at[s].ip /\ L.index = index
      /\ L.body = data[In(s)] /\ L.hit = at[s].hit
  BY <1>3, <1>5, <1>6, <1>7 DEF Local
<1>9. at'[s] = L BY <1>1, <1>2, AloneOwn
<1> HIDE DEF L
<1>10. Right(s)'
  <2>1. Control(s)' BY <1>2, <1>4, <1>7, <1>8, <1>9 DEF Control, Asks
  <2>2. Flagged(s)' BY <1>2, <1>7, <1>8, <1>9 DEF Flagged, Filled, Asks
  <2>3. BufferKept(s)'
    <3>1. "buffer" \notin at[s].hit => data[In(s)] \in PacketFor(at[s].ip)
      BY <1>3, <1>4 DEF BufferKept
    <3>2. data'[In(s)] = data[In(s)] /\ In(s)' = In(s) BY <1>1 DEF In
    <3>3. QED BY <1>7, <1>8, <1>9, <3>1, <3>2 DEF BufferKept
  <2>4. HeaderKept(s)' BY <1>7, <1>8, <1>9 DEF HeaderKept, Filled, Asks
  <2>5. IndexKept(s)'
    <3> SUFFICES ASSUME at[s].hit \cap {"table", "ip", "buffer"} = {}, pc = "dest"
                 PROVE  index \in DOMAIN table /\ table[index].ip = Hop[at[s].ip]
      BY <1>1, <1>7, <1>8, <1>9 DEF IndexKept, Uses, Found
    <3>1. "buffer" \notin at[s].hit OBVIOUS
    <3>2. QED BY <1>5, <1>7, <3>1
  <2>6. MissKept(s)' /\ MessageKept(s)' /\ FrameKept(s)'
    BY <1>7, <1>8, <1>9 DEF MissKept, MessageKept, FrameKept
  <2>7. QED BY <2>1, <2>2, <2>3, <2>4, <2>5, <2>6 DEF Right
<1>11. QED BY <1>1, <1>2, <1>8, <1>10, AloneInv

LEMMA LookAgainInv ==
  ASSUME IInv, NEW s \in Slot, LookAgain(s)
  PROVE  IInv'
<1> DEFINE index == inCache(NextHop(s))
<1>1. /\ at[s].pc = "again"
      /\ UNCHANGED <<table, is_Garp, headers, data, frames, clicks>>
  BY DEF LookAgain
<1>2. s \in Process /\ s # UI BY Threads
<1>3. /\ at[s] \in Local /\ SharedTypes /\ Control(s) /\ BufferKept(s)
  BY <1>2, Start
<1>4. at[s].job = "hop" /\ at[s].ip \in Peer BY <1>1, <1>2, <1>3 DEF Control, Asks
<1>5. CASE index = 0
  <2>1. Alone(s, Idle) BY <1>5 DEF LookAgain
  <2>2. Right(s)' BY <1>2, <2>1, AloneOwn, IdleRight
  <2>3. QED BY <1>1, <1>2, <2>1, <2>2, IdleFields, AloneInv
<1>6. CASE index # 0
  <2> DEFINE L == [at[s] EXCEPT !.pc = "dest", !.job = "forward", !.index = index,
                                !.hit = @ \cap {"buffer"}]
  <2>1. Alone(s, L) BY <1>6 DEF LookAgain
  <2>2. /\ index \in 0 .. MaxEntries
        /\ "buffer" \notin at[s].hit =>
             index \in DOMAIN table /\ table[index].ip = Hop[at[s].ip]
    BY <1>4, <1>6, HopFound
  <2> HIDE DEF index
  <2>3. /\ L \in Local /\ L.pc = "dest" /\ L.job = "forward" /\ L.ip = at[s].ip
        /\ L.index = index /\ L.body = at[s].body /\ L.hit = at[s].hit \cap {"buffer"}
    BY <1>3, <2>2 DEF Local
  <2>4. at'[s] = L BY <1>2, <2>1, AloneOwn
  <2> HIDE DEF L
  <2>5. "buffer" \in L.hit <=> "buffer" \in at[s].hit BY <2>3
  <2>6. Control(s)' BY <1>2, <1>4, <2>3, <2>4 DEF Control
  <2>7. Flagged(s)' BY <1>2, <2>3, <2>4 DEF Flagged
  <2>8. BufferKept(s)' BY <1>3, <1>4, <2>3, <2>4, <2>5 DEF BufferKept
  <2>9. HeaderKept(s)' BY <2>3, <2>4 DEF HeaderKept
  <2>10. IndexKept(s)'
    <3> SUFFICES ASSUME "buffer" \notin at[s].hit
                 PROVE  index \in DOMAIN table /\ table[index].ip = Hop[at[s].ip]
      BY <1>1, <2>3, <2>4, <2>5 DEF IndexKept, Found
    <3>1. QED BY <2>2
  <2>11. MissKept(s)' /\ MessageKept(s)' /\ FrameKept(s)'
    BY <2>3, <2>4 DEF MissKept, MessageKept, FrameKept
  <2>12. Right(s)' BY <2>6, <2>7, <2>8, <2>9, <2>10, <2>11 DEF Right
  <2>13. QED BY <1>1, <1>2, <2>1, <2>3, <2>12, AloneInv
<1>7. QED BY <1>5, <1>6

\* The assignment of another hardware address to an entry.
LEMMA MacInv ==
  ASSUME SharedTypes, Entered, NEW mac \in MAC, mac # ZeroMAC, NEW i \in DOMAIN table,
         table' = [table EXCEPT ![i].mac = mac]
  PROVE  /\ table' \in Seq(Node) /\ Entered' /\ Covered /\ Len(table') = Len(table)
         /\ \A j \in DOMAIN table : j \in DOMAIN table' /\ table'[j].ip = table[j].ip
<1>1. table \in Seq(Node) /\ i \in 1 .. Len(table) /\ StoredAsMeant
  BY DEF SharedTypes, Entered
<1>2. table[i] \in Node /\ EntryOK(table[i]) BY <1>1 DEF StoredAsMeant, EntryOK
<1>3. ASSUME NEW t \in Node, EntryOK(t)
      PROVE  LET u == [t EXCEPT !.mac = mac]
             IN  u \in Node /\ EntryOK(u) /\ u.ip = t.ip /\ u.stray = t.stray
  <2> DEFINE u == [t EXCEPT !.mac = mac]
  <2>1. /\ u \in Node /\ u.ip = t.ip /\ u.mac = mac /\ u.by = t.by /\ u.meant = t.meant
        /\ u.hit = t.hit /\ u.stray = t.stray
    BY DEF Node
  <2> HIDE DEF u
  <2>2. EntryOK(u) BY <1>3, <2>1 DEF EntryOK
  <2>3. QED BY <2>1, <2>2 DEF u
<1> DEFINE node == [table[i] EXCEPT !.mac = mac]
<1>4. /\ node \in Node /\ EntryOK(node) /\ node.ip = table[i].ip
      /\ node.stray = table[i].stray
  BY <1>2, <1>3
<1>5. table' = [table EXCEPT ![i] = node] OBVIOUS
<1> HIDE DEF node
<1>6. ~node.stray => ~table[i].stray /\ table[i].ip = node.ip BY <1>4
<1>7. QED BY <1>4, <1>5, <1>6, ReplaceInv

LEMMA LearnInv ==
  ASSUME IInv, NEW s \in Slot, Learn(s)
  PROVE  IInv'
<1> DEFINE body == data[In(s)]
<1>1. /\ at[s].pc = "learn" /\ body.op # "ip"
      /\ UNCHANGED <<table, is_Garp, headers, data, frames, clicks>>
  BY DEF Learn
<1>2. s \in Process /\ s # UI BY Threads
<1>3. /\ at[s] \in Local /\ SharedTypes /\ Control(s) /\ BufferKept(s) /\ In(s) \in Iface
  BY <1>2, Start
<1>4. at[s].job = "heard" /\ at[s].ip \in Peer BY <1>1, <1>2, <1>3 DEF Control, Asks
<1>5. /\ table \in Seq(Node) /\ Len(table) <= MaxEntries /\ DOMAIN table = 1 .. Len(table)
      /\ Len(table) \in Nat /\ MaxEntries \in Nat
  BY <1>3, Interfaces DEF SharedTypes
<1>6. CASE Alone(s, Idle)
  <2>1. Right(s)' BY <1>2, <1>6, AloneOwn, IdleRight
  <2>2. QED BY <1>1, <1>2, <1>6, <2>1, IdleFields, AloneInv
<1>7. CASE body.src # MyIP[INNER] /\ body.op = "request"
  <2> DEFINE index == IF body.mac \in HostMAC THEN inCache(FirstFour[body.mac]) ELSE 0
  <2> DEFINE L == [at[s] EXCEPT !.pc = "store", !.index = index]
  <2>1. Alone(s, L) /\ UNCHANGED <<table, is_Garp, headers, data, frames, clicks>>
    BY <1>1, <1>7 DEF Learn
  <2>2. index \in 0 .. Len(table) /\ (index # 0 => table[index].ip = FirstFour[body.mac])
    <3>1. /\ inCache(FirstFour[body.mac]) \in 0 .. Len(table)
          /\ inCache(FirstFour[body.mac]) # 0 =>
               table[inCache(FirstFour[body.mac])].ip = FirstFour[body.mac]
      BY <1>5, IndexNow, IndexEffect
    <3>2. QED BY <1>5, <3>1
  <2> HIDE DEF index
  <2>3. index \in 0 .. MaxEntries BY <1>5, <2>2
  <2>4. /\ L \in Local /\ L.pc = "store" /\ L.job = "heard" /\ L.ip = at[s].ip
        /\ L.index = index /\ L.hit = at[s].hit
    BY <1>3, <1>4, <2>3 DEF Local
  <2>5. at'[s] = L BY <1>2, <2>1, AloneOwn
  <2> HIDE DEF L
  <2>6. Control(s)' BY <1>2, <1>4, <2>4, <2>5 DEF Control
  <2>7. Flagged(s)' BY <1>2, <2>4, <2>5 DEF Flagged
  <2>8. BufferKept(s)'
    <3>1. data'[In(s)] = body /\ In(s)' = In(s) BY <2>1 DEF In
    <3>2. "buffer" \notin at[s].hit => body \in Arriving /\ body.src = at[s].ip
      BY <1>1, <1>3, <1>4 DEF BufferKept
    <3>3. QED BY <1>7, <2>4, <2>5, <3>1, <3>2 DEF BufferKept
  <2>9. HeaderKept(s)' BY <2>4, <2>5 DEF HeaderKept
  <2>10. IndexKept(s)'
    <3> SUFFICES ASSUME index # 0
                 PROVE  index \in DOMAIN table /\ table[index].ip = Found(s)'
      BY <2>1, <2>4, <2>5 DEF IndexKept, Uses
    <3>1. Message(s)' = body BY <1>7, <2>1 DEF Message, In
    <3>2. Found(s)' = FirstFour[body.mac] BY <2>4, <2>5, <3>1 DEF Found
    <3>3. QED BY <1>5, <2>2, <3>2
  <2>11. MissKept(s)' /\ MessageKept(s)' /\ FrameKept(s)'
    BY <2>4, <2>5 DEF MissKept, MessageKept, FrameKept
  <2>12. Right(s)' BY <2>6, <2>7, <2>8, <2>9, <2>10, <2>11 DEF Right
  <2>13. QED BY <1>2, <2>1, <2>4, <2>12, AloneInv
<1>8. CASE body.src # MyIP[INNER] /\ body.op = "reply" /\ inCache(body.src) # 0
  <2> DEFINE index == inCache(body.src)
  <2> DEFINE L == [at[s] EXCEPT !.pc = "update", !.index = index]
  <2>1. Alone(s, L) /\ UNCHANGED <<table, is_Garp, headers, data, frames, clicks>>
    BY <1>1, <1>8 DEF Learn
  <2>2. index \in 1 .. Len(table) /\ table[index].ip = body.src
    BY <1>5, <1>8, IndexNow, IndexEffect
  <2> HIDE DEF index
  <2>3. index \in 0 .. MaxEntries BY <1>5, <2>2
  <2>4. /\ L \in Local /\ L.pc = "update" /\ L.job = "heard" /\ L.ip = at[s].ip
        /\ L.index = index /\ L.hit = at[s].hit
    BY <1>3, <1>4, <2>3 DEF Local
  <2>5. at'[s] = L BY <1>2, <2>1, AloneOwn
  <2> HIDE DEF L
  <2>6. Control(s)' BY <1>2, <1>4, <2>4, <2>5 DEF Control
  <2>7. Flagged(s)' BY <1>2, <2>4, <2>5 DEF Flagged
  <2>8. BufferKept(s)'
    <3>1. data'[In(s)] = body /\ In(s)' = In(s) BY <2>1 DEF In
    <3>2. "buffer" \notin at[s].hit => body \in Arriving /\ body.src = at[s].ip
      BY <1>1, <1>3, <1>4 DEF BufferKept
    <3>3. QED BY <1>8, <2>4, <2>5, <3>1, <3>2 DEF BufferKept
  <2>9. HeaderKept(s)' BY <2>4, <2>5 DEF HeaderKept
  <2>10. IndexKept(s)'
    <3>1. Message(s)' = body BY <1>8, <2>1 DEF Message, In
    <3>2. Found(s)' = body.src BY <2>4, <2>5, <3>1 DEF Found
    <3>3. QED BY <1>5, <2>1, <2>2, <2>4, <2>5, <3>2 DEF IndexKept
  <2>11. MissKept(s)' /\ MessageKept(s)' /\ FrameKept(s)'
    BY <2>4, <2>5 DEF MissKept, MessageKept, FrameKept
  <2>12. Right(s)' BY <2>6, <2>7, <2>8, <2>9, <2>10, <2>11 DEF Right
  <2>13. QED BY <1>2, <2>1, <2>4, <2>12, AloneInv
<1>9. CASE body.src = MyIP[INNER] \/ (body.op = "reply" /\ inCache(body.src) = 0)
  <2>1. Alone(s, Idle) BY <1>9 DEF Learn
  <2>2. QED BY <1>6, <2>1
<1>10. body.src = MyIP[INNER] \/ body.op \in {"request", "reply"} BY DEF Learn
<1>11. QED BY <1>7, <1>8, <1>9, <1>10

\* What is read as a message never has the zero address.
LEMMA MessageMac ==
  ASSUME SharedTypes, NoZero, NEW s \in Slot
  PROVE  Message(s) \in Body /\ Message(s).mac \in MAC /\ Message(s).mac # ZeroMAC
<1>1. s \in Process /\ In(s) \in Iface BY Threads, Interfaces
<1>2. data[In(s)].mac # ZeroMAC BY <1>1 DEF NoZero
<1>3. NoBody.mac # ZeroMAC BY ThreadAssumption DEF NoBody
<1>4. Message(s).mac # ZeroMAC BY <1>2, <1>3 DEF Message
<1>5. Message(s) \in Body BY <1>1, Readings
<1>6. QED BY <1>4, <1>5 DEF Body

LEMMA UpdateInv ==
  ASSUME IInv, NEW s \in Slot, Update(s)
  PROVE  IInv'
<1> DEFINE index == at[s].index
<1> DEFINE mac == Message(s).mac
<1>1. /\ table' = IF index \in DOMAIN table THEN [table EXCEPT ![index].mac = mac] ELSE table
      /\ Alone(s, Idle)
      /\ UNCHANGED <<is_Garp, data, frames, clicks>>
      /\ ipHeader' = ipHeader /\ arpHeader' = arpHeader /\ frame' = frame
  BY DEF Update, headers
<1>2. s \in Process /\ s # UI BY Threads
<1>3. SharedTypes /\ NoZero /\ Entered BY DEF IInv, SharedOK
<1>4. mac \in MAC /\ mac # ZeroMAC BY <1>3, MessageMac
<1> HIDE DEF mac
<1>5. /\ table' \in Seq(Node) /\ Entered' /\ Covered /\ Len(table') = Len(table)
      /\ \A j \in DOMAIN table : j \in DOMAIN table' /\ table'[j].ip = table[j].ip
  <2>1. CASE index \in DOMAIN table
    <3>1. table' = [table EXCEPT ![index].mac = mac] BY <1>1, <2>1
    <3>2. QED BY <1>3, <1>4, <2>1, <3>1, MacInv
  <2>2. CASE index \notin DOMAIN table
    <3>1. table' = table BY <1>1, <2>2
    <3>2. Entered' /\ Covered
      BY <1>3, <3>1 DEF Entered, StoredAsMeant, CopiesStray, Covered
    <3>3. QED BY <1>3, <3>1, <3>2 DEF SharedTypes
  <2>3. QED BY <2>1, <2>2
<1>6. SharedOK'
  <2>1. SharedTypes' BY <1>1, <1>3, <1>5 DEF SharedTypes
  <2>2. NoZero' BY <1>1, <1>3 DEF NoZero
  <2>3. QED BY <1>5, <2>1, <2>2 DEF SharedOK
<1>7. Only("frame", {}) BY <1>1, <1>5 DEF Only
<1>8. Right(s)' BY <1>1, <1>2, AloneOwn, IdleRight
<1>9. Step(s, Idle, "frame", {}) /\ "frame" \in Shared /\ Idle \in Local /\ is_Garp' = is_Garp
  BY <1>1, IdleFields DEF Alone, Shared
<1>10. QED BY <1>2, <1>6, <1>7, <1>8, <1>9, StepInv

LEMMA ThrowInv ==
  ASSUME IInv, NEW s \in Slot, Throw(s)
  PROVE  IInv'
<1> DEFINE L == Goto(s, "thrown")
<1>1. /\ at[s].pc = "learn" /\ data[In(s)].op \in {"ip", "unknown"} /\ Alone(s, L)
      /\ UNCHANGED <<table, is_Garp, headers, data, frames, clicks>>
  BY DEF Throw
<1>2. s \in Process /\ s # UI BY Threads
<1>3. at[s] \in Local /\ SharedTypes /\ Control(s) /\ BufferKept(s) BY <1>2, Start
<1>4. at[s].job = "heard" /\ at[s].ip \in Peer BY <1>1, <1>2, <1>3 DEF Control, Asks
<1>5. /\ L \in Local /\ L.pc = "thrown" /\ L.job = "heard" /\ L.ip = at[s].ip
      /\ L.hit = at[s].hit
  BY <1>3, <1>4 DEF Local, Goto
<1>6. at'[s] = L BY <1>1, <1>2, AloneOwn
<1> HIDE DEF L
<1>7. "buffer" \in at[s].hit \/ data[In(s)].op = "unknown" BY <1>1, <1>3, <1>4 DEF BufferKept
<1>8. Right(s)'
  <2>1. Control(s)' BY <1>2, <1>4, <1>5, <1>6 DEF Control
  <2>2. Flagged(s)' BY <1>2, <1>5, <1>6 DEF Flagged
  <2>3. BufferKept(s)'
    <3>1. data' = data /\ In(s)' = In(s) BY <1>1 DEF In
    <3>2. QED BY <1>5, <1>6, <1>7, <3>1 DEF BufferKept
  <2>4. HeaderKept(s)' BY <1>5, <1>6 DEF HeaderKept
  <2>5. IndexKept(s)' BY <1>5, <1>6 DEF IndexKept, Uses
  <2>6. MissKept(s)' /\ MessageKept(s)' /\ FrameKept(s)'
    BY <1>5, <1>6 DEF MissKept, MessageKept, FrameKept
  <2>7. QED BY <2>1, <2>2, <2>3, <2>4, <2>5, <2>6 DEF Right
<1>9. QED BY <1>1, <1>2, <1>5, <1>8, AloneInv

LEMMA StoreHeardInv ==
  ASSUME IInv, NEW s \in Slot, StoreHeard(s)
  PROVE  IInv'
<1> DEFINE index == at[s].index
<1> DEFINE body == Message(s)
<1> DEFINE disturbed == "buffer" \in at[s].hit
<1> DEFINE node == [ip |-> body.src, mac |-> body.mac, by |-> "heard",
                    meant |-> at[s].ip, hit |-> disturbed, stray |-> TRUE]
<1> DEFINE fs == {f \in Iface : index = 0}
<1> DEFINE L == [at[s] EXCEPT !.pc = "turn", !.index = 0]
<1>1. /\ at[s].pc = "store" /\ at[s].job = "heard"
      /\ table' = IF index = 0 THEN Append(table, node)
                  ELSE IF index \in DOMAIN table THEN [table EXCEPT ![index].mac = body.mac]
                  ELSE table
      /\ Len(table') <= MaxEntries
      /\ Step(s, L, "miss", fs)
      /\ UNCHANGED <<is_Garp, data, frames, clicks>>
      /\ ipHeader' = ipHeader /\ arpHeader' = arpHeader /\ frame' = frame
  BY DEF StoreHeard, headers
<1>2. s \in Process /\ s # UI BY Threads
<1>3. /\ at[s] \in Local /\ SharedTypes /\ Control(s) /\ BufferKept(s) /\ In(s) \in Iface
      /\ NoZero /\ Entered
  BY <1>2, Start DEF IInv, SharedOK
<1>4. at[s].ip \in Peer BY <1>1, <1>3 DEF Control
<1>5. body \in Body /\ body.mac # ZeroMAC BY <1>3, MessageMac
<1>6. ~disturbed => body.src = at[s].ip
  <2> SUFFICES ASSUME ~disturbed PROVE body.src = at[s].ip
    OBVIOUS
  <2>1. data[In(s)].op = "request" /\ data[In(s)].src = at[s].ip
    BY <1>1, <1>3 DEF BufferKept
  <2>2. QED BY <2>1 DEF Message
<1>7. body.src \in IPAddr /\ body.mac \in MAC BY <1>5 DEF Body
<1>8. disturbed \in BOOLEAN OBVIOUS
<1> HIDE DEF disturbed, body
<1>9. node \in Node /\ EntryOK(node) /\ node.stray
  <2>1. at[s].ip \in IPAddr BY <1>4, Interfaces
  <2>2. /\ node \in Node /\ node.ip = body.src /\ node.by = "heard"
        /\ node.meant = at[s].ip /\ node.hit = disturbed /\ node.stray
    BY <1>7, <1>8, <2>1 DEF Node
  <2> HIDE DEF node
  <2>3. EntryOK(node) BY <1>6, <2>2 DEF EntryOK
  <2>4. QED BY <2>2, <2>3
<1> HIDE DEF node
<1>10. /\ table' \in Seq(Node) /\ Entered' /\ (fs # {} \/ Covered)
       /\ \A j \in DOMAIN table : j \in DOMAIN table' /\ table'[j].ip = table[j].ip
  <2>1. CASE index = 0
    <3>1. table' = Append(table, node) BY <1>1, <2>1
    <3>2. In(s) \in fs BY <1>3, <2>1
    <3>3. QED BY <1>3, <1>9, <3>1, <3>2, AppendInv
  <2>2. CASE index # 0 /\ index \in DOMAIN table
    <3>1. table' = [table EXCEPT ![index].mac = body.mac] BY <1>1, <2>2
    <3>2. QED BY <1>3, <1>5, <1>7, <2>2, <3>1, MacInv
  <2>3. CASE index # 0 /\ index \notin DOMAIN table
    <3>1. table' = table BY <1>1, <2>3
    <3>2. Entered' /\ Covered
      BY <1>3, <3>1 DEF Entered, StoredAsMeant, CopiesStray, Covered
    <3>3. QED BY <1>3, <3>1, <3>2 DEF SharedTypes
  <2>4. QED BY <2>1, <2>2, <2>3
<1>11. SharedOK'
  <2>1. SharedTypes' BY <1>1, <1>3, <1>10 DEF SharedTypes
  <2>2. NoZero' BY <1>1, <1>3 DEF NoZero
  <2>3. QED BY <1>10, <2>1, <2>2 DEF SharedOK
<1>12. /\ L \in Local /\ L.pc = "turn" /\ L.job = "heard" /\ L.ip = at[s].ip
       /\ L.hit = at[s].hit
  <2>1. 0 \in 0 .. MaxEntries BY Interfaces
  <2>2. QED BY <1>1, <1>3, <2>1 DEF Local
<1>13. at'[s] = L BY <1>1, <1>2, StepOwn
<1>14. fs \in SUBSET Iface /\ "miss" \in Shared BY DEF Shared
<1> HIDE DEF fs
<1> HIDE DEF L
<1>15. Right(s)'
  <2>1. Control(s)' BY <1>2, <1>4, <1>12, <1>13 DEF Control
  <2>2. Flagged(s)' BY <1>2, <1>12, <1>13 DEF Flagged
  <2>3. BufferKept(s)' BY <1>1, <1>3, <1>12, <1>13 DEF BufferKept
  <2>4. HeaderKept(s)' BY <1>12, <1>13 DEF HeaderKept
  <2>5. IndexKept(s)' BY <1>12, <1>13 DEF IndexKept, Uses
  <2>6. MissKept(s)' /\ MessageKept(s)' /\ FrameKept(s)'
    BY <1>12, <1>13 DEF MissKept, MessageKept, FrameKept
  <2>7. QED BY <2>1, <2>2, <2>3, <2>4, <2>5, <2>6 DEF Right
<1>16. Only("miss", fs) BY <1>1, <1>10 DEF Only
<1>17. is_Garp' = is_Garp BY <1>1
<1>18. QED BY <1>1, <1>2, <1>11, <1>12, <1>14, <1>15, <1>16, <1>17, StepInv

LEMMA TurnInv ==
  ASSUME IInv, NEW s \in Slot, Turn(s)
  PROVE  IInv'
<1> DEFINE body == Message(s)
<1>1. /\ at[s].pc = "turn"
      /\ UNCHANGED <<table, is_Garp, headers, frames, clicks>>
      /\ ipHeader' = ipHeader /\ arpHeader' = arpHeader /\ frame' = frame
  BY DEF Turn, headers
<1>2. s \in Process /\ s # UI BY Threads
<1>3. /\ at[s] \in Local /\ SharedTypes /\ Control(s) /\ BufferKept(s) /\ In(s) \in Iface
      /\ NoZero /\ Entered
  BY <1>2, Start DEF IInv, SharedOK
<1>4. at[s].job = "heard" /\ at[s].ip \in Peer BY <1>1, <1>2, <1>3 DEF Control, Asks
<1>5. CASE body.dst # MyIP[INNER]
  <2>1. Alone(s, Idle) /\ data' = data BY <1>5 DEF Turn
  <2>2. Right(s)' BY <1>2, <2>1, AloneOwn, IdleRight
  <2>3. UNCHANGED <<table, is_Garp, headers, data, frames, clicks>> BY <1>1, <2>1
  <2>4. QED BY <1>2, <2>1, <2>2, <2>3, IdleFields, AloneInv
<1>6. CASE body.dst = MyIP[INNER]
  <2> DEFINE L == Goto(s, "dest")
  <2> DEFINE reply == [op |-> "reply", src |-> body.dst, dst |-> body.src, mac |-> body.mac]
  <2>1. Step(s, L, "buffer", {In(s)}) /\ data' = [data EXCEPT ![In(s)] = reply]
    BY <1>6 DEF Turn
  <2>2. body \in Body BY <1>2, <1>3, Readings
  <2>3. reply \in Body /\ reply.mac = body.mac BY <2>2 DEF Body
  <2>4. body.mac # ZeroMAC
    <3>1. data[In(s)].mac # ZeroMAC BY <1>3 DEF NoZero
    <3>2. NoBody.mac # ZeroMAC BY ThreadAssumption DEF NoBody
    <3>3. QED BY <3>1, <3>2 DEF Message
  <2>5. "buffer" \notin at[s].hit => reply = ReplyTo(at[s].ip)
    <3> SUFFICES ASSUME "buffer" \notin at[s].hit PROVE reply = ReplyTo(at[s].ip)
      OBVIOUS
    <3>1. /\ data[In(s)] \in Arriving /\ data[In(s)].op = "request"
          /\ data[In(s)].src = at[s].ip
      BY <1>1, <1>3, <1>4 DEF BufferKept
    <3>2. body = data[In(s)] BY <3>1 DEF Message
    <3>3. body.mac = PeerMAC[at[s].ip] BY <3>1, <3>2, Arrivals
    <3>4. QED BY <1>6, <3>1, <3>2, <3>3 DEF ReplyTo
  <2> HIDE DEF reply
  <2>6. /\ L \in Local /\ L.pc = "dest" /\ L.job = "heard" /\ L.ip = at[s].ip
        /\ L.hit = at[s].hit
    BY <1>3, <1>4 DEF Local, Goto
  <2>7. at'[s] = L BY <1>2, <2>1, StepOwn
  <2> HIDE DEF L
  <2>8. /\ data' \in [Iface -> Body] /\ data'[In(s)] = reply
        /\ \A f \in Iface \ {In(s)} : data'[f] = data[f]
    BY <1>3, <2>1, <2>3 DEF SharedTypes
  <2>9. Right(s)'
    <3>1. Control(s)' BY <1>2, <1>4, <2>6, <2>7 DEF Control
    <3>2. Flagged(s)' BY <1>2, <2>6, <2>7 DEF Flagged
    <3>3. BufferKept(s)'
      <4>1. In(s)' = In(s) BY DEF In
      <4>2. QED BY <2>5, <2>6, <2>7, <2>8, <4>1 DEF BufferKept
    <3>4. HeaderKept(s)' BY <2>6, <2>7 DEF HeaderKept
    <3>5. IndexKept(s)' BY <2>6, <2>7 DEF IndexKept, Uses
    <3>6. MissKept(s)' /\ MessageKept(s)' /\ FrameKept(s)'
    BY <2>6, <2>7 DEF MissKept, MessageKept, FrameKept
    <3>7. QED BY <3>1, <3>2, <3>3, <3>4, <3>5, <3>6 DEF Right
  <2>10. SharedOK'
    <3>1. SharedTypes' BY <1>1, <1>3, <2>8 DEF SharedTypes
    <3>2. NoZero' BY <1>3, <2>3, <2>4, <2>8 DEF NoZero
    <3>3. Entered' BY <1>1, <1>3 DEF Entered, StoredAsMeant, CopiesStray
    <3>4. QED BY <3>1, <3>2, <3>3 DEF SharedOK
  <2>11. Only("buffer", {In(s)}) BY <1>1, <2>8 DEF Only, Covered
  <2>12. "buffer" \in Shared /\ {In(s)} \in SUBSET Iface /\ is_Garp' = is_Garp
    BY <1>1, <1>3 DEF Shared
  <2>13. QED BY <1>2, <2>1, <2>6, <2>9, <2>10, <2>11, <2>12, StepInv
<1>7. QED BY <1>5, <1>6

-----------------------------------------------------------------------------
(* The invariant of the specification. *)

LEMMA InitIInv == Init => IInv
<1> SUFFICES ASSUME Init PROVE IInv
  OBVIOUS
<1>1. NoBody \in Body /\ NoBody.mac # ZeroMAC
  <2>1. NoBody \in Body BY DEF NoBody, Body, IPAddr, MAC
  <2>2. QED BY <2>1, ThreadAssumption DEF NoBody
<1>2. Unknown \in IPAddr /\ ZeroMAC \in MAC BY DEF IPAddr, MAC
<1>3. SharedTypes
  <2>1. table \in Seq(Node) /\ Len(table) = 0 BY DEF Init
  <2>2. 0 <= MaxEntries /\ frames \in 0 .. MaxFrames /\ clicks \in 0 .. MaxClicks
    BY Interfaces DEF Init
  <2>3. is_Garp \in BOOLEAN BY DEF Init
  <2>4. ipHeader \in [Iface -> [src : IPAddr, dst : IPAddr]] BY <1>2 DEF Init
  <2>5. arpHeader \in [Iface -> Body] /\ data \in [Iface -> Body] BY <1>1 DEF Init
  <2>6. frame \in [Iface -> [dst : MAC, type : {"none", "ARP", "IP"}, body : Body]]
    BY <1>1, <1>2 DEF Init
  <2>7. QED BY <2>1, <2>2, <2>3, <2>4, <2>5, <2>6 DEF SharedTypes
<1>4. SharedOK
  <2>1. NoZero BY <1>1 DEF Init, NoZero
  <2>2. Entered BY DEF Init, Entered, StoredAsMeant, CopiesStray
  <2>3. QED BY <1>3, <2>1, <2>2 DEF SharedOK
<1>5. at \in [Process -> Local] BY IdleFields DEF Init
<1>6. ASSUME NEW p \in Process PROVE Right(p)
  <2>1. at[p].pc = "idle" /\ at[p].job = "none" BY IdleFields DEF Init
  <2>2. Control(p) /\ Flagged(p) BY <2>1 DEF Control, Flagged, Filled, Asks, Init
  <2>3. BufferKept(p) BY <2>1 DEF BufferKept
  <2>4. HeaderKept(p) /\ MissKept(p) /\ MessageKept(p) /\ FrameKept(p)
    BY <2>1 DEF HeaderKept, MissKept, MessageKept, FrameKept
  <2>5. IndexKept(p) BY <2>1 DEF IndexKept, Uses
  <2>6. QED BY <2>2, <2>3, <2>4, <2>5 DEF Right
<1>7. QED BY <1>4, <1>5, <1>6 DEF IInv

LEMMA NextIInv == IInv /\ [Next]_vars => IInv'
<1> SUFFICES ASSUME IInv, [Next]_vars PROVE IInv'
  OBVIOUS
<1>1. CASE Dialog
  <2>1. ASSUME NEW dst \in Asked, OnBnClickedButtonSendArp(dst) PROVE IInv'
    BY <2>1, SendArpInv
  <2>2. CASE OnBnClickedButtonGArpSend BY <2>2, GArpSendInv
  <2>3. ASSUME NEW ip \in IPAddr, OnBnClickedButtonItemDel(ip) PROVE IInv'
    BY <2>3, ItemDelInv
  <2>4. CASE SetHeaders BY <2>4, SetHeadersInv
  <2>5. CASE ResetGarp BY <2>5, ResetGarpInv
  <2>6. QED BY <1>1, <2>1, <2>2, <2>3, <2>4, <2>5 DEF Dialog
<1>2. ASSUME NEW p \in Process, Ask(p) PROVE IInv'
  <2>1. CASE Fill(p) BY <2>1, FillInv
  <2>2. CASE Search(p) BY <2>2, SearchInv
  <2>3. CASE Store(p) BY <2>3, StoreInv
  <2>4. CASE SetRequest(p) BY <2>4, SetRequestInv
  <2>5. QED BY <1>2, <2>1, <2>2, <2>3, <2>4 DEF Ask
<1>3. ASSUME NEW p \in Process, Ethernet(p) PROVE IInv'
  <2>1. CASE SetDestinAndType(p) BY <2>1, SetDestinInv
  <2>2. CASE CopyData(p) BY <2>2, CopyDataInv
  <2>3. CASE Send(p) BY <2>3, SendInv
  <2>4. QED BY <1>3, <2>1, <2>2, <2>3 DEF Ethernet
<1>4. ASSUME NEW s \in Slot, Receive(s) PROVE IInv'
  <2>1. ASSUME NEW body \in Arriving, Deliver(s, body) PROVE IInv'
    BY <2>1, DeliverInv
  <2>2. CASE SetHeaderFields(s) BY <2>2, SetHeaderFieldsInv
  <2>3. CASE Lookup(s) BY <2>3, LookupInv
  <2>4. CASE LookAgain(s) BY <2>4, LookAgainInv
  <2>5. CASE Learn(s) BY <2>5, LearnInv
  <2>6. CASE Update(s) BY <2>6, UpdateInv
  <2>7. CASE Throw(s) BY <2>7, ThrowInv
  <2>8. CASE StoreHeard(s) BY <2>8, StoreHeardInv
  <2>9. CASE Turn(s) BY <2>9, TurnInv
  <2>10. QED BY <1>4, <2>1, <2>2, <2>3, <2>4, <2>5, <2>6, <2>7, <2>8, <2>9 DEF Receive
<1>5. CASE UNCHANGED vars
  <2>1. UNCHANGED <<table, is_Garp, ipHeader, arpHeader, frame, data, at, frames, clicks>>
    BY <1>5 DEF vars
  <2>2. SharedOK' BY <2>1 DEF IInv, SharedOK, SharedTypes, NoZero, Entered, StoredAsMeant,
                                  CopiesStray
  <2>3. ASSUME NEW p \in Process PROVE Right(p)'
    <3>1. Right(p) BY DEF IInv
    <3>2. Control(p)' /\ Flagged(p)' BY <2>1, <3>1 DEF Right, Control, Flagged
    <3>3. BufferKept(p)' BY <2>1, <3>1 DEF Right, BufferKept, In
    <3>4. Ahead(p)' = Ahead(p) BY <2>1 DEF Ahead
    <3>5. HeaderKept(p)' BY <2>1, <3>1, <3>4 DEF Right, HeaderKept
    <3>6. Found(p)' = Found(p) /\ Wanted(p)' = Wanted(p) /\ Meant(p)' = Meant(p)
      BY <2>1 DEF Found, Message, In, Wanted, Meant
    <3>7. IndexKept(p)' BY <2>1, <3>1, <3>6 DEF Right, IndexKept, Uses
    <3>8. MissKept(p)' /\ MessageKept(p)' /\ FrameKept(p)'
      BY <2>1, <3>1, <3>6 DEF Right, MissKept, MessageKept, FrameKept
    <3>9. QED BY <3>2, <3>3, <3>5, <3>7, <3>8 DEF Right
  <2>4. QED BY <2>1, <2>2, <2>3 DEF IInv
<1>6. QED BY <1>1, <1>2, <1>3, <1>4, <1>5 DEF Next

\* Whatever the threads interleave, each process is where its job has it, and
\* what it has read or written of the shared objects is still so, unless it has
\* been marked as disturbed.
THEOREM Invariance == Spec => []IInv
BY InitIInv, NextIInv, PTL DEF Spec

\* Every variable keeps its type and its bound (TypeOK).
THEOREM TypeCorrect == Spec => []TypeOK
<1>1. IInv => TypeOK BY Types DEF IInv, SharedOK
<1>2. QED BY <1>1, Invariance, PTL

\* An index that inCache returned is the entry that was looked for when Send or
\* Receive uses it (ARPLayer.cpp:192, :124, :93), unless the user deleted an entry or
\* a header or buffer was overwritten on the way: IndexHolds, for any number of
\* threads and any table.
THEOREM IndexKeeps == Spec => []IndexHolds
<1>1. IInv => IndexHolds BY DEF IInv, Right, IndexKept, IndexHolds
<1>2. QED BY <1>1, Invariance, PTL

\* An undisturbed entry has the address its maker meant, and the user's question
\* never stores the zero address of an announcement: StoredAsMeant.
THEOREM MeantStored == Spec => []StoredAsMeant
<1>1. IInv => StoredAsMeant BY DEF IInv, SharedOK, Entered
<1>2. QED BY <1>1, Invariance, PTL

\* A frame whose sender was not disturbed leaves as it was meant: FrameAsMeant
\* (EthernetLayer.cpp:59).
THEOREM MeantSent == Spec => []FrameAsMeant
<1>1. IInv => FrameAsMeant BY DEF IInv, Right, FrameKept, FrameAsMeant
<1>2. QED BY <1>1, Invariance, PTL

\* Of two entries for one address, one was heard or comes from a Send that another
\* thread disturbed (ARPLayer.cpp:47, :122-127): CopiesStray, for any number of
\* threads and any table.
THEOREM StrayCopies == Spec => []CopiesStray
<1>1. IInv => CopiesStray BY DEF IInv, SharedOK, Entered
<1>2. QED BY <1>1, Invariance, PTL

\* CARPLayer::Receive throws (ARPLayer.cpp:105) only for a message of an unknown
\* opcode or over a buffer that another thread has overwritten: ThrowsForCause.
THEOREM CausedThrows == Spec => []ThrowsForCause
<1>1. IInv => ThrowsForCause
  <2> SUFFICES ASSUME IInv, NEW s \in Slot, at[s].pc = "thrown"
               PROVE  "buffer" \in at[s].hit \/ data[In(s)].op = "unknown"
    BY DEF ThrowsForCause
  <2>1. Control(s) /\ BufferKept(s) BY Threads, Start
  <2>2. at[s].job = "heard" BY <2>1, Threads DEF Control, Asks
  <2>3. QED BY <2>1, <2>2 DEF BufferKept
<1>2. QED BY <1>1, Invariance, PTL

-----------------------------------------------------------------------------
(* Who forgets an address. *)

LEMMA Remembered ==
  ASSUME table \in Seq(Node), table' \in Seq(Node), NEW ip, inCache(ip) # 0,
         \A i \in DOMAIN table : table[i].ip = ip =>
           \E j \in DOMAIN table' : table'[j].ip = ip
  PROVE  inCache(ip)' # 0
<1>1. DOMAIN table = 1 .. Len(table) /\ DOMAIN table' = 1 .. Len(table') OBVIOUS
<1>2. Index(table, ip) \in DOMAIN table /\ table[Index(table, ip)].ip = ip
  BY <1>1, IndexNow, IndexEffect
<1>3. PICK j \in DOMAIN table' : table'[j].ip = ip BY <1>2
<1>4. QED BY <1>1, <1>3, IndexNow, IndexEffect

LEMMA ItemDelForgets ==
  ASSUME IInv, IInv', NEW ip \in IPAddr, NEW other \in IPAddr, other # ip,
         inCache(ip) # 0, OnBnClickedButtonItemDel(other)
  PROVE  inCache(ip)' # 0
<1> DEFINE k == inCache(other)
<1>1. table \in Seq(Node) /\ table' \in Seq(Node) BY DEF IInv, SharedOK, SharedTypes
<1>2. k # 0 /\ table' = RemoveAt(table, k) BY DEF OnBnClickedButtonItemDel
<1>3. k \in 1 .. Len(table) /\ table[k].ip = other BY <1>1, <1>2, IndexNow, IndexEffect
<1> HIDE DEF k
<1>4. table' = SubSeq(table, 1, k - 1) \o SubSeq(table, k + 1, Len(table))
  BY <1>2 DEF RemoveAt
<1>5. /\ Len(table') = Len(table) - 1
      /\ \A j \in 1 .. Len(table') : table'[j] = IF j < k THEN table[j] ELSE table[j + 1]
  BY <1>1, <1>3, <1>4, WithoutElement
<1>6. ASSUME NEW i \in DOMAIN table, table[i].ip = ip
      PROVE  \E j \in DOMAIN table' : table'[j].ip = ip
  <2>1. /\ i \in 1 .. Len(table) /\ i # k /\ Len(table) \in Nat /\ DOMAIN table' = 1 .. Len(table')
    BY <1>1, <1>3, <1>6
  <2>2. CASE i < k
    <3>1. i \in 1 .. Len(table') BY <1>3, <1>5, <2>1, <2>2
    <3>2. table'[i] = table[i] BY <1>5, <2>2, <3>1
    <3>3. QED BY <1>6, <2>1, <3>1, <3>2
  <2>3. CASE i > k
    <3>1. i - 1 \in 1 .. Len(table') /\ ~(i - 1 < k) /\ (i - 1) + 1 = i
      BY <1>3, <1>5, <2>1, <2>3
    <3>2. table'[i - 1] = table[i] BY <1>5, <3>1
    <3>3. QED BY <1>6, <2>1, <3>1, <3>2
  <2>4. QED BY <1>3, <2>1, <2>2, <2>3
<1>7. QED BY <1>1, <1>6, Remembered

\* An undisturbed Send puts its new entry behind the others or over one of the
\* same address.
LEMMA StoreRemembers ==
  ASSUME IInv, IInv', NEW p \in Process, Store(p),
         at[p].hit \cap {"ip", "table", "buffer"} = {}, NEW ip, inCache(ip) # 0
  PROVE  inCache(ip)' # 0
<1> DEFINE index == at[p].index
<1>1. table \in Seq(Node) /\ table' \in Seq(Node) BY DEF IInv, SharedOK, SharedTypes
<1>2. PICK node : /\ node.ip = at[p].node
                  /\ table' = IF index = 0 THEN Append(table, node)
                              ELSE IF index \in DOMAIN table THEN ReplaceAt(table, index, node)
                              ELSE table
  <2> DEFINE new == NewNode(p)
  <2>1. new.ip = at[p].node BY DEF NewNode
  <2> HIDE DEF new
  <2>2. table' = IF index = 0 THEN Append(table, new)
                 ELSE IF index \in DOMAIN table THEN ReplaceAt(table, index, new)
                 ELSE table
    BY DEF Store, new
  <2>3. QED BY <2>1, <2>2
<1>3. at[p].pc = "store" /\ at[p].job # "heard" BY DEF Store
<1>4. Control(p) /\ HeaderKept(p) /\ IndexKept(p) BY Start
<1>5. "ip" \notin at[p].hit /\ at[p].hit \cap {"table", "ip", "buffer"} = {} OBVIOUS
<1>6. at[p].job \in {"user", "hop"} BY <1>3, <1>4, <1>5 DEF Control, HeaderKept, Asks
<1>7. Found(p) = at[p].node
  BY <1>3, <1>4, <1>5, <1>6 DEF Found, HeaderKept, Asks
<1>8. index # 0 => index \in DOMAIN table /\ table[index].ip = at[p].node
  BY <1>3, <1>4, <1>5, <1>7 DEF IndexKept, Uses
<1>9. ASSUME NEW i \in DOMAIN table, table[i].ip = ip
      PROVE  \E j \in DOMAIN table' : table'[j].ip = ip
  <2>1. CASE index = 0
    <3>1. table' = Append(table, node) BY <1>2, <2>1
    <3>2. i \in DOMAIN table' /\ table'[i] = table[i] BY <1>1, <3>1
    <3>3. QED BY <1>9, <3>2
  <2>2. CASE index # 0
    <3>1. table' = [table EXCEPT ![index] = node] BY <1>2, <1>8, <2>2 DEF ReplaceAt
    <3>2. i \in DOMAIN table' /\ table'[i] = IF i = index THEN node ELSE table[i]
      BY <1>1, <3>1
    <3>3. QED BY <1>2, <1>8, <1>9, <2>2, <3>2
  <2>3. QED BY <2>1, <2>2
<1>10. QED BY <1>1, <1>9, Remembered

\* The threads that listen change no address of the table.
LEMMA ListenersRemember ==
  ASSUME IInv, IInv', NEW s \in Slot, Update(s) \/ StoreHeard(s), NEW ip, inCache(ip) # 0
  PROVE  inCache(ip)' # 0
<1>1. table \in Seq(Node) /\ table' \in Seq(Node) BY DEF IInv, SharedOK, SharedTypes
<1>2. \/ table' = table
      \/ \E node : table' = Append(table, node)
      \/ \E k \in DOMAIN table, mac \in MAC : table' = [table EXCEPT ![k].mac = mac]
  <2>1. s \in Process /\ SharedTypes BY Threads, Start
  <2>2. Message(s).mac \in MAC BY <2>1, Readings DEF Body
  <2>3. CASE Update(s) BY <2>2, <2>3 DEF Update
  <2>4. CASE StoreHeard(s) BY <2>2, <2>4 DEF StoreHeard
  <2>5. QED BY <2>3, <2>4
<1>3. ASSUME NEW i \in DOMAIN table PROVE i \in DOMAIN table' /\ table'[i].ip = table[i].ip
  <2>1. CASE table' = table BY <2>1
  <2>2. ASSUME NEW node, table' = Append(table, node)
        PROVE  i \in DOMAIN table' /\ table'[i].ip = table[i].ip
    BY <1>1, <2>2
  <2>3. ASSUME NEW k \in DOMAIN table, NEW mac \in MAC, table' = [table EXCEPT ![k].mac = mac]
        PROVE  i \in DOMAIN table' /\ table'[i].ip = table[i].ip
    <3>1. \A t \in Node : [t EXCEPT !.mac = mac].ip = t.ip BY DEF Node
    <3>2. table[k] \in Node BY <1>1
    <3>3. QED BY <1>1, <2>3, <3>1, <3>2
  <2>4. QED BY <1>2, <2>1, <2>2, <2>3
<1>4. QED BY <1>1, <1>3, Remembered

\* An address that the table had is gone after a step only if the user has deleted
\* it, or a disturbed Send has put its entry over it: OnlyUserForgets.
THEOREM UserForgets == Spec => OnlyUserForgets
<1> DEFINE Forgotten(ip) ==
      \/ OnBnClickedButtonItemDel(ip)
      \/ \E p \in Process : Store(p) /\ at[p].hit \cap {"ip", "table", "buffer"} # {}
<1>1. ASSUME IInv, IInv', [Next]_vars, NEW ip \in IPAddr, inCache(ip) # 0, ~Forgotten(ip)
      PROVE  inCache(ip)' # 0
  <2>1. CASE table' = table BY <1>1, <2>1, IndexNow
  <2>2. CASE Dialog
    <3>1. ASSUME NEW other \in IPAddr, OnBnClickedButtonItemDel(other)
          PROVE  inCache(ip)' # 0
      BY <1>1, <3>1, ItemDelForgets
    <3>2. \/ table' = table
          \/ \E other \in IPAddr : OnBnClickedButtonItemDel(other)
      BY <2>2 DEF Dialog, OnBnClickedButtonSendArp, OnBnClickedButtonGArpSend, SetHeaders,
                  ResetGarp
    <3>3. QED BY <2>1, <3>1, <3>2
  <2>3. ASSUME NEW p \in Process, Ask(p) \/ Ethernet(p) PROVE inCache(ip)' # 0
    <3>1. CASE Store(p)
      <4>1. at[p].hit \cap {"ip", "table", "buffer"} = {} BY <1>1, <3>1
      <4>2. QED BY <1>1, <3>1, <4>1, StoreRemembers
    <3>2. CASE ~Store(p)
      <4>1. table' = table
        BY <2>3, <3>2 DEF Ask, Ethernet, Fill, Search, SetRequest, SetDestinAndType,
                          CopyData, Send
      <4>2. QED BY <2>1, <4>1
    <3>3. QED BY <3>1, <3>2
  <2>4. ASSUME NEW s \in Slot, Receive(s) PROVE inCache(ip)' # 0
    <3>1. CASE Update(s) \/ StoreHeard(s) BY <1>1, <3>1, ListenersRemember
    <3>2. CASE ~(Update(s) \/ StoreHeard(s))
      <4>1. table' = table
        BY <2>4, <3>2 DEF Receive, Deliver, SetHeaderFields, Lookup, LookAgain, Learn, Throw,
                          Turn
      <4>2. QED BY <2>1, <4>1
    <3>3. QED BY <3>1, <3>2
  <2>5. CASE UNCHANGED vars
    <3>1. table' = table BY <2>5 DEF vars
    <3>2. QED BY <2>1, <3>1
  <2>6. QED BY <1>1, <2>2, <2>3, <2>4, <2>5 DEF Next
<1>2. IInv /\ IInv' /\ [Next]_vars =>
        [\A ip \in IPAddr : inCache(ip) # 0 /\ inCache(ip)' = 0 => Forgotten(ip)]_vars
  BY <1>1
<1> HIDE DEF Forgotten
<1>3. Spec => [][\A ip \in IPAddr : inCache(ip) # 0 /\ inCache(ip)' = 0 => Forgotten(ip)]_vars
  BY <1>2, Invariance, PTL DEF Spec
<1>4. QED BY <1>3 DEF OnlyUserForgets, Forgotten

=============================================================================
