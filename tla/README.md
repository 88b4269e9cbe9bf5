# Formal models of ARPWithMFC

ARPWithMFC is a Windows program that asks for and answers Ethernet addresses (ARP),
stands in for other stations (proxy ARP) and forwards IP packets between two
network interfaces, INNER and OUTER. This directory holds TLA+ models of its core,
the TLC configurations that check them, and proofs that hold for every number of
addresses, threads and entries. The sample programs that the WinPcap developer's pack
brings along (`WpdPack/Examples-*`) are third-party code next to that core; they have one
model of their own, of what they acquire and give back.

## The system

| Part | State | Operations | Talks to |
|---|---|---|---|
| `CARPDlg` (UI thread) | source address fields, adapter combo boxes, list of the cache, list of proxies, list of static routes, a one-second timer | `OnCbnSelchangeComboAdapter(2)`, `OnBnClickedButtonSelect` (Select / ReSelect), `OnBnClickedButtonSendArp`, `OnBnClickedButtonGArpSend`, `OnTimer`, delete buttons, `AddProxyArpCache`, `AddRoutingTable` | calls every layer directly; `mp_UnderLayer` is the IP layer |
| `CIPLayer` | `route_table`, one IP header per interface | `AddRouteTable`, `Receive` → `Routing` → `RSend` | receives from Ethernet, hands packets and hops to the ARP layer |
| `CARPLayer` | `m_arpTable`, `m_proxyTable`, `myip`/`mymac`, `is_Garp`, one ARP header per interface | `Receive`, `Send`, `RSend` with `Wait`, `updateTable`, `deleteItem`, `clearTable`, `createProxy`, `deleteProxy` | sends through Ethernet |
| `CEthernetLayer` | one frame header per interface | `Receive` (address filter and demultiplexing), `SetDestinAddress`, `SetType`, `Send` | between the NI layer and IP / ARP |
| `CNILayer` | `canRead`, the open adapters, one receive buffer and one buffer for hardware addresses per interface | two receive threads, `SetAdapter`, `GetMacAddress`, `GetIPAddress`, `Receiveflip`, `Send` | pcap, packet.dll |
| `CBaseLayer`, `CLayerManager` | the links between layers | `ConnectLayers` | once, at start |
| `CDeviceAdd`, `CRoutingTableEntry` | dialog fields | OK buttons | `AddProxyArpCache`, `AddRouteTable` |
| sample programs | device lists, handles, dump files, queues | one `main` each; the user level bridge has two threads and a Ctrl-C handler | pcap, packet.dll |

The UI thread and the receive threads call into the same objects and there is not
a single lock. What makes the program hard to test is therefore the order of steps:

- a frame, the timer, a click and a thread that wakes up from `Wait` meet at one
  vector of entries, of which several may have the same address;
- a row of the list was copied from the table some time ago, and the table has
  changed when the user deletes the row;
- one flag, one Ethernet header and one IP header per interface are shared by all threads;
- ReSelect only flips `canRead`; threads notice it after their current read or
  forward, possibly after `canRead` is true again.

`PROJECT.json` lists these hazards one by one, at their lines, with the properties
that would catch them.

What makes each part correct:

- **cache**: an answer is the word of a station, learnt from the message that brings it,
  and only the user, or a Send that a packet disturbs, makes an address unknown; a
  question ends; the list shows what can be deleted, with that same exception; two
  entries have one address only where one was heard or asked for while another thread did;
- **replies**: only for addresses that are ours or proxied, only to others;
- **forwarding**: a packet goes to the station that is taken for its hop; a packet that
  waits is not dropped for nothing;
- **threads**: both interfaces are served while the program listens, none afterwards;
- **routing**: the first matching route of an order that does not depend on chance decides, and walks see it;
- **adapters**: an interface works on the adapter that is shown, under its MAC; no
  handle is closed under a thread that uses it, and none leaks;
- **samples**: nothing is used before it is acquired or after it was given back;
- **linking**: the layers above and below each layer are those the text says, in its
  order, and from every layer one comes down to the adapter's.

## Modules

| Module | Contents |
|---|---|
| `ARPTable` | the cache as a value: every lookup and update of `m_arpTable` as an operator |
| `ARPLayer` | the running program around it: dialog, receive threads, replies, forwarding, clock; properties |
| `MCARPLayer` | values of the constants for TLC |
| `Resolver` | what the cache promises its users, without a vector; `ARPLayer` implements it |
| `RoutingTable` | the static routes, the dialogs that change them, and the walk of `Routing` |
| `MCRoutingTable` | values of its constants for TLC |
| `Router`, `MCRouter` | `ARPLayer` and `RoutingTable` composed: a packet from its arrival to its frame |
| `ARPThreads`, `MCARPThreads` | the handlers of the ARP, IP and Ethernet layers split at every access to what the threads share |
| `Adapters`, `MCAdapters` | opening and closing adapters, hardware addresses, and the handles that threads have in use |
| `LayerManager` | the text of `ConnectLayers`, the parser that links the layers, and a reading of the text to compare it with |
| `MCLayerManager` | its texts for TLC |
| `Samples`, `MCSamples` | the sample programs as control flow graphs |
| `SequenceFacts` | least and greatest indices, and deletion from a sequence: lemmas that several proofs cite |
| `ARPLayer_proofs` | what each operator of `ARPTable` returns, for every table; the inductive invariant and the theorems about `ARPLayer` |
| `RoutingTable_proofs` | the operators of the routing table, its inductive invariant and theorems |
| `Router_proofs` | the two invariants in the composition, the walks and the packets that wait, and its theorems |
| `ARPThreads_proofs` | the inductive invariant of the interleaved handlers, process by process, and its theorems |
| `Adapters_proofs` | `SetAdapter`, the inductive invariant of `Adapters` and its theorems |
| `LayerManager_proofs` | depth and path of parentheses, the links word by word, and the theorems about `LayerManager` |
| `Samples_proofs` | what the graphs of all sample programs have in common, what each program holds at each label, the inductive invariants and the theorems about `Samples` |

### `ARPTable`

A table is a sequence of `[ip, mac, status, age]`. `status` is `FALSE`, `TRUE` or
`ARP_TIME_OUT` of the code; `age` is the time since `spanTime` was set. Indices start
at 1 and `inCache` returns 0 for the code's −1. Two facts of the code that are easy
to overlook are definitions of their own:

- `Receive` looks its sender up with `inCache(arp_data->hardware_srcaddr)`: four
  bytes of the *hardware* address are compared with the stored *protocol* addresses.
  `FirstFour[m]` is the address that begins MAC `m`. A request therefore completes an
  entry only by such a coincidence, and otherwise appends an entry, even a second one
  of the same address (`HearRequest`);
- a reply completes the first entry of its sender (`HearReply`), and so do lookups
  return the first one (`Lookup`), whatever its status.

### `ARPLayer`

| Variable | Code |
|---|---|
| `arpTable`, `proxyTable` | `m_arpTable`, `m_proxyTable` (the dialog's proxy rows have the same indices) |
| `arpList` | addresses in `m_ListARPTable` |
| `fields` | the two source address controls and MAC edits |
| `myaddr` | `myip`, `mymac` |
| `lost` | history: addresses whose entry a disturbed Send has written over since the list was last emptied |
| `selected` | `canRead`; the combo boxes are disabled and the timer runs exactly when it is true |
| `sending` | the dialog's handler that is sending: the Send button's or Select's, the interface it sends on next, and how long the table was when that Send began |
| `enetType` | `enet_type` of the two Ethernet headers |
| `rx` | for each thread: off, reading, about to ask for a hop, or in `Wait`, with the hop and the interface |
| `sent` | the frames that the last step handed to `pcap_sendpacket` |
| `heard` | history: the sender of the ARP message that the last step has read |

A handler is one action, with everything it calls, except where it sends a request. There it
comes apart, because a question and the search before it are what other threads disturb:

- `RSend` finds nothing and takes its request's filling from `is_Garp` (`ForwardMiss`), asks
  (`ForwardAsk`), and three seconds later looks again (`ForwardWaited` or `ForwardDropped`).
- `Select` reads the fields, reloads them from the adapters, stores what was read as our own
  addresses and starts two threads; `SendArp` fills in the headers. Both are followed by one
  `SendOn` for each interface, OUTER first or INNER first; the dialog does nothing else before
  (`Idle`). In `SendOn` the header of the IP layer may be that of a packet that has just
  arrived (`Passing`, IPLayer.cpp:73): `newNode` may then be for one address and the rest of
  `Send` for another, an entry of the one is written over the entry of the other (`lost`),
  and an announcement is taken for a question.
- Between the search in `Send` and its `push_back` an entry for the same address may be
  added, which the search has missed; then there are two (`Stored`). The dialog can only have
  missed what is behind the place where the table ended when its `Send` began; a thread can
  have missed any entry.

`rx[s].gone` is a history variable: it records that the entry a thread waits for was removed
by the user or written over by a disturbed Send, or that it never was made, because the hop
is our own address.

What is said about `ARPLayer`, by the runs and by the theorems, is said of interleavings of
these steps. It is not said of every interleaving in the program: what happens *inside* the
other handlers is only in `ARPThreads`, where a deletion moves an index between its search
and its use, the headers and the buffer are torn, and a message with an unknown opcode ends
the program. Some of that would break properties of `ARPLayer` as well. An index moved by
a deletion lets a reply complete, or a Send replace, the entry of another address, against
`BindingAnnounced`, `RowsBacked`, `WaiterKeepsEntry` and `ImplementsResolver`; a torn buffer
does the same with what a message says, and with whom a reply goes to (`AnswersOwned`).
`ARPThreads` checks that nothing goes wrong without such a meeting and names the object.

Besides:

- the three seconds of `Wait` are not tied to the ticks of the clock: a thread may
  wait for any time;
- the IP packet is reduced to the hop and interface that `Routing` picks; any hop of
  `Hop` may come with any interface (`Router` takes them from the routes);
- `ReceiveIgnored` stands for every frame that is dropped on the way up: addressed to
  others, sent by ourselves, of another type, with our own inner address as its ARP
  sender, with a reverse ARP opcode, or without a matching route;
- a send does not fail. When `pcap_sendpacket` does, the thread stands in a message box
  (NILayer.cpp:73) until the user closes it; `ThreadsStop` and `QuestionsEnd` suppose
  that this does not happen;
- adapters do not change their addresses and do open (`Adapters` lets them fail); the MAC
  edit is read-only in the resource file, so that only the IP address of a source field is
  typed;
- `OnBnClickedButtonGArpSend` only runs at the end of `Select` (its own button is
  not shown), `getMACinARP` has no caller, but is what the header file documents
  as the lookup: `Lookup`.

### `Resolver`

`answer[a]` is unknown, open, known or stale, with the MAC that users of the table would
get. It changes by `Ask`, `Learn`, `Expire`, `Forget`, `Displace` and `ForgetAll` and in no
other way. `Learn` needs the message: `heard` is the one that the step has read, and its
`Station` becomes the answer for an address it may be taken `For`, the sender's own or the
one that the sender's MAC begins with. `ARPLayer` maps each address to the status and MAC of
its *first* entry (`AnswerOf`) and says of each step whose message it has read.
`ImplementsResolver` says that every step of `ARPLayer` is one step of `Resolver` or none:
copies behind the first entry are invisible, and a message changes one answer. A deletion may
bring to light what an older entry says (`Forget`): an answer that some station gave, or a
question that nobody has answered, for the second of two open entries is not reached by
replies. A disturbed Send writes the question for one address over the answer for another
(`Displace`).

### `RoutingTable`

| Variable | Code |
|---|---|
| `route_table` | `CIPLayer::route_table` |
| `list` | the rows of `m_ListStaticRoutingTable` |
| `ttl` | `m_sHeader[f].ttl` of the IP layer |
| `walk` | for each receive thread, the iterator of `Routing` and the packet; `news` is a history variable, the routes added since the walk began |
| `sent` | the arguments of the last step's call of `RSend` |

Addresses are functions from 1 .. `AddrSize` to bytes 0 .. `Base` − 1, so that the
comparison of `LongestPrefix` (byte by byte, all at once) and the masks are what they
are in the code; `BitAnd` is the bitwise and. `Routing` looks at one row per step,
because the OK button of the route dialog can run in between; the list is linked, so
an insertion moves the place of a walk without disturbing it. The pointers of a node
are taken to be set in one step (a torn node is undefined behaviour). Of the three
check boxes, the one named `m_RoutingCheckDown` sets `IP_ROUTE_GATEWAY`. A selection
mark of −1 deletes nothing. `DelRouteTable` and `SetDefaultGateway` have no caller.
No constructor sets the `ttl` of a header; nothing reads it before `Receive` writes it,
and 0 stands for its first value.

### `Router`

`Router` extends `ARPLayer` and instantiates `RoutingTable`, with the same threads for both.
Where `ARPLayer` draws hops from a set, a packet here arrives at a reading thread
(`Arrive`), goes along the rows (`NextRow`), and is given up (`GiveUp`) or handed to `RSend`
with the hop and interface of the row (`Forward`: by a proxy row, from the cache, or towards
a question). `Ask` is the request of `RSend` and `Waited` its end. Everything else inside a
handler is as whole as it is in `ARPLayer`, and the properties here mean that. The other actions of the parts interleave
(`Other`, `AddRoute`), except that the Delete button of the routes, which changes nothing
but the dialog's list, is left to `RoutingTable`.

| Variable | Code |
|---|---|
| `calls` | the arguments of the last step's call of `RSend` |
| `cargo` | `temp`, the packet that a thread in `Wait` has copied; `news` is a history variable, the routes added since the packet arrived |
| `left` | the packet of the frame that the last step sent, with the hop, interface and MAC it was sent to |

A packet for the address `h` keeps `h` as its hop through `Wait`, although the code reads
that address again from the receive buffer: with one thread for each interface nothing
writes the buffer in between. `ARPThreads` has the case in which something does.

### `ARPThreads`

| Variable | Code |
|---|---|
| `table`, `is_Garp` | `m_arpTable`, `is_Garp` |
| `ipHeader`, `arpHeader`, `frame` | `m_sHeader` of `CIPLayer`, `CARPLayer` and `CEthernetLayer`, for each interface |
| `data` | the receive buffer of each interface in `CNILayer` |
| `at` | for each process (the UI and the receive threads) its place in the handler and the handler's local variables; `hit` is a history variable |
| `table[i].meant`, `.hit`, `.stray` | history, for each entry: what its maker had in mind, whether the maker's header or buffer was overwritten, and whether the entry was heard, made by a disturbed Send, or took the place of such an entry |
| `frames`, `clicks` | how many frames and clicks there have been, for the bounds |

The grain is one access to one shared object: the fields of a header are written at once and
a call of a vector's method is whole, so that what is lost is tearing *inside* a header and
a reallocation under a reader, which are undefined behaviour with any outcome. An index
behind the last entry reads any MAC. `hit` records for each process which shared object that
it has written, or decided by, another process changed before it was read again; the
properties say that a frame, an index or an entry is wrong *only* with such a hit, and name
the object. One of the objects is no variable: `miss` stands for the entries behind the last
one that the search of `Send` has seen. A search and the use of its index are two steps
wherever the code has two: in `Send`, in `RSend`, in the request branch of `Receive` and in
its reply branch (`Learn`, `Update`). A message whose opcode `Receive` has no case for makes
it throw (`Throw`), and so does a buffer that a packet has overwritten meanwhile. Ages,
statuses and proxies are left to `ARPLayer`. Each packet's hop is a constant here (`Hop`),
copied with the route when it is a gateway and read from the buffer when it is the
destination itself, as in the code. The handlers of the dialog run one after another; while
`Wait` lasts, the receive thread pumps no message of the dialog.

### `Adapters`

| Variable | Code |
|---|---|
| `combo`, `edit`, `ip` | the combo boxes, MAC edits and address fields of the two interfaces |
| `device`, `handle`, `oid` | `device`, `m_AdapterObject` and `OidData` of `CNILayer` |
| `source` | `enet_srcaddr` in the frame header of each interface |
| `canRead` | `canRead` |
| `rows` | the proxy rows: the adapter chosen and the MAC it was given |
| `added` | history: how many rows were ever added |
| `rx` | the receive threads, each with the handle it has in use; `old` is a history variable: started before the last ReSelect |
| `opened`, `closed` | history: every pcap handle ever opened, with its adapter, and those closed |

Opening an adapter may fail each time. The buffers of `OidData` start with what `malloc`
left in them. `SetAdapter` is what `CNILayer::SetAdapter` and the dialog do with its result;
`AddProxyArpCache` includes `GetMacAddress`, which reads the MAC into the buffer of OUTER and
leaves the handle it opens open; `OnBnClickedButtonDelete` takes the row away and closes
nothing, so that `LeaksCounted` counts the rows ever added.
packet.dll is taken to open an adapter that exists. A machine has at least two adapters, as
`GetIPAddress` presupposes; the ten that `Device` arrays could hold are not a bound here.

### `Samples`

A program is a function from labels to nodes. A node is a call or a condition of the
program's `main`: what it acquires (`Try`, with an edge for failure), gives back (`Drop`),
needs (`needs`), asks or tests, and the labels that follow. The actions run the nodes of
the 28 programs, and in the bridge those of its two threads and of `ctrlc_handler`.
Packets, filters, options and what is printed are left out. `Usage` stands for the checks of
command lines. Ctrl-C ends a program at any label unless the bridge has its handler
installed. The stream that `pcap_fopen` takes over from `fopen` counts as the pcap handle's.

### `LayerManager`

| Variable | Code |
|---|---|
| `mp_aLayers` | `mp_aLayers`, as long as `m_nLayerCount` |
| `text`, `pcList` | the argument of `ConnectLayers`, and what `MakeList` has left of it |
| `nodes`, `pNode` | the list from `mp_sListHead`, and the node that `LinkLayer` reads next |
| `pLayer`, `stack` | the local variable of `LinkLayer`; `mp_Stack` up to `m_nTop` |
| `upper`, `under` | `mp_aUpperLayer` and `mp_UnderLayer` of each layer |

The text is a sequence of words, each with the number of blanks before it, because
`MakeList`, one round of its loop a step, reads a word once for each of those blanks: the
dialog's own text, `NI ( *Ethernet ( *Network ( *Dlg  -ARP ) *ARP ) )`, has two before
`-ARP`, the one kind of word that may be read twice. A name that no layer has is `Null`;
after it `LinkLayer` takes everything for a name, so that nothing more is linked.
`WellFormed` leaves out the texts for which the code calls a method of a null `Top()` or
writes behind `mp_Stack`. The reference reading (`Parent`, `Above`, `Below`) matches
parentheses by counting and knows neither nodes nor a stack. The guard of `Push` is the
code's, one too late, and out of reach of well-formed texts. `DeAllocLayer` and
`SetUnderUpperLayer` have no caller.

## Runs

The runs of the first table use `MCARPLayer`: two own addresses, two peers `h` and `k`, and
the MAC of `k` begins with the bytes of `h`, so that the coincidence above happens. Ages are
counted to 2, with lives 0 and 1: an incomplete entry is too old after one tick, a complete
one after two; only their order and the two comparisons matter.

| Run | Distinct states | Question |
|---|---|---|
| `cache` | 159 thousand | both peers send requests and replies for each other, the user asks for both and deletes, a packet from `h` to `k` passes while the dialog sends: is the cache right? (`TypeOK`, `RowsBacked`, `BindingAnnounced`), and does it implement `Resolver` (`ImplementsResolver`)? |
| `reply` | 97 thousand | up to two proxy rows for one address, blank and adapter addresses, a peer that claims our address, an inner thread that survives a quick ReSelect: who is answered for whom (`AnswersOwned`), and is each interface served (`InterfacesServed`)? |
| `threads` | 216 thousand | a thread for each interface, packets for `h`, which has a proxy row, requests of the user for `h`, and its answers, under `FairSpec`: `QuestionsEnd`, `ThreadsStop` |

Bounds and why they suffice. Two entries are two copies of one address, the second of them
behind what a deletion uncovers, or the entries of two addresses that a message, a Send or
a deletion can mistake for each other. In `threads` two threads ask for `h` at once, and
the dialog a third time, so that open copies occur and `QuestionsEnd` speaks of them. `cache`
has no packets that are forwarded: `router` has, with the waits that follow, and `threads` has
them for liveness. In `reply` the table is of no interest and has one entry; two proxy rows
make "the first" differ from "the last", and the third slot gives the inner interface two
threads at once. `MaxEntries` and `MaxProxies` guard the steps that would append beyond them;
nothing else is bounded. What is proved below needs no bound.

One run uses `MCRoutingTable`: addresses of two bytes of two bits, five routes (a
network reached directly, half of it behind a gateway, the default route, one that is
down, one with all flags), among whose gateways there are equal, ordered and
incomparable ones.

| Run | States | Question |
|---|---|---|
| `routes` | 96 thousand | two threads walk the table while the user enters up to three routes in any order, equal ones included, and deletes rows: `TypeOK`, `NoRouteSkipped`, `ListedInstalled`, `OrderedWhenComparable`, `OthersKeepRoute`, `OlderEqualDecides` |

Three rows are enough for a new one to land before, at and behind the row of a walk, and
for a row that is incomparable with two others that are ordered.

One run uses `MCRouter`: one thread for each interface, three routes (a network behind
INNER, everything through the gateway `k` behind OUTER, a route for `k` that is down), of
which up to two are in the table, and packets for `h`: the third route is one to go past. The gateway speaks, `h` never
does; no MAC begins with an IP address here, and there are no proxy rows.

| Run | Distinct states | Question |
|---|---|---|
| `router` | 1.2 million | both threads take packets along the table and wait for hops while the user adds routes and deletes entries: does each packet leave for the hop and on the interface of the row that was to decide (`PacketsFollowRoutes`), to a station that is taken for that hop (`PacketsAddressed`), and does a waiting thread find its entry (`WaiterKeepsEntry`)? `RouterTypeOK` |

A row that is down and decides is in `routes`. Two rows and two entries are enough for a route to be added in front of, or behind, the row
of a walk or of a packet that waits, and for the entry of one hop to stand where that of
another was when the wait began.

One run uses `MCARPThreads`: two threads of OUTER, as after a quick ReSelect, a request for
our inner address, a packet and a message with an unknown opcode, whose sender's MAC begins
with the address of the gateway `h`, and a reply of `h`.

| Run | Distinct states | Question |
|---|---|---|
| `races` | 2.9 million up to symmetry | at most three events, of which two are frames and two are clicks (Send, announcement, deletion), in all interleavings of their steps: `TypeOK`, `IndexHolds`, `StoredAsMeant`, `CopiesStray`, `FrameAsMeant`, `ThrowsForCause`, `OnlyUserForgets` |

Every one of these properties is about two handlers that meet; three events put a third
between two steps of another (a deletion between the search and the use of an index that a
frame has appended behind). The two threads are interchangeable, hence `SYMMETRY`. The run
does not check for deadlock: it ends when the events are used up, or with the exception.

Two runs use `MCAdapters`: two adapters, one of which has an IPv4 address behind an address
of an unknown family.

| Run | Distinct states | Question |
|---|---|---|
| `handles` | 1.3 million | up to four handles are opened by choosing, reloading and registering a proxy, whose row may be deleted, with failures, while a thread per interface reads and sends: `TypeOK`, `AdapterAsShown`, `UsedHandlesOpen`, `LeaksCounted` |

Four handles are both interfaces opened and reopened, or one leaked and one more opened
behind it; a thread that ReSelect left running then meets a handle that is closed.

One run uses `MCSamples`, all programs from all labels, with up to two adapters, so that a
number may be below, inside and above the list and the bridge can choose two different ones.

| Run | Distinct states | Question |
|---|---|---|
| `samples` | 4 thousand | on which path does a program use what it does not hold (`UsesHeld`), end with what it has not given back (`ReleasedAtEnd`), open an adapter that is not there (`SelectedExists`), or print from both threads at once (`PrintsApart`)? `TypeOK` |

The exceptions are part of the properties (`Careless`, `Left`, `PacketDll`): the bridge uses
its device list after it has freed it, `sendcap` fills a queue that could not be allocated,
`savedump` never closes the dump file it writes, and the programs that use packet.dll take 0
and negative numbers. Programs end, so the run does not check for
deadlock.

One run uses `MCLayerManager`: the dialog's five layers, `MAX_LAYER_NUMBER = 5`.

| Run | States | Question |
|---|---|---|
| `linking` | 313 thousand | all well-formed texts of up to `MaxWords = 5` words, and those that differ from the dialog's in two words replaced, removed or added, names of no layer included: are the links what the text says (`TypeOK`, `LinkedAsWritten`), and does everything that a layered text, such as the dialog's (`DialogLayered`), puts above the adapter come down to it (`SendsReachAdapter`)? |

The short texts are complete; the edited ones reach three open parentheses, two layers
beside each other and a `-` before and behind the `*` of its name. The machine stops
when the text is read, so the run does not check for deadlock. The links are made once,
before anything else runs, and the other modules take them as given: IP above ARP above
Ethernet above the adapter.

Fairness (`FairSpec`): the clock advances; the window's timer fires again and again while it
is set; a handler of the dialog that is sending goes on; `pcap_next_ex` was opened with a
timeout of 1000 ms and `Wait` ends after three seconds, so a thread that can take such a
step does. Nothing is assumed of the user, of peers, or of replies. `QuestionsEnd` supposes
that the user stops pressing Send for good, since every press makes the question new.

### What the documents say and the code does not do

Each of these runs checks one sentence of the README or of a comment and finds a
behaviour of the code that contradicts it.

| Run | Sentence | Behaviour |
|---|---|---|
| `doc_type` | README.md:35 the type is ARP | a reply after a forwarded packet has the IP type |
| `doc_resolved` | ARPLayer.cpp:185 the packet is sent when the reply came | after the wait, without a reply, it is sent to what the request was filled with: the broadcast address, or the zero address while Select announces, which is the shorter trace |
| `doc_device` | ARPDlg.cpp:294 load the MAC address of the selected adapter | a proxy of the outer adapter that follows one of another adapter gets that one's MAC |

Other sentences that the code departs from, evident from one line each and not checked by
a run: a request from the very address that an entry waits for appends a second entry and
leaves the first one incomplete (README.md:46); requests for our outer address are not
answered (ARPLayer.cpp:64); a packet leaves with the time to live it came with
(IPLayer.cpp:30); `tlength` is used with its bytes exchanged, so that of 1281 bytes 261 are
sent (IPLayer.h:35); the announcements of Select go to 00:00:00:00:00:00 instead of the broadcast
address (README.md:33, ARPLayer.cpp:116); the target hardware address of other requests is
the broadcast address instead of zero (README.md:31); unanswered entries time out instead
of staying InComplete (README.md:47); `getMACinARP` returns the broadcast address for an
unanswered entry (ARPDlg.h:66-68); the comment at IPLayer.cpp:108 expects the default
route in the last row, while `AddRouteTable` puts one with a gateway before the rows
without one, so that it decides instead of them; the Delete button of the static routes
(ARP.rc:118) removes the row and leaves the route in use (ARPDlg.cpp:565).

What the interleavings show besides, without a sentence that they contradict: two threads that
ask for one hop at once append two open entries, of which only the first is ever completed, so
that deleting it uncovers the question again; a thread that asks while Select announces fills
its request, and its entry, with the zero address; an announcement whose IP header a packet
overwrites is taken for a question, and stores an entry with the MAC 00:00:00:00:00:00; and a
question whose header is overwritten between its first and its second reading writes its entry
over that of another address. `CopiesStray`, `StoredAsMeant` and `OnlyUserForgets` of
`ARPThreads` say that nothing but such meetings does this; `ARPLayer` has all four, and its
properties allow for them.

## Proofs

`ARPLayer_proofs` proves, for all sets of addresses, announcements, targets, hops,
proxies and threads and all bounds, from the assumptions named in `ARPTable` and
`ARPLayer` (types of the constants; broadcast and zero are not addresses of stations;
the two lives are ordered and below `MaxAge`):

`TypeCorrect`, `RowsAlwaysBacked`, `WaitersKeepTheirEntry`, `BindingsAnnounced`,
`ServedInterfaces`, `OwnedAnswers` and `Implementation` (`ImplementsResolver`), that is,
every safety property of the passing runs. Like the model, they speak of whole handlers
that come apart at their requests.

The argument:

1. The lemmas about `ARPTable` state what each operator returns: which entries it keeps at
   their index with their address (`Keeps`), which it changes and into what. The first
   match of `inCache` is the least index (`LeastElement`, `InCache`). `StoredWrites` covers
   all that a `Send` can do, disturbed or not: it writes one entry, over one that there was
   or behind the last. Later proofs cite these lemmas and never expand an operator of
   the table.
2. `IInv` is `TypeOK`, `TableOK(arpTable)`, `RowsBacked` and `WaiterKeepsEntry`.
   They need each other: `deleteItem` keeps the table a sequence only when it finds the
   row, which it does because nothing loses an address but a deletion and a Send that has
   written another entry over it (`SendKeeps`, `AskKeeps`, `KeepsKept`); the latter is
   remembered in `lost` and in `rx[s].gone`. `TableOK` says what an entry's MAC is:
   an incomplete one has the filling of a question, a complete one that of a station
   that may be taken for its address, one that has timed out either.
3. One lemma per variable shows how a step changes it (`TableStep`, `RowsStep`,
   `WaitersStep`, `ThreadsStep`, `FramesStep`, ...), and `LayerInv` puts them together.
4. `Implementation` shows that the vector with its copies implements `Resolver`, which has
   one answer for each address. What is seen of an address is its first entry (`SeenFirst`),
   and there is one lemma per operation: `SeenStored`, `SeenRequest`, `SeenReply`,
   `SeenTimer`, `SeenClock`, `SeenDelete`. A write over the entry of another address shows
   what was behind that one (`SeenDisplaced`), a deletion what was behind the one deleted;
   by `TableOK` either is something that can have been the answer (`SeenOlder`).

The lemmas about a step are stated for `LayerStep`, which is `Next` with any address as a
packet's hop instead of one of `Hop`, so that they also hold for the steps of `Router`.

`RoutingTable_proofs` proves for all routes, packets, threads, address and byte sizes
and bounds: `TypeCorrect`, `WalksSkipNothing`, `ShownRoutesInstalled`,
`ComparableGatewaysOrdered`, `UnmatchedUnchanged` and `OlderRoutesDecide`, every property
of the run `routes`. `AddEffect` says where each row is after an addition,
`DecisionEffect` what the first match is. Here `IInv` is the conjunction of the state
properties. `WalksStep` follows a walk through an addition before, at or behind it;
`RestNotGreater` is the heart of the order: the row at which `AddRouteTable` stops is
not greater than the new one, therefore less *if* the two can be compared, and so are all
after it. `OlderRoutesDecide` needs that order of the invariant, not only the step.
Nothing is proved about `BitAnd`, and nothing needs to be: the theorems hold for any masks.

`Adapters_proofs` proves `AdapterShown` (`AdapterAsShown`), `UsedHandles`
(`UsedHandlesOpen`) and `Leaks` (`LeaksCounted`) for all adapters, threads and bounds, from
`DeviceAssumption`. `IInv` has three parts. `Settled` says that each interface's handle is
open, numbered among those opened, and of the adapter that its combo box picks; without
that numbering a new handle could be one that was closed. `Joined` says that while the combo
boxes are enabled every thread that still runs is old, which is why `SetAdapter` may close
what it closes. The third is `LeaksCounted`. `AdapterSet` shows once what `SetAdapter` does
to a sound record and that it leaks nothing; `Reloaded` applies it twice. `AddKeepsInv`
counts: one more number, one more row ever added; a deletion changes neither
(`DeleteKeepsInv`).

`TypeCorrect` (`TypeOK`) is proved beside that invariant: `AddressFound` follows
`GetIPAddress` through its two searches to an address of the adapter or the blank one.

`Router_proofs` puts the two invariants together. It uses the proofs of `ARPLayer` by
EXTENDS, and those of `RoutingTable` through an instance of their module with Router's
table of routes; `RowAssumption` says that the constants of `Router` meet
`RoutingTable`'s assumptions. `RouterIInv` adds what relates the parts: a thread that walks
reads no frame (`WalkersRead`), and a packet that waits was routed by a row of the table, in
front of which only rows that have been added since match it (`CargoFollows`). That survives
`AddRouteTable` because an insertion moves rows and removes none (`FollowsAdd`). From it
follow `RoutesFollowed` (`PacketsFollowRoutes`), also for packets that have waited, and
with `TableOK`, which says whose MAC an entry can hold, `StationsAddressed`
(`PacketsAddressed`). `RouterTypes`, `RouterWaiters` and `RouterResolver` carry types,
`WaiterKeepsEntry` and the refinement over to the composition.

`ARPThreads_proofs` proves for any number of threads, any frames and all bounds
`TypeCorrect`, `IndexKeeps` (`IndexHolds`), `MeantStored` (`StoredAsMeant`), `MeantSent`
(`FrameAsMeant`), `StrayCopies` (`CopiesStray`), `CausedThrows` (`ThrowsForCause`) and
`UserForgets` (`OnlyUserForgets`), from `ThreadAssumption`: no station has the broadcast,
the zero or the unknown MAC, and what peers send carries a peer's address, its own MAC and,
if it is a packet, the address of a peer. `IInv` is about one process at a time. `Control`
says where it can be with each of its jobs. `Flagged` ties `is_Garp` to the announcement of
the UI and so to the MACs that requests are filled with. `BufferKept`, `HeaderKept`,
`IndexKept`, `MessageKept` and `FrameKept` say for each shared object what the process has
read from it or written into it, and that this is still so *unless the object is in the
process's* `hit`. The argument that covers all interleavings is made once: a step that
writes at most the object it marks (`Only`) keeps all of that for the processes that do not
take it (`Others`), because each one that still needs the object is marked (`Bystander`).
What remains is one lemma per action about the process that takes the step. `StepInv` puts
the two together. `Entered` is what the entries themselves satisfy (`StoredAsMeant`,
`CopiesStray`); for the latter, `MissKept` says that a Send which has found nothing, and was
not disturbed, still finds nothing but strays when it appends. `IndexHolds` needs no more
than that appends and updates leave the addresses of the entries where they are, and that a
replacement of an entry of another address marks its users.

`LayerManager_proofs` proves `TypeCorrect` (`TypeOK`), `WrittenLinks` (`LinkedAsWritten`)
and `ReachAdapter` (`SendsReachAdapter`) for all well-formed texts of any length, any layers
and any `MAX_LAYER_NUMBER`, from `LinkingAssumption`: the layers have different names, no
more of them than `MAX_LAYER_NUMBER`. `IInv` says that the words read so far account for
everything. There is a function from the nodes to the words they were copied from, in their
order and a `-` possibly more than once (`Copied`, `Scanned`). `ReaderAt` says that `pLayer`
is the layer named last and that the stack holds the layers in front of the parentheses that
are open there, the outermost first, each one deeper than the one before (`PathTo`): that is
why `Top` is the layer of the word's `Parent`, which is defined by counting (`ParentAt`),
and why the stack is never deeper than the text (the bound of `TypeOK`). `LinksTo` says that
the links are those of the words up to the last one read; a word that links adds the last
element to `Listed` (`UpperNext`) or becomes the last that `Placed` looks at (`PlacedLast`),
and reading a `-` once more changes nothing. From the first name that no layer has on, the
links stay what they are (`NoLayerRead`, `FirstRead`). `ReachAdapter` follows from these
links and the text alone. `Height` says how far out a layer is placed: twice the parent of
its word, one more if a `-` names another layer below it. Parents of later words may be
further out, never in between (`ParentExists`, `ParentNested`), so in a layered text every
step down lessens the height or leads to the first layer (`StepDown`). A set of layers that
is closed under going down and leaves out the first one would have a layer of least height,
and the one below it is lower still: this replaces the induction that the provers lack.

`Samples_proofs` proves `TypeCorrect` (`TypeOK`), `PrintApart` (`PrintsApart`),
`ChosenExists` (`SelectedExists`), `UseHeld` (`UsesHeld`) and `ReleaseAtEnd`
(`ReleasedAtEnd`) for machines with any number of adapters. The first part is about the
programs and not about their runs. `Graph` says of a program that each of its nodes leads to
labels it has, that it never enters or leaves the section, and that only a check of the
number leads to `openChosen`. `@@` keeps this (`Joined`, `Changed`), so that a program
inherits it from the parts it shares with others, and `ProgramGraph` collects the 28.
`ForwarderGraph` marks the labels between `Enter` and `Leave` (`Locked`) and says that no
node leads into or out of them otherwise. `BridgeChain` says in which order the bridge
checks its two numbers. `IInv` needs these facts and little else: who is at a label of
`Locked` owns the section (`LockHeld`; the converse is false, for a terminated thread never
leaves), and at each label on the way to `openSecond` the checks passed so far hold of the
numbers (`Chosen`).

What a program holds is a data flow over its graph. A table (`OfMost`, ..., `OfBridge`; most
programs share one) says for each label what is held there. `Fits` reads it as two bounds:
main holds at least that, but for what it is careless of, and at most that and what it
leaves behind in the end.
`Flows` says of a node that it needs nothing the table lacks and that, whichever outcome its
call has, the table of the next label fits. A lemma per constructor shows this of a node, one
per program collects its nodes, and `ProgramSound` the 28 programs; what holds of two graphs
holds of their `@@` (`JoinedSound`), and a variant that closes less is its original with more
left behind (`MoreLeft`). `HInv` adds to `IInv` what a run needs beyond that: main holds what
its label says (`Holding`); while a forwarder runs, main is between its start and
`TerminateThread`, or at the last loop (`Forwarding`), where both handles and the section are
held; the Ctrl-C handler is installed, and runs, only at that loop (`Catching`). The last
part is why the handler, which ends the program with whatever main holds, cannot leave the
device list behind.

TLC agrees with the inductive invariants: they were checked on the configurations of their
modules' runs or, for `LayerManager`, on the shorter of its texts.

Only model-checked: `QuestionsEnd` and `ThreadsStop`, which need fairness and are out of
the prover's reach. Every other property of the passing runs is a theorem.

## Not modelled, and the plan

No theorem is planned that is not proved.

Operations without a caller are left out: `DelRouteTable`, `SetDefaultGateway`,
`DeAllocLayer`, `SetUnderUpperLayer`. So are the destructors, which run when the program
ends.

Left out for good: MFC start-up and painting (no state); WinPcap's headers and libraries,
of which only the arrival, departure and timing of frames and the success of calls matter
here; formatting and parsing of addresses for display; what the sample programs do with a
packet.
