------------------------------- MODULE Adapters -------------------------------
(***************************************************************************)
(* The adapters of CNILayer: how the dialogs open and close them, the one  *)
(* buffer per interface that their hardware addresses are read into, and   *)
(* the receive threads that keep a pcap handle in use while all that goes  *)
(* on.  What arrives and what is answered is the subject of ARPLayer.      *)
(***************************************************************************)
EXTENDS Integers, Sequences, FiniteSets, SequencesExt

CONSTANTS
  AllDevices,   \* the list of pcap_findalldevs, in the order of the combo boxes
  MACOf,        \* MACOf[d]: the hardware address an adapter reports
  Addresses,    \* Addresses[d]: its addresses, each with its family
  Blank,        \* what an address field without an address reads as, 0.0.0.0
  Typed,        \* addresses a user may type
  NoDevice,     \* device == nullptr
  Garbage,      \* what malloc left in a buffer
  ZeroMAC,      \* 00:00:00:00:00:00
  Slot,         \* receive threads that can exist at a time
  SlotIface,    \* SlotIface[s]: the interface thread s reads from
  MaxOpens,     \* bound on the handles opened
  MaxRows       \* bound on the proxy rows ever added

INNER == "INNER"
OUTER == "OUTER"
Iface == {INNER, OUTER}

Dash == "-"   \* DEFAULT_EDIT_TEXT
NoText == ""  \* what an edit shows before anything is chosen
Device == ToSet(AllDevices)
HardwareAddress == {MACOf[d] : d \in Device}
IPAddress == {Blank} \cup Typed
             \cup UNION {{a.addr : a \in ToSet(Addresses[d])} : d \in Device}

\* GetIPAddress steps to the second adapter for OUTER before it looks at the
\* one that was chosen, so a machine has at least two.
ASSUME DeviceAssumption ==
  /\ AllDevices \in Seq(Device)
  /\ Len(AllDevices) >= 2
  /\ NoDevice \notin Device
  /\ {Dash, Garbage, ZeroMAC} \cap HardwareAddress = {}
  /\ \A d \in Device : Addresses[d] \in Seq(ToSet(Addresses[d]))
  /\ SlotIface \in [Slot -> Iface]
  /\ MaxOpens \in Nat /\ MaxRows \in Nat

VARIABLES
  combo,     \* the selection of each combo box; 0 is GetCurSel's -1
  edit,      \* the MAC shown for each interface
  ip,        \* the address shown for each interface
  device,    \* the adapter each interface was last set to
  handle,    \* m_AdapterObject: the number of a handle, 0 is nullptr
  oid,       \* OidData[f]->Data
  source,    \* enet_srcaddr in the frame header of each interface
  canRead,   \* the combo boxes are disabled while it is true
  rows,      \* the proxy rows: the adapter chosen and the MAC it answers with
  added,     \* how many of them were ever added
  rx,        \* the receive threads and the handle each has in use
  opened,    \* the handles ever opened, numbered from 1: the adapter of each
  closed     \* the numbers of those that were closed

vars == <<combo, edit, ip, device, handle, oid, source, canRead, rows, added, rx,
          opened, closed>>

dialog == <<combo, edit, ip, canRead>>

Off == [pc |-> "off", handle |-> 0, old |-> FALSE]

\* old: the thread was started before the last ReSelect.
Thread == [pc : {"off", "loop", "read", "send"}, handle : 0 .. MaxOpens, old : BOOLEAN]

Init ==
  /\ combo = [f \in Iface |-> 0]
  /\ edit = [f \in Iface |-> NoText]
  /\ ip = [f \in Iface |-> Blank]
  /\ device = [f \in Iface |-> NoDevice]
  /\ handle = [f \in Iface |-> 0]
  /\ oid = [f \in Iface |-> Garbage]
  /\ source = [f \in Iface |-> ZeroMAC]
  /\ canRead = FALSE
  /\ rows = << >>
  /\ added = 0
  /\ rx = [s \in Slot |-> Off]
  /\ opened = << >>
  /\ closed = {}

-----------------------------------------------------------------------------
(* CNILayer. *)

\* Mutant: the list is stepped through once more, where there is a next one.
PickedNext(index) ==
  AllDevices[IF index < Len(AllDevices) THEN index + 1 ELSE index]

\* With nothing selected the loop does not run: the first adapter is meant.
Picked(index) == AllDevices[IF index = 0 THEN 1 ELSE index]

\* The last IPv4 address of an adapter before an address of another family
\* than IPv4 and IPv6; without one the field reads as blank.
GetIPAddress(d) ==
  LET list  == Addresses[d]
      stop  == SelectInSeq(list, LAMBDA a : a.family \notin {"INET", "INET6"})
      known == IF stop = 0 THEN list ELSE SubSeq(list, 1, stop - 1)
      last  == SelectLastInSeq(known, LAMBDA a : a.family = "INET")
  IN  IF last = 0 THEN Blank ELSE known[last].addr

\* Mutant: an adapter that stays the same is not closed before it is reopened.
ClosedUnlessSame(at, d, f) ==
  IF at.handle[f] # 0 /\ at.device[f] # d THEN {at.handle[f]} ELSE {}

Closed(at, d, f) == IF at.handle[f] # 0 THEN {at.handle[f]} ELSE {}

\* Mutant: a failed open leaves a handle behind.
SetAdapterUnnoticed(at, d, f, works) ==
  LET tried == [at EXCEPT !.device[f] = d, !.closed = @ \cup Closed(at, d, f),
                          !.handle[f] = Len(at.opened) + 1]
  IN  IF works
      THEN [tried EXCEPT !.opened = Append(@, d), !.oid[f] = MACOf[d], !.edit[f] = MACOf[d],
                         !.source[f] = MACOf[d], !.ip[f] = GetIPAddress(d)]
      ELSE [tried EXCEPT !.edit[f] = Dash, !.ip[f] = Blank]

\* The handle of the interface is closed and adapter d opened, which may fail;
\* the MAC it reports goes into the buffer, the edit and the frame header.  at
\* is the state before, a record of what changes.
SetAdapter(at, d, f, works) ==
  LET tried == [at EXCEPT !.device[f] = d, !.closed = @ \cup Closed(at, d, f)]
  IN  IF works
      THEN [tried EXCEPT !.handle[f] = Len(at.opened) + 1, !.opened = Append(@, d),
                         !.oid[f] = MACOf[d], !.edit[f] = MACOf[d],
                         !.source[f] = MACOf[d], !.ip[f] = GetIPAddress(d)]
      ELSE [tried EXCEPT !.handle[f] = 0, !.edit[f] = Dash, !.ip[f] = Blank]

Current == [device |-> device, handle |-> handle, oid |-> oid, edit |-> edit,
            source |-> source, ip |-> ip, opened |-> opened, closed |-> closed]

Become(after) ==
  /\ Len(after.opened) <= MaxOpens
  /\ device' = after.device
  /\ handle' = after.handle
  /\ oid' = after.oid
  /\ edit' = after.edit
  /\ source' = after.source
  /\ ip' = after.ip
  /\ opened' = after.opened
  /\ closed' = after.closed

-----------------------------------------------------------------------------
(* The dialogs. *)

\* Mutant: the combo boxes stay enabled.
OnCbnSelchangeAlways(f, index, works) ==
  /\ combo' = [combo EXCEPT ![f] = index]
  /\ Become(SetAdapter(Current, Picked(index), f, works))
  /\ UNCHANGED <<canRead, rows, added, rx>>

OnCbnSelchangeComboAdapter(f, index, works) ==
  /\ ~canRead
  /\ combo' = [combo EXCEPT ![f] = index]
  /\ Become(SetAdapter(Current, Picked(index), f, works))
  /\ UNCHANGED <<canRead, rows, added, rx>>

TypeSource(f, addr) ==
  /\ ~canRead
  /\ ip' = [ip EXCEPT ![f] = addr]
  /\ UNCHANGED <<combo, edit, device, handle, oid, source, canRead, rows, added, rx,
                 opened, closed>>

Startable == {T \in SUBSET {s \in Slot : rx[s].pc = "off"} :
                \A f \in Iface : Cardinality({s \in T : SlotIface[s] = f}) = 1}

\* Both adapters are set again, OUTER first; what decides is what the fields
\* showed before.
Reloaded(works) ==
  SetAdapter(SetAdapter(Current, Picked(combo[OUTER]), OUTER, works[OUTER]),
             Picked(combo[INNER]), INNER, works[INNER])

Complete == edit[OUTER] # Dash /\ ip[OUTER] # Blank

Select(works) ==
  /\ ~canRead
  /\ Complete
  /\ Become(Reloaded(works))
  /\ canRead' = TRUE
  /\ \E started \in Startable :
       rx' = [s \in Slot |-> IF s \in started THEN [Off EXCEPT !.pc = "loop"] ELSE rx[s]]
  /\ UNCHANGED <<combo, rows, added>>

SelectRefused(works) ==
  /\ ~canRead
  /\ ~Complete
  /\ Become(Reloaded(works))
  /\ UNCHANGED <<combo, canRead, rows, added, rx>>

Reselect ==
  /\ canRead
  /\ canRead' = FALSE
  /\ rx' = [s \in Slot |-> IF rx[s].pc = "off" THEN rx[s] ELSE [rx[s] EXCEPT !.old = TRUE]]
  /\ UNCHANGED <<combo, edit, ip, device, handle, oid, source, rows, added, opened, closed>>

\* The OK button of CDeviceAdd, with an adapter selected.  GetMacAddress takes
\* the MAC from the buffer of OUTER; for an adapter other than the one OUTER is
\* set to, it fills the buffer first, and opens a handle it never closes.
AddProxyArpCache(index) ==
  LET d == AllDevices[index]
      mac == IF d = device[OUTER] THEN oid[OUTER] ELSE MACOf[d]
  IN  /\ added < MaxRows
      /\ added' = added + 1
      /\ oid' = [oid EXCEPT ![OUTER] = mac]
      /\ rows' = Append(rows, [device |-> d, mac |-> mac])
      /\ opened' = IF d = device[OUTER] THEN opened ELSE Append(opened, d)
      /\ Len(opened') <= MaxOpens
      /\ UNCHANGED <<dialog, device, handle, source, rx, closed>>

\* The selected proxy row goes, from the list and from the layer's table; a
\* handle that was opened for it stays open.
OnBnClickedButtonDelete(i) ==
  /\ rows' = RemoveAt(rows, i)
  /\ UNCHANGED <<dialog, device, handle, oid, source, added, rx, opened, closed>>

-----------------------------------------------------------------------------
(* The receive threads. *)

\* pcap_next_ex on the handle of the thread's interface, as it is now.
Read(s) ==
  /\ rx[s].pc = "loop"
  /\ canRead
  /\ rx' = [rx EXCEPT ![s].pc = "read", ![s].handle = handle[SlotIface[s]]]
  /\ UNCHANGED <<dialog, device, handle, oid, source, rows, added, opened, closed>>

\* A frame that was read makes the thread send one on either interface.
Forward(s, f) ==
  /\ rx[s].pc = "read"
  /\ rx' = [rx EXCEPT ![s].pc = "send", ![s].handle = handle[f]]
  /\ UNCHANGED <<dialog, device, handle, oid, source, rows, added, opened, closed>>

Done(s) ==
  /\ rx[s].pc \in {"read", "send"}
  /\ rx' = [rx EXCEPT ![s].pc = "loop", ![s].handle = 0]
  /\ UNCHANGED <<dialog, device, handle, oid, source, rows, added, opened, closed>>

Leave(s) ==
  /\ rx[s].pc = "loop"
  /\ ~canRead
  /\ rx' = [rx EXCEPT ![s] = Off]
  /\ UNCHANGED <<dialog, device, handle, oid, source, rows, added, opened, closed>>

Next ==
  \/ \E f \in Iface, index \in DOMAIN AllDevices, works \in BOOLEAN :
        OnCbnSelchangeComboAdapter(f, index, works)
  \/ \E f \in Iface, addr \in Typed : TypeSource(f, addr)
  \/ \E works \in [Iface -> BOOLEAN] : Select(works) \/ SelectRefused(works)
  \/ Reselect
  \/ \E index \in DOMAIN AllDevices : AddProxyArpCache(index)
  \/ \E i \in DOMAIN rows : OnBnClickedButtonDelete(i)
  \/ \E s \in Slot : Read(s) \/ Done(s) \/ Leave(s) \/ \E f \in Iface : Forward(s, f)

Spec == Init /\ [][Next]_vars

-----------------------------------------------------------------------------
(* Correctness. *)

\* Every variable has its type, and the bounds are kept.
TypeOK ==
  /\ combo \in [Iface -> 0 .. Len(AllDevices)]
  /\ edit \in [Iface -> HardwareAddress \cup {NoText, Dash}]
  /\ ip \in [Iface -> IPAddress]
  /\ device \in [Iface -> Device \cup {NoDevice}]
  /\ handle \in [Iface -> 0 .. Len(opened)]
  /\ oid \in [Iface -> HardwareAddress \cup {Garbage}]
  /\ source \in [Iface -> HardwareAddress \cup {ZeroMAC}]
  /\ canRead \in BOOLEAN
  /\ rows \in Seq([device : Device, mac : HardwareAddress \cup {Garbage}])
  /\ added \in 0 .. MaxRows
  /\ rx \in [Slot -> Thread]
  /\ opened \in Seq(Device) /\ Len(opened) <= MaxOpens
  /\ closed \subseteq 1 .. Len(opened)

\* Whatever was chosen, reloaded, failed and registered before: an interface with
\* a handle sends and listens on the adapter its combo box shows (the first one if
\* it shows none), under that adapter's own MAC, which is the one displayed, and
\* the handle is open and the interface's own.  Without a handle no MAC is shown.
AdapterAsShown ==
  \A f \in Iface :
    IF handle[f] = 0
    THEN edit[f] \in {NoText, Dash}
    ELSE /\ opened[handle[f]] = device[f]
         /\ device[f] = AllDevices[IF combo[f] = 0 THEN 1 ELSE combo[f]]
         /\ edit[f] = MACOf[device[f]]
         /\ source[f] = MACOf[device[f]]
         /\ handle[f] \notin closed
         /\ \A g \in Iface \ {f} : handle[g] # handle[f]

\* NILayer.cpp:89 closes a handle under no thread except one that was not joined
\* at a ReSelect and is still in the middle of what it was doing then.
UsedHandlesOpen ==
  \A s \in Slot : rx[s].pc \in {"read", "send"} /\ ~rx[s].old =>
    rx[s].handle \notin closed

\* Choosing and reloading adapters leaks no handle: one that is open and belongs
\* to no interface was opened by GetMacAddress, at most one for each proxy row that
\* was ever added, the rows deleted since included: a deletion closes nothing.
LeaksCounted ==
  Cardinality((DOMAIN opened \ closed) \ {handle[f] : f \in Iface}) <= added

-----------------------------------------------------------------------------
(* What the documentation says and the code does not do. *)

\* ARPDlg.cpp:294: the row answers with the MAC of the adapter it was given, at
\* least while the outer adapter is open.
RowsHaveOwnMAC ==
  [][added' # added /\ handle[OUTER] # 0 =>
       Last(rows').mac = MACOf[Last(rows').device]]_vars
=============================================================================
