---------------------------- MODULE Adapters_proofs ----------------------------
(***************************************************************************)
(* Proofs about Adapters: the handles of an interface are its own and open *)
(* however adapters are chosen, and all but those of GetMacAddress are     *)
(* given back.                                                             *)
(***************************************************************************)
EXTENDS Adapters, FiniteSetTheorems, SequenceFacts

-----------------------------------------------------------------------------
(* One adapter. *)

\* What SetAdapter takes: a record of these fields.
Fields(at) ==
  at = [device |-> at.device, handle |-> at.handle, oid |-> at.oid, edit |-> at.edit,
        source |-> at.source, ip |-> at.ip, opened |-> at.opened, closed |-> at.closed]

\* The handles, adapters and MACs in it have their types.
Numbered(at) ==
  /\ at.opened \in Seq(Device)
  /\ at.closed \subseteq 1 .. Len(at.opened)
  /\ at.handle \in [Iface -> 0 .. Len(at.opened)]
  /\ at.device \in [Iface -> Device \cup {NoDevice}]
  /\ at.edit \in [Iface -> HardwareAddress \cup {NoText, Dash}]
  /\ at.source \in [Iface -> HardwareAddress \cup {ZeroMAC}]
  /\ at.oid \in [Iface -> HardwareAddress \cup {Garbage}]

\* An interface with a handle has it open, for its own adapter and with that
\* adapter's MAC; without one it shows no MAC.
Own(at, f) ==
  IF at.handle[f] = 0
  THEN at.edit[f] \in {NoText, Dash}
  ELSE /\ at.handle[f] \notin at.closed
       /\ at.opened[at.handle[f]] = at.device[f]
       /\ at.edit[f] = MACOf[at.device[f]]
       /\ at.source[f] = MACOf[at.device[f]]
       /\ \A g \in Iface \ {f} : at.handle[g] # at.handle[f]

Sound(at) == Fields(at) /\ Numbered(at) /\ \A f \in Iface : Own(at, f)

\* The handles that are open and belong to no interface.
Leaked(opens, closes, handles) ==
  ((1 .. Len(opens)) \ closes) \ {handles[f] : f \in Iface}

\* SetAdapter, field by field, when the adapter opens and when it does not.
LEMMA AdapterOpens ==
  ASSUME NEW at, Fields(at), NEW d, NEW f
  PROVE  SetAdapter(at, d, f, TRUE) =
           [device |-> [at.device EXCEPT ![f] = d],
            handle |-> [at.handle EXCEPT ![f] = Len(at.opened) + 1],
            oid |-> [at.oid EXCEPT ![f] = MACOf[d]],
            edit |-> [at.edit EXCEPT ![f] = MACOf[d]],
            source |-> [at.source EXCEPT ![f] = MACOf[d]],
            ip |-> [at.ip EXCEPT ![f] = GetIPAddress(d)],
            opened |-> Append(at.opened, d),
            closed |-> at.closed \cup Closed(at, d, f)]
BY DEF SetAdapter, Fields

LEMMA AdapterFails ==
  ASSUME NEW at, Fields(at), NEW d, NEW f
  PROVE  SetAdapter(at, d, f, FALSE) =
           [device |-> [at.device EXCEPT ![f] = d],
            handle |-> [at.handle EXCEPT ![f] = 0],
            oid |-> at.oid,
            edit |-> [at.edit EXCEPT ![f] = Dash],
            source |-> at.source,
            ip |-> [at.ip EXCEPT ![f] = Blank],
            opened |-> at.opened,
            closed |-> at.closed \cup Closed(at, d, f)]
BY DEF SetAdapter, Fields

\* Setting an adapter keeps the record sound, leaves the other interface's
\* adapter alone, opens no handle of a number that was used, and leaks none.
LEMMA AdapterSet ==
  ASSUME NEW at, Sound(at), NEW d \in Device, NEW f \in Iface, NEW works \in BOOLEAN,
         NEW after, after = SetAdapter(at, d, f, works)
  PROVE  /\ Sound(after)
         /\ after.device = [at.device EXCEPT ![f] = d]
         /\ Leaked(after.opened, after.closed, after.handle)
              = Leaked(at.opened, at.closed, at.handle)
<1>1. MACOf[d] \in HardwareAddress BY DEF HardwareAddress
<1>2. Fields(at) /\ Numbered(at) /\ \A g \in Iface : Own(at, g) BY DEF Sound
<1>3. at.opened \in Seq(Device) BY ONLY <1>2 DEF Numbered
<1>4. Len(at.opened) \in Nat BY ONLY <1>3
<1>5. \A g \in Iface : at.handle[g] \in 0 .. Len(at.opened) BY <1>2 DEF Numbered
<1>6. Closed(at, d, f) = IF at.handle[f] # 0 THEN {at.handle[f]} ELSE {} BY DEF Closed
<1>7. at.closed \subseteq 1 .. Len(at.opened) BY <1>2 DEF Numbered
<1>8. CASE works = TRUE
  <2>1. after = [device |-> [at.device EXCEPT ![f] = d],
            handle |-> [at.handle EXCEPT ![f] = Len(at.opened) + 1],
            oid |-> [at.oid EXCEPT ![f] = MACOf[d]],
            edit |-> [at.edit EXCEPT ![f] = MACOf[d]],
            source |-> [at.source EXCEPT ![f] = MACOf[d]],
            ip |-> [at.ip EXCEPT ![f] = GetIPAddress(d)],
            opened |-> Append(at.opened, d),
            closed |-> at.closed \cup Closed(at, d, f)]
    BY <1>2, <1>8, AdapterOpens
  <2>2. Fields(after) BY <2>1 DEF Fields
  <2>3. /\ after.opened \in Seq(Device)
        /\ Len(after.opened) = Len(at.opened) + 1
        /\ \A i \in 1 .. Len(at.opened) : after.opened[i] = at.opened[i]
        /\ after.opened[Len(at.opened) + 1] = d
    BY <1>3, <1>4, <2>1
  <2>4. Numbered(after) BY <1>1, <1>2, <1>4, <1>5, <1>6, <1>7, <2>1, <2>3 DEF Numbered
  <2>5. ASSUME NEW g \in Iface PROVE Own(after, g)
    <3>1. CASE g = f BY <1>2, <1>4, <1>5, <1>6, <1>7, <2>1, <2>3, <3>1 DEF Own, Numbered
    <3>2. CASE g # f BY <1>2, <1>4, <1>5, <1>6, <1>7, <2>1, <2>3, <3>2 DEF Own, Numbered
    <3>3. QED BY <3>1, <3>2
  <2>6. ASSUME NEW n
        PROVE n \in Leaked(after.opened, after.closed, after.handle)
                <=> n \in Leaked(at.opened, at.closed, at.handle)
    <3>1. /\ \A g \in Iface : after.handle[g] =
               IF g = f THEN Len(at.opened) + 1 ELSE at.handle[g]
          /\ after.closed = at.closed \cup Closed(at, d, f)
      BY <1>2, <2>1 DEF Numbered
    <3>2. CASE n \in 1 .. Len(at.opened)
      BY <1>4, <1>5, <1>6, <2>3, <3>1, <3>2 DEF Leaked
    <3>3. CASE n \notin 1 .. Len(at.opened)
      BY <1>4, <2>3, <3>1, <3>3 DEF Leaked
    <3>4. QED BY <3>2, <3>3
  <2>7. QED BY <2>1, <2>2, <2>4, <2>5, <2>6 DEF Sound
<1>9. CASE works = FALSE
  <2>1. after = [device |-> [at.device EXCEPT ![f] = d],
            handle |-> [at.handle EXCEPT ![f] = 0],
            oid |-> at.oid,
            edit |-> [at.edit EXCEPT ![f] = Dash],
            source |-> at.source,
            ip |-> [at.ip EXCEPT ![f] = Blank],
            opened |-> at.opened,
            closed |-> at.closed \cup Closed(at, d, f)]
    BY <1>2, <1>9, AdapterFails
  <2>2. Fields(after) BY <2>1 DEF Fields
  <2>3. Numbered(after) BY <1>2, <1>4, <1>5, <1>6, <1>7, <2>1 DEF Numbered
  <2>4. ASSUME NEW g \in Iface PROVE Own(after, g)
    BY <1>2, <1>4, <1>5, <1>6, <1>7, <2>1 DEF Own, Numbered
  <2>5. ASSUME NEW n
        PROVE n \in Leaked(after.opened, after.closed, after.handle)
                <=> n \in Leaked(at.opened, at.closed, at.handle)
    <3>1. /\ \A g \in Iface : after.handle[g] = IF g = f THEN 0 ELSE at.handle[g]
          /\ after.closed = at.closed \cup Closed(at, d, f)
          /\ after.opened = at.opened
      BY <1>2, <2>1 DEF Numbered
    <3>2. QED BY <1>4, <1>5, <1>6, <3>1 DEF Leaked
  <2>6. QED BY <2>1, <2>2, <2>3, <2>4, <2>5 DEF Sound
<1>10. QED BY <1>8, <1>9

-----------------------------------------------------------------------------
(* The inductive invariant. *)

\* What the list of adapters is.
LEMMA PickedDevice ==
  ASSUME NEW index \in 0 .. Len(AllDevices)
  PROVE  Picked(index) \in Device
<1>1. AllDevices \in Seq(Device) /\ Len(AllDevices) >= 2 BY DeviceAssumption
<1>2. AllDevices[1] \in Device /\ (index # 0 => AllDevices[index] \in Device) BY <1>1
<1>3. QED BY <1>2 DEF Picked

\* What the dialog holds is sound; the adapters are those of the combo boxes;
\* rows and the numbers that threads use are in order.
Settled ==
  /\ Sound(Current)
  /\ combo \in [Iface -> 0 .. Len(AllDevices)]
  /\ \A f \in Iface : device[f] # NoDevice => device[f] = Picked(combo[f])
  /\ rows \in Seq([device : Device, mac : HardwareAddress \cup {Garbage}])
  /\ added \in Nat

\* A handle in use is closed only under a thread that was not joined: while the
\* combo boxes are enabled, there are no others.
Joined ==
  /\ canRead \in BOOLEAN
  /\ rx \in [Slot -> [pc : {"off", "loop", "read", "send"}, handle : Nat, old : BOOLEAN]]
  /\ ~canRead => \A s \in Slot : rx[s].pc # "off" => rx[s].old
  /\ UsedHandlesOpen

IInv == Settled /\ Joined /\ LeaksCounted

LEMMA LeaksAsSet ==
  ASSUME opened \in Seq(Device)
  PROVE  LeaksCounted <=> Cardinality(Leaked(opened, closed, handle)) <= added
<1>1. DOMAIN opened = 1 .. Len(opened) OBVIOUS
<1>2. QED BY <1>1 DEF LeaksCounted, Leaked

LEMMA InitInv == Init => IInv
<1> SUFFICES ASSUME Init PROVE IInv OBVIOUS
<1> USE DEF Init
<1>1. opened = << >> /\ closed = {} /\ opened \in Seq(Device) /\ Len(opened) = 0 OBVIOUS
<1>2. Sound(Current)
  <2>1. Fields(Current) BY DEF Fields, Current
  <2>2. Numbered(Current) BY <1>1 DEF Numbered, Current
  <2>3. \A f \in Iface : Own(Current, f) BY DEF Own, Current
  <2>4. QED BY <2>1, <2>2, <2>3 DEF Sound
<1>3. Len(AllDevices) \in Nat BY DeviceAssumption
<1>4. Settled BY <1>2, <1>3 DEF Settled
<1>5. Joined BY DEF Joined, UsedHandlesOpen, Off
<1>6. LeaksCounted
  <2>1. Leaked(opened, closed, handle) = {} BY <1>1 DEF Leaked
  <2>2. added = 0 OBVIOUS
  <2>3. Cardinality(Leaked(opened, closed, handle)) <= added
    <3>1. Cardinality({}) = 0 BY FS_EmptySet
    <3>2. Cardinality(Leaked(opened, closed, handle)) = 0 BY <2>1, <3>1
    <3>3. QED BY ONLY <2>2, <3>2
  <2>4. QED BY <1>1, <2>3, LeaksAsSet
<1>7. QED BY <1>4, <1>5, <1>6 DEF IInv

\* A sound record that Become stores is what the dialog holds next.
LEMMA Stored ==
  ASSUME NEW after, Sound(after), Become(after)
  PROVE  /\ Sound(Current)'
         /\ device' = after.device
         /\ Leaked(opened', closed', handle') = Leaked(after.opened, after.closed, after.handle)
<1>1. Fields(after) BY DEF Sound
<1>2. Current' = after BY <1>1 DEF Fields, Current, Become
<1>3. Sound(Current') BY <1>2
<1>4. Sound(Current)' BY <1>3
<1>5. QED BY <1>4 DEF Become

-----------------------------------------------------------------------------
(* Steps. *)

ThreadRecord == [pc : {"off", "loop", "read", "send"}, handle : Nat, old : BOOLEAN]

LEMMA StartedThread ==
  ASSUME NEW t \in ThreadRecord
  PROVE  /\ [t EXCEPT !.pc = "loop"] \in ThreadRecord
         /\ [t EXCEPT !.pc = "loop"].pc = "loop"
BY DEF ThreadRecord

\* Setting adapters keeps the invariant where it leaves the threads in order.
LEMMA SettingKeepsInv ==
  ASSUME IInv, NEW after, Sound(after), Become(after),
         Leaked(after.opened, after.closed, after.handle) = Leaked(opened, closed, handle),
         combo' \in [Iface -> 0 .. Len(AllDevices)],
         \A f \in Iface : after.device[f] # NoDevice => after.device[f] = Picked(combo'[f]),
         rows' = rows, added' = added,
         Joined'
  PROVE  IInv'
<1>1. /\ Sound(Current)'
      /\ device' = after.device
      /\ Leaked(opened', closed', handle') = Leaked(opened, closed, handle)
  BY Stored
<1>2. Settled' BY <1>1 DEF IInv, Settled
<1>3. Joined' OBVIOUS
<1>4. opened \in Seq(Device) /\ opened' \in Seq(Device)
  BY <1>1 DEF IInv, Settled, Sound, Numbered, Current
<1>5. LeaksCounted'
  <2>1. Cardinality(Leaked(opened, closed, handle)) <= added
    BY <1>4, LeaksAsSet DEF IInv
  <2>2. DOMAIN opened' = 1 .. Len(opened') BY <1>4
  <2>3. QED BY <1>1, <2>1, <2>2 DEF LeaksCounted, Leaked
<1>6. QED BY <1>2, <1>3, <1>5 DEF IInv

LEMMA ReloadedSound ==
  ASSUME Settled, NEW works \in [Iface -> BOOLEAN], NEW after, after = Reloaded(works)
  PROVE  /\ Sound(after)
         /\ \A f \in Iface : after.device[f] = Picked(combo[f])
         /\ Leaked(after.opened, after.closed, after.handle) = Leaked(opened, closed, handle)
<1>1. OUTER \in Iface /\ INNER \in Iface /\ OUTER # INNER
      /\ \A f \in Iface : f = OUTER \/ f = INNER
  BY DEF Iface, OUTER, INNER
<1>2. Sound(Current) /\ combo \in [Iface -> 0 .. Len(AllDevices)] BY DEF Settled
<1>3. /\ Picked(combo[OUTER]) \in Device /\ works[OUTER] \in BOOLEAN
      /\ Picked(combo[INNER]) \in Device /\ works[INNER] \in BOOLEAN
  BY <1>1, <1>2, PickedDevice
<1>4. PICK at : at = Current OBVIOUS
<1>5. PICK first : first = SetAdapter(at, Picked(combo[OUTER]), OUTER, works[OUTER]) OBVIOUS
<1>6. after = SetAdapter(first, Picked(combo[INNER]), INNER, works[INNER])
  BY <1>4, <1>5 DEF Reloaded
<1>7. /\ Sound(first)
      /\ first.device = [at.device EXCEPT ![OUTER] = Picked(combo[OUTER])]
      /\ Leaked(first.opened, first.closed, first.handle)
           = Leaked(at.opened, at.closed, at.handle)
  BY <1>1, <1>2, <1>3, <1>4, <1>5, AdapterSet
<1>8. /\ Sound(after)
      /\ after.device = [first.device EXCEPT ![INNER] = Picked(combo[INNER])]
      /\ Leaked(after.opened, after.closed, after.handle)
           = Leaked(first.opened, first.closed, first.handle)
  <2>1. PICK d, w : d = Picked(combo[INNER]) /\ w = works[INNER] OBVIOUS
  <2>2. /\ Sound(first) /\ d \in Device /\ INNER \in Iface /\ w \in BOOLEAN
        /\ after = SetAdapter(first, d, INNER, w)
    BY <1>1, <1>3, <1>7, <1>6, <2>1
  <2>3. /\ Sound(after)
        /\ after.device = [first.device EXCEPT ![INNER] = d]
        /\ Leaked(after.opened, after.closed, after.handle)
             = Leaked(first.opened, first.closed, first.handle)
    BY ONLY <2>2, AdapterSet
  <2>4. QED BY <2>1, <2>3
<1>9. at.device \in [Iface -> Device \cup {NoDevice}] BY <1>2, <1>4 DEF Sound, Numbered
<1>10. \A f \in Iface : after.device[f] = Picked(combo[f]) BY <1>1, <1>7, <1>8, <1>9
<1>11. QED BY <1>7, <1>8, <1>10, <1>4 DEF Current

LEMMA ChangeKeepsInv ==
  ASSUME IInv, NEW f \in Iface, NEW index \in DOMAIN AllDevices, NEW works \in BOOLEAN,
         OnCbnSelchangeComboAdapter(f, index, works)
  PROVE  IInv'
<1>1. PICK after : after = SetAdapter(Current, Picked(index), f, works) OBVIOUS
<1>2. Sound(Current) /\ combo \in [Iface -> 0 .. Len(AllDevices)] BY DEF IInv, Settled
<1>3. index \in 1 .. Len(AllDevices) BY DeviceAssumption
<1>4. Picked(index) \in Device BY <1>3, PickedDevice
<1>5. PICK at : at = Current OBVIOUS
<1>6. after = SetAdapter(at, Picked(index), f, works) BY <1>1, <1>5
<1>7. /\ Become(after) /\ ~canRead
      /\ combo' = [combo EXCEPT ![f] = index]
      /\ canRead' = canRead /\ rows' = rows /\ added' = added /\ rx' = rx
  BY <1>1 DEF OnCbnSelchangeComboAdapter
<1>8. /\ Sound(after)
      /\ after.device = [at.device EXCEPT ![f] = Picked(index)]
      /\ Leaked(after.opened, after.closed, after.handle)
           = Leaked(at.opened, at.closed, at.handle)
  BY <1>2, <1>4, <1>5, <1>6, AdapterSet
<1>9. combo' \in [Iface -> 0 .. Len(AllDevices)] BY <1>2, <1>3, <1>7
<1>10. device \in [Iface -> Device \cup {NoDevice}] BY <1>2 DEF Sound, Numbered, Current
<1>11. \A g \in Iface : after.device[g] # NoDevice => after.device[g] = Picked(combo'[g])
  BY <1>2, <1>5, <1>7, <1>8, <1>10 DEF Current, IInv, Settled
<1>12. Joined' BY <1>7 DEF IInv, Joined, UsedHandlesOpen
<1>13. Leaked(after.opened, after.closed, after.handle) = Leaked(opened, closed, handle)
  BY <1>5, <1>8 DEF Current
<1>14. Become(after) /\ rows' = rows /\ added' = added /\ Sound(after) BY <1>7, <1>8
<1>15. QED BY <1>9, <1>11, <1>12, <1>13, <1>14, SettingKeepsInv

LEMMA SelectKeepsInv ==
  ASSUME IInv, NEW works \in [Iface -> BOOLEAN], Select(works) \/ SelectRefused(works)
  PROVE  IInv'
<1> DEFINE after == Reloaded(works)
<1>1. /\ Sound(after)
      /\ \A f \in Iface : after.device[f] = Picked(combo[f])
      /\ Leaked(after.opened, after.closed, after.handle) = Leaked(opened, closed, handle)
  BY ReloadedSound DEF IInv
<1>2. /\ Become(after) /\ ~canRead /\ combo' = combo /\ rows' = rows /\ added' = added
      /\ canRead' \in BOOLEAN
  BY DEF Select, SelectRefused, IInv, Joined
<1>3. combo' \in [Iface -> 0 .. Len(AllDevices)] BY <1>2 DEF IInv, Settled
<1>4. /\ rx' \in [Slot -> ThreadRecord]
      /\ \A s \in Slot : rx'[s].pc \in {"read", "send"} => rx'[s].old
      /\ ~canRead' => \A s \in Slot : rx'[s].pc # "off" => rx'[s].old
  <2>1. CASE Select(works)
    <3>1. PICK started \in Startable :
            rx' = [s \in Slot |-> IF s \in started THEN [Off EXCEPT !.pc = "loop"] ELSE rx[s]]
      BY <2>1 DEF Select
    <3>2. Off \in ThreadRecord BY DEF Off, ThreadRecord
    <3>3. canRead' = TRUE BY <2>1 DEF Select
    <3>4. /\ rx \in [Slot -> ThreadRecord]
          /\ \A s \in Slot : rx[s].pc # "off" => rx[s].old
      BY <1>2 DEF IInv, Joined, ThreadRecord
    <3>5. /\ [Off EXCEPT !.pc = "loop"] \in ThreadRecord
          /\ [Off EXCEPT !.pc = "loop"].pc = "loop"
      BY <3>2, StartedThread
    <3>6. rx' \in [Slot -> ThreadRecord] BY <3>1, <3>4, <3>5
    <3>7. \A s \in Slot : rx'[s].pc \in {"read", "send"} => rx'[s].old
      BY <3>1, <3>4, <3>5
    <3>8. QED BY <3>3, <3>6, <3>7
  <2>2. CASE SelectRefused(works)
    BY <2>2 DEF SelectRefused, IInv, Joined, ThreadRecord
  <2>3. QED BY <2>1, <2>2
<1> HIDE DEF after
<1>5. Joined' BY <1>2, <1>4 DEF Joined, UsedHandlesOpen, ThreadRecord
<1>6. QED BY <1>1, <1>2, <1>3, <1>5, SettingKeepsInv

LEMMA TypeSourceKeepsInv ==
  ASSUME IInv, NEW f \in Iface, NEW addr \in Typed, TypeSource(f, addr)
  PROVE  IInv'
<1>1. /\ combo' = combo /\ edit' = edit /\ device' = device /\ handle' = handle
      /\ oid' = oid /\ source' = source /\ canRead' = canRead /\ rows' = rows
      /\ added' = added /\ rx' = rx /\ opened' = opened /\ closed' = closed
  BY DEF TypeSource
<1>2. Sound(Current)'
  <2>1. Fields(Current') BY DEF Fields, Current
  <2>2. Numbered(Current') BY <1>1 DEF IInv, Settled, Sound, Numbered, Current
  <2>3. \A g \in Iface : Own(Current', g) BY <1>1 DEF IInv, Settled, Sound, Own, Current
  <2>4. QED BY <2>1, <2>2, <2>3 DEF Sound
<1>3. Settled' BY <1>1, <1>2 DEF IInv, Settled
<1>4. Joined' BY <1>1 DEF IInv, Joined, UsedHandlesOpen
<1>5. LeaksCounted' BY <1>1 DEF IInv, LeaksCounted
<1>6. QED BY <1>3, <1>4, <1>5 DEF IInv

\* Once the combo boxes are enabled, every thread that still runs is old.
LEMMA ReselectKeepsInv ==
  ASSUME IInv, Reselect
  PROVE  IInv'
<1>1. /\ UNCHANGED <<combo, edit, ip, device, handle, oid, source, rows, added, opened, closed>>
      /\ canRead' = FALSE
      /\ rx' = [s \in Slot |-> IF rx[s].pc = "off" THEN rx[s] ELSE [rx[s] EXCEPT !.old = TRUE]]
  BY DEF Reselect
<1>2. rx \in [Slot -> ThreadRecord] BY DEF IInv, Joined, ThreadRecord
<1>3. ASSUME NEW t \in ThreadRecord
      PROVE  /\ [t EXCEPT !.old = TRUE] \in ThreadRecord
             /\ [t EXCEPT !.old = TRUE].old
  BY <1>3 DEF ThreadRecord
<1>4. rx' \in [Slot -> ThreadRecord] BY <1>1, <1>2, <1>3
<1>5. \A s \in Slot : rx'[s].pc # "off" => rx'[s].old BY <1>1, <1>2, <1>3
<1>6. Settled' BY <1>1 DEF IInv, Settled, Current
<1>7. Joined' BY <1>1, <1>4, <1>5 DEF Joined, UsedHandlesOpen, ThreadRecord
<1>8. LeaksCounted' BY <1>1 DEF IInv, LeaksCounted
<1>9. QED BY <1>6, <1>7, <1>8 DEF IInv

\* A handle that GetMacAddress opened takes one more number; the row that is
\* added pays for it, for good.
LEMMA AddKeepsInv ==
  ASSUME IInv, NEW index \in DOMAIN AllDevices, AddProxyArpCache(index)
  PROVE  IInv'
<1> DEFINE d   == AllDevices[index]
           mac == IF d = device[OUTER] THEN oid[OUTER] ELSE MACOf[d]
<1>1. d \in Device /\ MACOf[d] \in HardwareAddress
  BY DeviceAssumption DEF HardwareAddress
<1>2. /\ opened \in Seq(Device) /\ Len(opened) \in Nat /\ closed \subseteq 1 .. Len(opened)
      /\ handle \in [Iface -> 0 .. Len(opened)]
      /\ oid \in [Iface -> HardwareAddress \cup {Garbage}]
      /\ rows \in Seq([device : Device, mac : HardwareAddress \cup {Garbage}])
  BY DEF IInv, Settled, Sound, Numbered, Current
<1>3. OUTER \in Iface BY DEF Iface
<1>4. mac \in HardwareAddress \cup {Garbage} BY <1>1, <1>2, <1>3
<1>5. /\ oid' = [oid EXCEPT ![OUTER] = mac]
      /\ rows' = Append(rows, [device |-> d, mac |-> mac])
      /\ opened' = IF d = device[OUTER] THEN opened ELSE Append(opened, d)
      /\ added' = added + 1 /\ added \in Nat
      /\ UNCHANGED <<combo, edit, ip, canRead, device, handle, source, rx, closed>>
  BY DEF AddProxyArpCache, dialog, IInv, Settled
<1> HIDE DEF d, mac
<1>6. /\ opened' \in Seq(Device)
      /\ \/ opened' = opened
         \/ Len(opened') = Len(opened) + 1
      /\ \A n \in 1 .. Len(opened) : opened'[n] = opened[n]
  BY <1>1, <1>2, <1>5
<1>7. rows' \in Seq([device : Device, mac : HardwareAddress \cup {Garbage}])
  BY <1>1, <1>2, <1>4, <1>5
<1>8. Sound(Current)'
  <2>1. Fields(Current') BY DEF Fields, Current
  <2>2. Numbered(Current')
    <3>1. oid' \in [Iface -> HardwareAddress \cup {Garbage}] BY <1>2, <1>4, <1>5
    <3>2. Len(opened') \in Nat /\ Len(opened) <= Len(opened') BY <1>2, <1>6
    <3>3. /\ closed' \subseteq 1 .. Len(opened')
          /\ handle' \in [Iface -> 0 .. Len(opened')]
      BY <1>2, <1>5, <3>2
    <3>4. QED BY <1>5, <1>6, <3>1, <3>3 DEF IInv, Settled, Sound, Numbered, Current
  <2>3. \A f \in Iface : Own(Current, f) BY DEF IInv, Settled, Sound
  <2>4. \A f \in Iface : Own(Current', f)
    BY <1>2, <1>5, <1>6, <2>3 DEF Own, Current
  <2>5. QED BY <2>1, <2>2, <2>4 DEF Sound
<1>9. Settled' BY <1>5, <1>7, <1>8 DEF IInv, Settled
<1>10. Joined' BY <1>5 DEF IInv, Joined, UsedHandlesOpen
<1>11. LeaksCounted'
  <2> DEFINE before == Leaked(opened, closed, handle)
             after  == Leaked(opened', closed', handle')
  <2>1. Cardinality(before) <= added BY <1>2, LeaksAsSet DEF IInv
  <2>2. IsFiniteSet(1 .. Len(opened)) BY <1>2, FS_Interval
  <2>3. IsFiniteSet(before) BY <2>2, FS_Subset DEF Leaked
  <2>4. Cardinality(before) \in Nat BY <2>3, FS_CardinalityType
  <2>5. \/ after = before
        \/ after = before \cup {Len(opened) + 1}
    BY <1>2, <1>5, <1>6 DEF Leaked
  <2>6. Cardinality(after) <= Cardinality(before) + 1
    <3>1. CASE after = before BY <2>4, <3>1
    <3>2. CASE after = before \cup {Len(opened) + 1}
      <4>1. PICK b, n : b = before /\ n = Len(opened) + 1 OBVIOUS
      <4>2. IsFiniteSet(b) /\ n \notin b BY <1>2, <2>3, <4>1 DEF Leaked
      <4>3. Cardinality(b \cup {n}) = Cardinality(b) + 1 BY <4>2, FS_AddElement
      <4>4. QED BY <2>4, <3>2, <4>1, <4>3
    <3>3. QED BY <2>5, <3>1, <3>2
  <2>7. Cardinality(after) \in Nat BY <2>3, <2>5, FS_AddElement, FS_CardinalityType
  <2>8. Cardinality(after) <= added' BY <1>5, <2>1, <2>4, <2>6, <2>7
  <2>9. DOMAIN opened' = 1 .. Len(opened') BY <1>6
  <2>10. QED BY <2>8, <2>9 DEF LeaksCounted, Leaked
<1>12. QED BY <1>9, <1>10, <1>11 DEF IInv

\* The handle that was opened for a row outlives it.
LEMMA DeleteKeepsInv ==
  ASSUME IInv, NEW i \in DOMAIN rows, OnBnClickedButtonDelete(i)
  PROVE  IInv'
<1>1. /\ rows' = RemoveAt(rows, i)
      /\ UNCHANGED <<combo, edit, ip, canRead, device, handle, oid, source, added, rx, opened, closed>>
  BY DEF OnBnClickedButtonDelete, dialog
<1>2. PICK R : R = [device : Device, mac : HardwareAddress \cup {Garbage}] OBVIOUS
<1>3. rows \in Seq(R) /\ i \in 1 .. Len(rows) BY <1>2 DEF IInv, Settled
<1>4. rows' = SubSeq(rows, 1, i - 1) \o SubSeq(rows, i + 1, Len(rows)) BY <1>1 DEF RemoveAt
<1>5. rows' \in Seq(R) BY <1>3, <1>4, WithoutElement
<1>6. Settled' BY <1>1, <1>2, <1>5 DEF IInv, Settled, Current
<1>7. Joined' BY <1>1 DEF IInv, Joined, UsedHandlesOpen
<1>8. LeaksCounted' BY <1>1 DEF IInv, LeaksCounted
<1>9. QED BY <1>6, <1>7, <1>8 DEF IInv

\* A thread takes up a handle that its interface has, and such handles are open.
LEMMA ThreadKeepsInv ==
  ASSUME IInv, NEW s \in Slot,
         Read(s) \/ Done(s) \/ Leave(s) \/ \E f \in Iface : Forward(s, f)
  PROVE  IInv'
<1>1. UNCHANGED <<combo, edit, ip, canRead, device, handle, oid, source, rows, added, opened, closed>>
  BY DEF Read, Done, Leave, Forward, dialog
<1>2. Settled' BY <1>1 DEF IInv, Settled, Current
<1>3. LeaksCounted' BY <1>1 DEF IInv, LeaksCounted
<1>4. rx \in [Slot -> ThreadRecord] BY DEF IInv, Joined, ThreadRecord
<1>5. /\ handle \in [Iface -> 0 .. Len(opened)]
      /\ Len(opened) \in Nat /\ closed \subseteq 1 .. Len(opened)
      /\ \A f \in Iface : handle[f] \notin closed
  <2>1. /\ opened \in Seq(Device) /\ closed \subseteq 1 .. Len(opened)
        /\ handle \in [Iface -> 0 .. Len(opened)]
        /\ \A f \in Iface : handle[f] # 0 => handle[f] \notin closed
    BY DEF IInv, Settled, Sound, Numbered, Own, Current
  <2>2. Len(opened) \in Nat BY <2>1
  <2>3. 0 \notin closed BY <2>1, <2>2
  <2>4. QED BY <2>1, <2>2, <2>3
<1>6. ASSUME NEW t \in ThreadRecord, NEW p \in {"loop", "read", "send"}, NEW h \in Nat
      PROVE  /\ [t EXCEPT !.pc = p, !.handle = h] \in ThreadRecord
             /\ [t EXCEPT !.pc = p, !.handle = h].pc = p
             /\ [t EXCEPT !.pc = p, !.handle = h].handle = h
             /\ [t EXCEPT !.pc = p, !.handle = h].old = t.old
  BY DEF ThreadRecord
<1>7. PICK t : t = rx[s] OBVIOUS
<1>8. t \in ThreadRecord BY <1>4, <1>7
<1>9. PICK to \in ThreadRecord :
        /\ rx' = [rx EXCEPT ![s] = to]
        /\ to.pc # "off" => t.pc # "off" /\ to.old = t.old
        /\ to.pc \in {"read", "send"} => to.handle \notin closed
  <2>1. SlotIface[s] \in Iface BY DeviceAssumption
  <2>2. \A f \in Iface : handle[f] \in Nat BY <1>5
  <2>3. CASE Read(s)
    <3>1. /\ rx' = [rx EXCEPT ![s] = [t EXCEPT !.pc = "read", !.handle = handle[SlotIface[s]]]]
          /\ t.pc = "loop"
      BY <1>4, <1>7, <2>3 DEF Read
    <3>2. PICK h \in Nat : h = handle[SlotIface[s]] /\ h \notin closed BY <1>5, <2>1, <2>2
    <3>3. PICK to : to = [t EXCEPT !.pc = "read", !.handle = h] OBVIOUS
    <3>4. /\ to \in ThreadRecord
          /\ to.pc = "read" /\ to.old = t.old /\ to.handle = h
      BY <1>6, <1>8, <3>3
    <3>5. QED BY <3>1, <3>2, <3>3, <3>4
  <2>4. CASE \E f \in Iface : Forward(s, f)
    <3>1. PICK f \in Iface :
            /\ rx' = [rx EXCEPT ![s] = [t EXCEPT !.pc = "send", !.handle = handle[f]]]
            /\ t.pc = "read"
      BY <1>4, <1>7, <2>4 DEF Forward
    <3>2. PICK h \in Nat : h = handle[f] /\ h \notin closed BY <1>5, <2>2
    <3>3. PICK to : to = [t EXCEPT !.pc = "send", !.handle = h] OBVIOUS
    <3>4. /\ to \in ThreadRecord
          /\ to.pc = "send" /\ to.old = t.old /\ to.handle = h
      BY <1>6, <1>8, <3>3
    <3>5. QED BY <3>1, <3>2, <3>3, <3>4
  <2>5. CASE Done(s)
    <3>1. /\ rx' = [rx EXCEPT ![s] = [t EXCEPT !.pc = "loop", !.handle = 0]]
          /\ t.pc # "off"
      BY <1>4, <1>7, <2>5 DEF Done
    <3>2. PICK to : to = [t EXCEPT !.pc = "loop", !.handle = 0] OBVIOUS
    <3>3. /\ to \in ThreadRecord
          /\ to.pc = "loop" /\ to.old = t.old
      BY <1>6, <1>8, <3>2
    <3>4. QED BY <3>1, <3>2, <3>3
  <2>6. CASE Leave(s)
    <3>1. rx' = [rx EXCEPT ![s] = Off] BY <2>6 DEF Leave
    <3>2. Off \in ThreadRecord /\ Off.pc = "off" BY DEF Off, ThreadRecord
    <3>3. QED BY <3>1, <3>2
  <2>7. QED BY <2>3, <2>4, <2>5, <2>6
<1>10. Joined'
  <2>1. rx' \in [Slot -> ThreadRecord] BY <1>4, <1>9
  <2>2. \A r \in Slot : rx'[r] = IF r = s THEN to ELSE rx[r] BY <1>4, <1>9
  <2>3. QED BY <1>1, <1>7, <1>9, <2>1, <2>2 DEF IInv, Joined, UsedHandlesOpen, ThreadRecord
<1>11. QED BY <1>2, <1>3, <1>10 DEF IInv

LEMMA NextInv == IInv /\ [Next]_vars => IInv'
<1> SUFFICES ASSUME IInv, [Next]_vars PROVE IInv' OBVIOUS
<1>1. ASSUME NEW f \in Iface, NEW index \in DOMAIN AllDevices, NEW works \in BOOLEAN,
             OnCbnSelchangeComboAdapter(f, index, works)
      PROVE  IInv'
  BY <1>1, ChangeKeepsInv
<1>2. ASSUME NEW f \in Iface, NEW addr \in Typed, TypeSource(f, addr) PROVE IInv'
  BY <1>2, TypeSourceKeepsInv
<1>3. ASSUME NEW works \in [Iface -> BOOLEAN], Select(works) \/ SelectRefused(works)
      PROVE  IInv'
  BY <1>3, SelectKeepsInv
<1>4. CASE Reselect BY <1>4, ReselectKeepsInv
<1>5. ASSUME NEW index \in DOMAIN AllDevices, AddProxyArpCache(index) PROVE IInv'
  BY <1>5, AddKeepsInv
<1>6. ASSUME NEW i \in DOMAIN rows, OnBnClickedButtonDelete(i) PROVE IInv'
  BY <1>6, DeleteKeepsInv
<1>7. ASSUME NEW s \in Slot,
             Read(s) \/ Done(s) \/ Leave(s) \/ \E f \in Iface : Forward(s, f)
      PROVE  IInv'
  BY <1>7, ThreadKeepsInv
<1>8. CASE UNCHANGED vars
  BY <1>8 DEF vars, IInv, Settled, Joined, UsedHandlesOpen, LeaksCounted, Current
<1>9. QED BY <1>1, <1>2, <1>3, <1>4, <1>5, <1>6, <1>7, <1>8 DEF Next

THEOREM Invariance == Spec => []IInv
<1>1. QED BY InitInv, NextInv, PTL DEF Spec

-----------------------------------------------------------------------------
(* What it means for the user. *)

\* In every state the MAC and the adapter shown for an interface are those of
\* the open handle it listens and sends on (SetAdapter, NILayer.cpp:86).
THEOREM AdapterShown == Spec => []AdapterAsShown
<1>1. IInv => AdapterAsShown
  <2> SUFFICES ASSUME IInv, NEW f \in Iface, handle[f] # 0
               PROVE  /\ opened[handle[f]] = device[f]
                      /\ device[f] = AllDevices[IF combo[f] = 0 THEN 1 ELSE combo[f]]
                      /\ edit[f] = MACOf[device[f]]
                      /\ source[f] = MACOf[device[f]]
                      /\ handle[f] \notin closed
                      /\ \A g \in Iface \ {f} : handle[g] # handle[f]
    BY DEF AdapterAsShown, IInv, Settled, Sound, Own, Current
  <2>1. /\ opened[handle[f]] = device[f]
        /\ edit[f] = MACOf[device[f]]
        /\ source[f] = MACOf[device[f]]
        /\ handle[f] \notin closed
        /\ \A g \in Iface \ {f} : handle[g] # handle[f]
    BY DEF IInv, Settled, Sound, Own, Current
  <2>2. opened \in Seq(Device) /\ handle[f] \in 0 .. Len(opened)
    BY DEF IInv, Settled, Sound, Numbered, Current
  <2>3. opened[handle[f]] \in Device BY <2>2
  <2>4. device[f] # NoDevice BY <2>1, <2>3, DeviceAssumption
  <2>5. device[f] = AllDevices[IF combo[f] = 0 THEN 1 ELSE combo[f]]
    BY <2>4 DEF IInv, Settled, Picked
  <2>6. QED BY <2>1, <2>5
<1>2. QED BY <1>1, Invariance, PTL

\* No receive thread that was joined since the last ReSelect reads from or sends
\* on a handle that was closed (ThreadProcess and SetAdapter).
THEOREM UsedHandles == Spec => []UsedHandlesOpen
<1>1. IInv => UsedHandlesOpen BY DEF IInv, Joined
<1>2. QED BY <1>1, Invariance, PTL

\* All open handles belong to an interface, but one at most for each proxy row that
\* was ever added, deleted or not (GetMacAddress, OnBnClickedButtonDelete).
THEOREM Leaks == Spec => []LeaksCounted
<1>1. IInv => LeaksCounted BY DEF IInv
<1>2. QED BY <1>1, Invariance, PTL

-----------------------------------------------------------------------------
(* The types. *)

\* The address shown is the last one of a prefix of the adapter's own, or blank.
LEMMA AddressFound ==
  ASSUME NEW d \in Device
  PROVE  GetIPAddress(d) \in IPAddress
<1> DEFINE list  == Addresses[d]
           stop  == SelectInSeq(list, LAMBDA a : a.family \notin {"INET", "INET6"})
           known == IF stop = 0 THEN list ELSE SubSeq(list, 1, stop - 1)
           last  == SelectLastInSeq(known, LAMBDA a : a.family = "INET")
           J     == {i \in 1 .. Len(list) : list[i].family \notin {"INET", "INET6"}}
           I     == {i \in 1 .. Len(known) : known[i].family = "INET"}
<1>1. list \in Seq(ToSet(list)) /\ Len(list) \in Nat BY DeviceAssumption
<1>2. stop \in 0 .. Len(list)
  <2>1. stop = IF J # {} THEN Min(J) ELSE 0 BY DEF SelectInSeq
  <2>2. J \in SUBSET Nat /\ J \subseteq 1 .. Len(list) OBVIOUS
  <2> HIDE DEF J
  <2>3. J # {} => Min(J) \in J BY <2>2, LeastElement DEF Min
  <2> HIDE DEF stop, list
  <2>4. CASE J = {} BY <1>1, <2>1, <2>4
  <2>5. CASE J # {}
    <3>1. stop = Min(J) /\ Min(J) \in 1 .. Len(list) BY <2>1, <2>2, <2>3, <2>5
    <3>2. QED BY <1>1, <3>1
  <2>6. QED BY <2>4, <2>5
<1> HIDE DEF stop
<1>3. known \in Seq(ToSet(list))
  <2> HIDE DEF list
  <2>1. PICK S : S = ToSet(list) OBVIOUS
  <2>2. list \in Seq(S) BY <1>1, <2>1
  <2>3. stop # 0 => SubSeq(list, 1, stop - 1) \in Seq(S) BY <1>1, <1>2, <2>2
  <2>4. QED BY <2>1, <2>2, <2>3
<1> HIDE DEF known, list
<1>4. Len(known) \in Nat BY <1>3
<1>5. last = IF I # {} THEN Max(I) ELSE 0 BY DEF SelectLastInSeq
<1>6. I # {} => Max(I) \in I
  <2>1. I \in SUBSET (1 .. Len(known)) OBVIOUS
  <2> HIDE DEF I
  <2>2. QED BY <1>4, <2>1, GreatestElement DEF Max
<1>7. last \in 0 .. Len(known)
  <2>1. I \subseteq 1 .. Len(known) OBVIOUS
  <2> HIDE DEF I, last
  <2>2. CASE I = {} BY <1>4, <1>5, <2>2
  <2>3. CASE I # {}
    <3>1. last = Max(I) /\ Max(I) \in 1 .. Len(known) BY <1>5, <1>6, <2>1, <2>3
    <3>2. QED BY <1>4, <3>1
  <2>4. QED BY <2>2, <2>3
<1>8. GetIPAddress(d) = IF last = 0 THEN Blank ELSE known[last].addr
  BY DEF GetIPAddress, last, known, stop, list
<1> HIDE DEF last
<1>9. CASE last = 0 BY <1>8, <1>9 DEF IPAddress
<1>10. CASE last # 0
  <2>1. known[last] \in ToSet(Addresses[d]) BY <1>3, <1>7, <1>10 DEF list
  <2>2. known[last].addr \in IPAddress BY <2>1 DEF IPAddress
  <2>3. QED BY <1>8, <1>10, <2>2
<1>11. QED BY <1>9, <1>10

\* Setting an adapter puts an address of the machine in its field.
LEMMA AddressSet ==
  ASSUME NEW at, Fields(at), at.ip \in [Iface -> IPAddress],
         NEW d \in Device, NEW f \in Iface, NEW works \in BOOLEAN
  PROVE  SetAdapter(at, d, f, works).ip \in [Iface -> IPAddress]
<1>1. Blank \in IPAddress BY DEF IPAddress
<1>2. GetIPAddress(d) \in IPAddress BY AddressFound
<1>3. PICK after : after = SetAdapter(at, d, f, works) OBVIOUS
<1>4. CASE works = TRUE
  <2>1. after = [device |-> [at.device EXCEPT ![f] = d],
            handle |-> [at.handle EXCEPT ![f] = Len(at.opened) + 1],
            oid |-> [at.oid EXCEPT ![f] = MACOf[d]],
            edit |-> [at.edit EXCEPT ![f] = MACOf[d]],
            source |-> [at.source EXCEPT ![f] = MACOf[d]],
            ip |-> [at.ip EXCEPT ![f] = GetIPAddress(d)],
            opened |-> Append(at.opened, d),
            closed |-> at.closed \cup Closed(at, d, f)]
    BY <1>3, <1>4, AdapterOpens
  <2>2. after.ip = [at.ip EXCEPT ![f] = GetIPAddress(d)] BY <2>1
  <2>3. after.ip \in [Iface -> IPAddress] BY <1>2, <2>2
  <2>4. QED BY <1>3, <2>3
<1>5. CASE works = FALSE
  <2>1. after = [device |-> [at.device EXCEPT ![f] = d],
            handle |-> [at.handle EXCEPT ![f] = 0],
            oid |-> at.oid,
            edit |-> [at.edit EXCEPT ![f] = Dash],
            source |-> at.source,
            ip |-> [at.ip EXCEPT ![f] = Blank],
            opened |-> at.opened,
            closed |-> at.closed \cup Closed(at, d, f)]
    BY <1>3, <1>5, AdapterFails
  <2>2. after.ip = [at.ip EXCEPT ![f] = Blank] BY <2>1
  <2>3. after.ip \in [Iface -> IPAddress] BY <1>1, <2>2
  <2>4. QED BY <1>3, <2>3
<1>6. QED BY <1>4, <1>5

\* What TypeOK asks for besides IInv.
Bounded ==
  /\ ip \in [Iface -> IPAddress]
  /\ rx \in [Slot -> Thread]
  /\ Len(opened) <= MaxOpens
  /\ added <= MaxRows

LEMMA BoundsAndTypes == IInv /\ Bounded => TypeOK
BY DEF IInv, Settled, Sound, Numbered, Current, Joined, Bounded, TypeOK

LEMMA InitBounded == Init => Bounded
<1> SUFFICES ASSUME Init PROVE Bounded OBVIOUS
<1>1. Blank \in IPAddress BY DEF IPAddress
<1>2. MaxOpens \in Nat /\ MaxRows \in Nat BY DeviceAssumption
<1>3. Off \in Thread BY <1>2 DEF Off, Thread
<1>4. Len(opened) = 0 /\ added = 0 BY DEF Init
<1>5. QED BY <1>1, <1>2, <1>3, <1>4 DEF Init, Bounded

LEMMA NextBounded == IInv /\ Bounded /\ [Next]_vars => Bounded'
<1> SUFFICES ASSUME IInv, Bounded, [Next]_vars PROVE Bounded' OBVIOUS
<1>1. MaxOpens \in Nat BY DeviceAssumption
<1>2. /\ Sound(Current) /\ Fields(Current) /\ Current.ip = ip
      /\ combo \in [Iface -> 0 .. Len(AllDevices)]
      /\ opened \in Seq(Device) /\ handle \in [Iface -> 0 .. Len(opened)]
  BY DEF IInv, Settled, Sound, Numbered, Current
<1>3. \A f \in Iface : handle[f] \in 0 .. MaxOpens
  <2>1. Len(opened) \in Nat BY <1>2
  <2>2. QED BY <1>1, <1>2, <2>1 DEF Bounded
<1>4. ip \in [Iface -> IPAddress] /\ rx \in [Slot -> Thread] /\ added <= MaxRows BY DEF Bounded
<1>5. ASSUME NEW t \in Thread
      PROVE  /\ [t EXCEPT !.pc = "loop"] \in Thread /\ [t EXCEPT !.old = TRUE] \in Thread
             /\ \A pc \in {"loop", "read", "send"}, h \in 0 .. MaxOpens :
                  [t EXCEPT !.pc = pc, !.handle = h] \in Thread
  BY DEF Thread
<1>6. Off \in Thread BY <1>1 DEF Off, Thread
<1>7. ASSUME NEW f \in Iface, NEW index \in DOMAIN AllDevices, NEW works \in BOOLEAN,
             OnCbnSelchangeComboAdapter(f, index, works)
      PROVE  Bounded'
  <2>1. index \in 1 .. Len(AllDevices) BY DeviceAssumption
  <2>2. Picked(index) \in Device BY <2>1, PickedDevice
  <2>3. PICK at : at = Current OBVIOUS
  <2>4. SetAdapter(at, Picked(index), f, works).ip \in [Iface -> IPAddress]
    BY <1>2, <1>4, <2>2, <2>3, AddressSet
  <2>5. PICK after : after = SetAdapter(at, Picked(index), f, works) OBVIOUS
  <2>6. Become(after) /\ rx' = rx /\ added' = added BY <1>7, <2>3, <2>5 DEF OnCbnSelchangeComboAdapter
  <2>7. QED BY <1>4, <2>4, <2>5, <2>6 DEF Become, Bounded
<1>8. ASSUME NEW f \in Iface, NEW addr \in Typed, TypeSource(f, addr) PROVE Bounded'
  <2>1. addr \in IPAddress BY DEF IPAddress
  <2>2. ip' = [ip EXCEPT ![f] = addr] /\ rx' = rx /\ opened' = opened /\ added' = added
    BY <1>8 DEF TypeSource
  <2>3. QED BY <1>4, <2>1, <2>2 DEF Bounded
<1>9. ASSUME NEW works \in [Iface -> BOOLEAN], Select(works) \/ SelectRefused(works)
      PROVE  Bounded'
  <2>1. OUTER \in Iface /\ INNER \in Iface BY DEF Iface
  <2>2. /\ Picked(combo[OUTER]) \in Device /\ works[OUTER] \in BOOLEAN
        /\ Picked(combo[INNER]) \in Device /\ works[INNER] \in BOOLEAN
    BY <1>2, <2>1, PickedDevice
  <2>3. PICK at : at = Current OBVIOUS
  <2>4. PICK first : first = SetAdapter(at, Picked(combo[OUTER]), OUTER, works[OUTER]) OBVIOUS
  <2>5. Sound(first) BY <1>2, <2>1, <2>2, <2>3, <2>4, AdapterSet
  <2>6. first.ip \in [Iface -> IPAddress] BY <1>2, <1>4, <2>1, <2>2, <2>3, <2>4, AddressSet
  <2>7. PICK after : after = SetAdapter(first, Picked(combo[INNER]), INNER, works[INNER]) OBVIOUS
  <2>8. after.ip \in [Iface -> IPAddress]
    <3>1. Fields(first) BY <2>5 DEF Sound
    <3>2. QED BY <2>1, <2>2, <2>6, <2>7, <3>1, AddressSet
  <2>9. Reloaded(works) = after BY <2>3, <2>4, <2>7 DEF Reloaded
  <2>10. Become(after) /\ added' = added BY <1>9, <2>9 DEF Select, SelectRefused
  <2>11. rx' \in [Slot -> Thread]
    <3>1. CASE Select(works)
      <4>1. PICK started \in Startable :
              rx' = [s \in Slot |-> IF s \in started THEN [Off EXCEPT !.pc = "loop"] ELSE rx[s]]
        BY <3>1 DEF Select
      <4>2. [Off EXCEPT !.pc = "loop"] \in Thread BY <1>5, <1>6
      <4>3. QED BY <1>4, <4>1, <4>2
    <3>2. CASE SelectRefused(works) BY <1>4, <3>2 DEF SelectRefused
    <3>3. QED BY <1>9, <3>1, <3>2
  <2>12. QED BY <2>8, <2>10, <2>11 DEF Become, Bounded
<1>10. CASE Reselect
  <2>1. /\ rx' = [s \in Slot |-> IF rx[s].pc = "off" THEN rx[s] ELSE [rx[s] EXCEPT !.old = TRUE]]
        /\ ip' = ip /\ opened' = opened /\ added' = added
    BY <1>10 DEF Reselect
  <2>2. rx' \in [Slot -> Thread] BY <1>4, <1>5, <2>1
  <2>3. QED BY <1>4, <2>1, <2>2 DEF Bounded
<1>11. ASSUME NEW index \in DOMAIN AllDevices, AddProxyArpCache(index) PROVE Bounded'
  <2>1. /\ ip' = ip /\ rx' = rx /\ Len(opened') <= MaxOpens
        /\ added < MaxRows /\ added' = added + 1
    BY <1>11 DEF AddProxyArpCache, dialog
  <2>2. added' <= MaxRows
    <3>1. added \in Nat /\ MaxRows \in Nat BY DeviceAssumption DEF IInv, Settled
    <3>2. QED BY <2>1, <3>1
  <2>3. QED BY <1>4, <2>1, <2>2 DEF Bounded
<1>12. ASSUME NEW s \in Slot,
             Read(s) \/ Done(s) \/ Leave(s) \/ \E f \in Iface : Forward(s, f)
      PROVE  Bounded'
  <2>1. ip' = ip /\ opened' = opened /\ added' = added BY <1>12 DEF Read, Done, Leave, Forward, dialog
  <2>2. PICK t \in Thread : t = rx[s] BY <1>4
  <2>3. SlotIface[s] \in Iface /\ 0 \in 0 .. MaxOpens BY <1>1, DeviceAssumption
  <2>4. \E to \in Thread : rx' = [rx EXCEPT ![s] = to]
    <3>1. CASE Read(s)
      <4>1. rx' = [rx EXCEPT ![s] = [t EXCEPT !.pc = "read", !.handle = handle[SlotIface[s]]]]
        BY <1>4, <2>2, <3>1 DEF Read
      <4>2. QED BY <1>3, <1>5, <2>3, <4>1
    <3>2. CASE \E f \in Iface : Forward(s, f)
      <4>1. PICK f \in Iface :
              rx' = [rx EXCEPT ![s] = [t EXCEPT !.pc = "send", !.handle = handle[f]]]
        BY <1>4, <2>2, <3>2 DEF Forward
      <4>2. QED BY <1>3, <1>5, <4>1
    <3>3. CASE Done(s)
      <4>1. rx' = [rx EXCEPT ![s] = [t EXCEPT !.pc = "loop", !.handle = 0]]
        BY <1>4, <2>2, <3>3 DEF Done
      <4>2. QED BY <1>5, <2>3, <4>1
    <3>4. CASE Leave(s) BY <1>6, <3>4 DEF Leave
    <3>5. QED BY <1>12, <3>1, <3>2, <3>3, <3>4
  <2>5. rx' \in [Slot -> Thread] BY <1>4, <2>4
  <2>6. QED BY <1>4, <2>1, <2>5 DEF Bounded
<1>13. ASSUME NEW i \in DOMAIN rows, OnBnClickedButtonDelete(i) PROVE Bounded'
  BY <1>13, <1>4 DEF OnBnClickedButtonDelete, dialog, Bounded
<1>14. CASE UNCHANGED vars BY <1>4, <1>14 DEF vars, Bounded
<1>15. QED BY <1>7, <1>8, <1>9, <1>10, <1>11, <1>12, <1>13, <1>14 DEF Next

\* Every variable keeps its type; the address an edit shows is one of the
\* adapter's, typed or blank, and no more handles exist than were opened
\* (TypeOK).
THEOREM TypeCorrect == Spec => []TypeOK
<1>1. Spec => []Bounded
  <2>1. Init => Bounded BY InitBounded
  <2>2. IInv /\ Bounded /\ [Next]_vars => Bounded' BY NextBounded
  <2>3. QED BY <2>1, <2>2, Invariance, PTL DEF Spec
<1>2. IInv /\ Bounded => TypeOK BY BoundsAndTypes
<1>3. QED BY <1>1, <1>2, Invariance, PTL
================================================================================
