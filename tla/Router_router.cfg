SPECIFICATION RouterSpec
CONSTANTS
  mI = mI
  mO = mO
  H = H
  K = K
  i1 = i1
  o1 = o1
  Broadcast = Broadcast
  ZeroMAC = ZeroMAC
  NoAddr <- blank
  IPAddr <- MCIPAddr
  HostMAC <- MCHostMAC
  FirstFour <- MCFirstFour
  AdapterIP <- MCAdapterIP
  MyMAC <- MCMyMAC
  SlotIface <- MCSlotIface
  Announcement <- MCAnnouncement
  Target = {}
  Hop = {}
  Passing = {}
  Typed = {}
  Proxied <- ProxyRows
  Slot = {i1, o1}
  IncompleteLife = 0
  CompleteLife = 1
  MaxAge = 2
  MaxEntries = 2
  MaxProxies = 0
  Base = 4
  AddrSize = 2
  IPMaxSize = 12
  Route <- MCRoute
  Packet <- MCPacket
  MaxRoutes = 2
INVARIANTS
  RouterTypeOK
  PacketsFollowRoutes
  PacketsAddressed
  WaiterKeepsEntry
