SPECIFICATION Spec
CONSTANTS
  blank = blank
  ipI = ipI
  ipO = ipO
  h = h
  k = k
  mI = mI
  mO = mO
  H = H
  K = K
  i1 = i1
  i2 = i2
  o1 = o1
  o2 = o2
  Broadcast = Broadcast
  ZeroMAC = ZeroMAC
  NoAddr = blank
  IPAddr <- MCIPAddr
  HostMAC <- MCHostMAC
  FirstFour <- MCFirstFour
  AdapterIP <- MCAdapterIP
  MyMAC <- MCMyMAC
  SlotIface <- MCSlotIface
  Announcement <- PeersAndEcho
  Target = {ipI, ipO, k}
  Hop <- NoHop
  Passing = {}
  Typed = {blank}
  Proxied <- ProxyRows
  Slot = {i1, i2, o1}
  IncompleteLife = 0
  CompleteLife = 1
  MaxAge = 2
  MaxEntries = 1
  MaxProxies = 2
INVARIANTS
  AnswersOwned
  InterfacesServed
