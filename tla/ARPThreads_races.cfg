SPECIFICATION Spec
CONSTANTS
  ipI = ipI
  ipO = ipO
  h = h
  k = k
  H = H
  K = K
  o1 = o1
  o2 = o2
  UI = UI
  Slot = {o1, o2}
  SlotIface <- MCSlotIface
  MyIP <- MCMyIP
  Broadcast = Broadcast
  ZeroMAC = ZeroMAC
  PeerMAC <- MCPeerMAC
  FirstFour <- MCFirstFour
  Asked = {h}
  Arriving <- MCArriving
  Hop <- MCHop
  Out <- MCOut
  Unknown = Unknown
  UnknownMAC = UnknownMAC
  MaxFrames = 2
  MaxClicks = 2
  MaxEvents = 3
  MaxEntries = 2
INVARIANTS
  TypeOK
  IndexHolds
  StoredAsMeant
  CopiesStray
  FrameAsMeant
  ThrowsForCause
PROPERTIES
  OnlyUserForgets
SYMMETRY Threads
CHECK_DEADLOCK FALSE
