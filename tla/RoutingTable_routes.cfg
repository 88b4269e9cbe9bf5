SPECIFICATION Spec
CONSTANTS
  Base = 4
  AddrSize = 2
  IPMaxSize = 12
  Route <- Routes
  Packet <- Packets
  r1 = r1
  r2 = r2
  Slot = {r1, r2}
  SlotIface <- MCSlotIface
  MaxRoutes = 3
INVARIANTS
  TypeOK
  NoRouteSkipped
  ListedInstalled
  OrderedWhenComparable
PROPERTIES
  OthersKeepRoute
  OlderEqualDecides
