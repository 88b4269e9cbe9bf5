SPECIFICATION Spec
CONSTANTS
  lan = lan
  wan = wan
  ipL = ipL
  ipW = ipW
  v6 = v6
  i1 = i1
  o1 = o1
  AllDevices <- MCAllDevices
  MACOf <- MCMACOf
  Addresses <- MCAddresses
  Blank = blank
  Typed = {blank}
  NoDevice = NoDevice
  Garbage = Garbage
  ZeroMAC = ZeroMAC
  Slot = {i1, o1}
  SlotIface <- MCSlotIface
  MaxOpens = 3
  MaxRows = 2
PROPERTIES
  RowsHaveOwnMAC
