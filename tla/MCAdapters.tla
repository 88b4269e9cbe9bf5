------------------------------ MODULE MCAdapters ------------------------------
(***************************************************************************)
(* Values of the constants for model checking Adapters: two adapters, of   *)
(* which the second has an address behind one of an unknown family.        *)
(***************************************************************************)
EXTENDS Adapters

CONSTANTS
  lan, wan,      \* the adapters
  ipL, ipW, v6,  \* addresses
  i1, o1         \* receive threads

MCAllDevices == <<lan, wan>>
MCMACOf == [d \in {lan, wan} |-> IF d = lan THEN "macL" ELSE "macW"]

Address(family, addr) == [family |-> family, addr |-> addr]
MCAddresses ==
  [d \in {lan, wan} |->
     IF d = lan
     THEN <<Address("INET6", v6), Address("INET", ipL), Address("INET6", v6)>>
     ELSE <<Address("INET", ipW), Address("OTHER", v6), Address("INET", ipL)>>]

MCSlotIface == [s \in Slot |-> IF s = i1 THEN INNER ELSE OUTER]
===============================================================================
