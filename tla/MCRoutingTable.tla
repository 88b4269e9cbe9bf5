---------------------------- MODULE MCRoutingTable ----------------------------
(***************************************************************************)
(* Values of the constants for model checking RoutingTable: addresses of   *)
(* two bytes, bytes of two bits.                                           *)
(***************************************************************************)
EXTENDS RoutingTable

CONSTANTS r1, r2   \* receive threads

MCSlotIface == [s \in Slot |-> IF s = r1 THEN "INNER" ELSE "OUTER"]

RouteTo(dst, mask, gateway, flag, interface) ==
  [destination_ip |-> dst, netmask |-> mask, gateway |-> gateway,
   flag |-> flag, interface |-> interface]

\* A network reached directly, its lower half behind a gateway, the default
\* route, a route that is down, and gateways that cannot be compared.
Direct  == RouteTo(<<1, 0>>, <<3, 0>>, <<0, 0>>, {"UP", "HOST"}, "INNER")
Half    == RouteTo(<<1, 0>>, <<3, 2>>, <<1, 2>>, {"UP", "GATEWAY"}, "OUTER")
Default == RouteTo(<<0, 0>>, <<0, 0>>, <<2, 1>>, {"UP", "GATEWAY"}, "OUTER")
Down    == RouteTo(<<1, 1>>, <<3, 3>>, <<1, 1>>, {"GATEWAY"}, "INNER")
Same    == RouteTo(<<1, 1>>, <<3, 3>>, <<1, 2>>, {"UP", "HOST", "GATEWAY"}, "INNER")

Routes == {Direct, Half, Default, Down, Same}

Packets == [dst : {<<1, 1>>, <<1, 3>>}, ttl : {1}, tlength : {5}]
===============================================================================
