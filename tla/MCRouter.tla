------------------------------- MODULE MCRouter -------------------------------
(***************************************************************************)
(* Values of the constants for model checking Router: addresses of two     *)
(* bytes of two bits.                                                      *)
(***************************************************************************)
EXTENDS Router

CONSTANTS mI, mO, H, K, i1, o1   \* our MACs and the peers', and the threads

blank == <<0, 0>>
ipI == <<1, 1>>
ipO == <<2, 1>>
h == <<1, 2>>
k == <<2, 2>>

MCIPAddr == {blank, ipI, ipO, h, k}
MCHostMAC == {mI, mO, H, K}

\* No hardware address begins with the bytes of an IP address: the cache run has
\* one that does.
MCFirstFour == [m \in MCHostMAC |-> blank]
MCAdapterIP == [f \in Iface |-> IF f = INNER THEN ipI ELSE ipO]
MCMyMAC == [f \in Iface |-> IF f = INNER THEN mI ELSE mO]
MCSlotIface == [s \in Slot |-> IF s = i1 THEN INNER ELSE OUTER]

\* The gateway speaks, the host of the inner network never does.
MCAnnouncement == {[ip |-> k, mac |-> K]}
ProxyRows == {}

RouteTo(dst, mask, gateway, flag, interface) ==
  [destination_ip |-> dst, netmask |-> mask, gateway |-> gateway,
   flag |-> flag, interface |-> interface]

\* The inner network, everything through k, and a row for k that is down.
Direct  == RouteTo(<<1, 0>>, <<3, 0>>, <<0, 0>>, {"UP", "HOST"}, "INNER")
Default == RouteTo(<<0, 0>>, <<0, 0>>, k, {"UP", "GATEWAY"}, "OUTER")
Down    == RouteTo(<<2, 2>>, <<3, 3>>, <<1, 1>>, {"GATEWAY"}, "OUTER")
MCRoute == {Direct, Default, Down}

\* A packet to h, which goes to h itself or to k, and past the row for k.
MCPacket == [dst : {h}, ttl : {1}, tlength : {5}]
===============================================================================
