------------------------------ MODULE MCARPLayer ------------------------------
(***************************************************************************)
(* Values of the constants for model checking ARPLayer.                    *)
(***************************************************************************)
EXTENDS ARPLayer

CONSTANTS
  blank, ipI, ipO, h, k,   \* 0.0.0.0, our two addresses, two peers
  mI, mO, H, K,            \* our two MACs, the peers' MACs
  i1, i2, o1, o2           \* receive threads

MCIPAddr == {blank, ipI, ipO, h, k}
MCHostMAC == {mI, mO, H, K}

\* K's MAC begins with the bytes of h's address; no other MAC looks like a peer.
MCFirstFour == [m \in MCHostMAC |-> IF m = K THEN h ELSE blank]
MCAdapterIP == [f \in Iface |-> IF f = INNER THEN ipI ELSE ipO]
MCMyMAC == [f \in Iface |-> IF f = INNER THEN mI ELSE mO]

FromH == [ip |-> h, mac |-> H]
FromK == [ip |-> k, mac |-> K]
Spoof == [ip |-> ipI, mac |-> H]

JustH == {FromH}
Peers == {FromH, FromK}
PeersAndEcho == {FromH, Spoof}

\* h is a neighbour on OUTER.
HopH == {[ip |-> h, out |-> OUTER]}
NoHop == {}

\* A packet from h to k.
Foreign == {[src |-> h, dst |-> k]}

NoProxies == {}
ProxyOfH == {[src |-> mI, ip |-> h, mac |-> H]}
ProxyRows == {[src |-> mO, ip |-> k, mac |-> K], [src |-> mI, ip |-> k, mac |-> H]}

MCSlotIface == [s \in Slot |-> IF s \in {i1, i2} THEN INNER ELSE OUTER]
=============================================================================
