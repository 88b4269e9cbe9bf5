----------------------------- MODULE MCARPThreads -----------------------------
(***************************************************************************)
(* Values of the constants for model checking ARPThreads: both threads     *)
(* serve OUTER, the second one left over from an earlier Select.           *)
(***************************************************************************)
EXTENDS ARPThreads, TLC

CONSTANTS
  ipI, ipO, h, k,   \* our addresses and two peers
  H, K,             \* the peers' MACs
  o1, o2            \* receive threads

\* The threads serve the same interface and are alike.
Threads == Permutations(Slot)

MCMyIP == [f \in Iface |-> IF f = INNER THEN ipI ELSE ipO]
MCPeerMAC == [a \in {h, k} |-> IF a = h THEN H ELSE K]
MCSlotIface == [s \in Slot |-> OUTER]

\* K begins with the bytes of h's address.
MCFirstFour == [m \in {H, K} |-> IF m = K THEN h ELSE Unknown]

\* h is a neighbour, and the gateway to k.
MCHop == [a \in {h, k} |-> h]
MCOut == [a \in {h, k} |-> OUTER]

From(op, src, dst) == [op |-> op, src |-> src, dst |-> dst, mac |-> MCPeerMAC[src]]
MCArriving ==
  {From("request", k, ipI), From("reply", h, ipO), From("unknown", k, ipI), From("ip", k, h)}
===============================================================================
