------------------------------- MODULE ARPTable -------------------------------
(***************************************************************************)
(* The ARP cache of CARPLayer: the vector m_arpTable and what each of the  *)
(* layer's operations does to it.  Everything here is a function of a      *)
(* table, so that the state machines that own a table (ARPLayer) and the   *)
(* proofs about them share one definition of every update.                 *)
(*                                                                         *)
(* Indices start at 1; 0 is the "-1" of inCache.                           *)
(***************************************************************************)
EXTENDS Integers, Sequences, SequencesExt

CONSTANTS
  IPAddr,          \* every IP address that can occur in a packet or a field
  HostMAC,         \* Ethernet addresses of single stations, ours included
  Broadcast,       \* FF:FF:FF:FF:FF:FF
  ZeroMAC,         \* 00:00:00:00:00:00
  FirstFour,       \* FirstFour[m]: the first four bytes of m read as an address
  IncompleteLife,  \* age an incomplete entry may reach (180 s)
  CompleteLife,    \* age a complete entry may reach (600 s)
  MaxAge           \* ages are counted up to this bound and then stay there

ASSUME MACAssumption ==
  /\ Broadcast # ZeroMAC
  /\ {Broadcast, ZeroMAC} \cap HostMAC = {}
  /\ FirstFour \in [HostMAC -> IPAddr]

ASSUME LifeAssumption ==
  /\ {IncompleteLife, CompleteLife, MaxAge} \subseteq Nat
  /\ IncompleteLife < CompleteLife
  /\ CompleteLife < MaxAge

MAC == HostMAC \cup {Broadcast, ZeroMAC}

Status == {"incomplete", "complete", "timeout"}

\* struct _ARP_NODE; age is the time since spanTime was last set.
Node == [ip : IPAddr, mac : MAC, status : Status, age : 0 .. MaxAge]

\* Mutant: the constructor's first two arguments are exchanged.
NewNodeSwapped(ip, mac, status) ==
  [ip |-> mac, mac |-> ip, status |-> status, age |-> 0]

\* The constructor sets spanTime to the current time.
NewNode(ip, mac, status) ==
  [ip |-> ip, mac |-> mac, status |-> status, age |-> 0]

-----------------------------------------------------------------------------
(* Lookups. *)

\* The index of the first entry of this address, or 0.
inCache(table, ip) == SelectInSeq(table, LAMBDA node : node.ip = ip)

Holds(table, ip) == inCache(table, ip) # 0

\* getMACinARP and RSend take the address whatever the entry's status is.
Lookup(table, ip) == table[inCache(table, ip)].mac

-----------------------------------------------------------------------------
(* Updates. *)

\* The address of entry i is known: it is stored and the entry is new again.
Complete(table, i, mac) ==
  ReplaceAt(table, i, NewNode(table[i].ip, mac, "complete"))

\* A request announces its sender, but the entry is looked up by the sender's
\* hardware address: it is the entry whose IP is the first four bytes of mac.
HearRequest(table, ip, mac) ==
  LET index == inCache(table, FirstFour[mac])
  IN  IF index # 0
      THEN Complete(table, index, mac)
      ELSE Append(table, NewNode(ip, mac, "complete"))

\* Mutant: a reply completes the first entry there is, without comparing addresses.
HearReplyAnyone(table, ip, mac) ==
  IF table # << >> THEN Complete(table, 1, mac) ELSE table

\* A reply completes the first entry of its sender and never adds one.
HearReply(table, ip, mac) ==
  IF Holds(table, ip) THEN Complete(table, inCache(table, ip), mac) ELSE table

\* What Send makes of the address it asks for.
Question(ip, mac) == NewNode(ip, mac, "incomplete")

\* Mutant: Send assigns to an entry it finds but never adds one.
PutNeverAppends(table, seek, node) ==
  IF Holds(table, seek) THEN ReplaceAt(table, inCache(table, seek), node) ELSE table

\* Send puts its new entry in the place of the first one of the address it looks
\* for, or behind the others.
Put(table, seek, node) ==
  IF Holds(table, seek) THEN ReplaceAt(table, inCache(table, seek), node) ELSE Append(table, node)

\* Nothing keeps the others out between the search and the push_back: an entry
\* that was added in between is missed.
Stored(table, seek, node, missed) ==
  {Put(table, seek, node)} \cup (IF missed THEN {Append(table, node)} ELSE {})

Life(node) == IF node.status = "complete" THEN CompleteLife ELSE IncompleteLife

Expired(node) == node.status # "timeout" /\ node.age > Life(node)

\* Mutant: the timer erases the entries that have expired.
updateTableErasing(table) == SelectSeq(table, LAMBDA node : ~Expired(node))

\* Mutant: the timer looks at complete entries only.
updateTableCompleteOnly(table) ==
  [i \in DOMAIN table |->
     IF table[i].status = "complete" /\ Expired(table[i])
     THEN [table[i] EXCEPT !.status = "timeout"] ELSE table[i]]

\* Mutant: an expired answer becomes a question again.
updateTableReasking(table) ==
  [i \in DOMAIN table |->
     IF Expired(table[i])
     THEN [table[i] EXCEPT !.status = IF @ = "complete" THEN "incomplete" ELSE "timeout"]
     ELSE table[i]]

updateTable(table) ==
  [i \in DOMAIN table |->
     IF Expired(table[i]) THEN [table[i] EXCEPT !.status = "timeout"] ELSE table[i]]

\* vector::erase of the first entry of ip; erasing end() is undefined, so the
\* operator is meaningful only when the table holds ip.
deleteItem(table, ip) == RemoveAt(table, inCache(table, ip))

\* The clock: every entry grows older by one unit, up to MaxAge.
Older(table) ==
  [i \in DOMAIN table |->
     [table[i] EXCEPT !.age = IF @ < MaxAge THEN @ + 1 ELSE MaxAge]]

=============================================================================
