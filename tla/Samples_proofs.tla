---------------------------- MODULE Samples_proofs ----------------------------
(***************************************************************************)
(* Proofs about Samples: what the graphs of its programs have in common,   *)
(* what each program holds at each of its labels, and from that what holds *)
(* for all of them on machines with any number of adapters.                *)
(***************************************************************************)
EXTENDS Samples, TLAPS

-----------------------------------------------------------------------------
(* Nodes. *)

\* A node of a main function that leads to the labels D: only forwarders use the
\* section, and only a check of a number, one of Checks, leads to openChosen.
MainNode(n, D, Checks) ==
  /\ n.do \in {"try", "drop", "call", "ask", "test", "start", "terminate", "init",
               "signal", "sleep"}
  /\ n.do \in {"try", "test", "start"} => DOMAIN n.to = {1, 2}
  /\ n.do \in {"drop", "ask", "terminate", "init", "signal"} => DOMAIN n.to = {1}
  /\ n.do \in {"start", "terminate"} => n.arg \in Forwarder
  /\ \A i \in DOMAIN n.to :
       /\ n.to[i] \in D \cup Ended
       /\ n.to[i] = "openChosen" => n.do = "test" /\ i = 2 /\ n.arg \in Checks

Into(f, D, Checks) == \A x \in DOMAIN f : MainNode(f[x], D, Checks)

\* The nodes of a whole program.
Graph(f, Checks) ==
  /\ "start" \in DOMAIN f
  /\ "openSecond" \in DOMAIN f => "same" \in Checks
  /\ Into(f, DOMAIN f, Checks)

\* Labels that any node may lead to.
Free(D) == (D \cup Ended) \ {"openChosen"}

LEMMA CallNode ==
  ASSUME NEW D, NEW C, NEW needs, NEW to, \A i \in DOMAIN to : to[i] \in Free(D)
  PROVE  MainNode(Call(needs, to), D, C)
BY DEF MainNode, Call, Node, Free

LEMMA TryNode ==
  ASSUME NEW D, NEW C, NEW o, NEW needs, NEW l \in Free(D), NEW m \in Free(D)
  PROVE  MainNode(Try(o, needs, l, m), D, C)
BY DEF MainNode, Try, Node, Free

LEMMA DropNode ==
  ASSUME NEW D, NEW C, NEW o, NEW l \in Free(D)
  PROVE  MainNode(Drop(o, l), D, C)
BY DEF MainNode, Drop, Node, Free

LEMMA AskNode ==
  ASSUME NEW D, NEW C, NEW i, NEW l \in Free(D)
  PROVE  MainNode(Ask(i, l), D, C)
BY DEF MainNode, Ask, Node, Free

LEMMA TestNode ==
  ASSUME NEW D, NEW C, NEW condition, NEW l \in Free(D), NEW m \in D \cup Ended,
         m = "openChosen" => condition \in C
  PROVE  MainNode(Test(condition, l, m), D, C)
BY DEF MainNode, Test, Node, Free

LEMMA GotoNode ==
  ASSUME NEW D, NEW C, NEW l \in Free(D)
  PROVE  MainNode(Goto(l), D, C) /\ MainNode(Usage(l), D, C)
BY CallNode DEF Goto, Usage, Free, Ended

-----------------------------------------------------------------------------
(* Graphs. *)

\* The first graph goes before the second, whose nodes it may replace.
LEMMA Joined ==
  ASSUME NEW f, NEW g
  PROVE  /\ DOMAIN (f @@ g) = DOMAIN f \cup DOMAIN g
         /\ \A x \in DOMAIN f : (f @@ g)[x] = f[x]
         /\ \A x \in DOMAIN g : x \notin DOMAIN f => (f @@ g)[x] = g[x]
         /\ \A D, C : Into(f, D, C) /\ Into(g, D, C) => Into(f @@ g, D, C)
<1>1. /\ DOMAIN (f @@ g) = DOMAIN f \cup DOMAIN g
      /\ \A x \in DOMAIN f : (f @@ g)[x] = f[x]
      /\ \A x \in DOMAIN g : x \notin DOMAIN f => (f @@ g)[x] = g[x]
  BY DEF @@
<1>2. QED BY <1>1 DEF Into

LEMMA MoreLabels ==
  ASSUME NEW f, NEW D, NEW E, NEW C, Into(f, D, C), D \subseteq E
  PROVE  Into(f, E, C)
BY DEF Into, MainNode

\* A program changed in some nodes.
LEMMA Changed ==
  ASSUME NEW f, NEW g, NEW C, Graph(g, C), Into(f, DOMAIN f \cup DOMAIN g, C),
         "openSecond" \notin DOMAIN f
  PROVE  Graph(f @@ g, C)
<1>1. Into(g, DOMAIN f \cup DOMAIN g, C) BY MoreLabels DEF Graph
<1>2. QED BY <1>1, Joined DEF Graph

LEMMA ChooseNodes ==
  ASSUME NEW D, {"find", "empty", "ask", "range", "giveUp", "openChosen"} \subseteq D,
         NEW C, "outside1" \in C
  PROVE  /\ DOMAIN Choose = {"find", "empty", "ask", "range", "giveUp"}
         /\ Into(Choose, D, C)
<1>1. /\ "early" \in Free(D) /\ "empty" \in Free(D) /\ "ask" \in Free(D)
      /\ "range" \in Free(D) /\ "giveUp" \in Free(D)
  BY DEF Free, Ended
<1>2. MainNode(Test("outside1", "giveUp", "openChosen"), D, C) BY <1>1, TestNode
<1>3. /\ MainNode(Try("devs", {}, "empty", "early"), D, C)
      /\ MainNode(Test("empty", "early", "ask"), D, C)
      /\ MainNode(Ask(1, "range"), D, C) /\ MainNode(Drop("devs", "early"), D, C)
  <2>1. "ask" # "openChosen" OBVIOUS
  <2>2. MainNode(Test("empty", "early", "ask"), D, C) BY <1>1, <2>1, TestNode DEF Free
  <2>3. QED BY <1>1, <2>2, TryNode, AskNode, DropNode
<1>4. QED BY <1>2, <1>3 DEF Into, Choose

LEMMA LoopThenNodes ==
  ASSUME NEW l \in {"close", "done"}
  PROVE  /\ DOMAIN LoopThen(l) = {"loop", "close"}
         /\ \A D, C : {"loop", "close"} \subseteq D => Into(LoopThen(l), D, C)
BY CallNode, DropNode DEF Into, LoopThen, Ended, Free

LEMMA ReadAllNodes ==
  ASSUME NEW l \in {"close", "done"}
  PROVE  /\ DOMAIN ReadAll(l) = {"loop", "error", "close"}
         /\ \A D, C : {"loop", "error", "close"} \subseteq D => Into(ReadAll(l), D, C)
BY CallNode, DropNode DEF Into, ReadAll, Ended, Free

LEMMA ChooseNameNodes ==
  ASSUME NEW D, {"names", "ask", "above", "openChosen"} \subseteq D
  PROVE  /\ DOMAIN ChooseName = {"names", "ask", "above"}
         /\ Into(ChooseName, D, {"above1"})
<1>1. "early" \in Free(D) /\ "ask" \in Free(D) /\ "above" \in Free(D) BY DEF Free, Ended
<1>2. MainNode(Test("above1", "ask", "openChosen"), D, {"above1"}) BY <1>1, TestNode
<1>3. MainNode(Call({}, <<"ask", "early">>), D, {"above1"}) BY <1>1, CallNode
<1>4. MainNode(Ask(1, "above"), D, {"above1"}) BY <1>1, AskNode
<1>5. QED BY <1>2, <1>3, <1>4 DEF Into, ChooseName

-----------------------------------------------------------------------------
(* Programs. *)

LEMMA readfileGraph == Graph(readfile, {"outside1"})
<1> DEFINE D == {"start", "open", "loop", "close"}
<1>1. DOMAIN LoopThen("close") = {"loop", "close"} /\ Into(LoopThen("close"), D, {"outside1"})
  BY LoopThenNodes
<1>2. ASSUME NEW f, readfile = f @@ LoopThen("close"),
             Into(f, D, {"outside1"}), DOMAIN f = {"start", "open"}
      PROVE  Graph(readfile, {"outside1"})
  <2>1. Into(readfile, D, {"outside1"}) BY <1>1, <1>2, Joined
  <2>2. DOMAIN readfile = DOMAIN f \cup DOMAIN LoopThen("close") BY <1>2, Joined
  <2>3. DOMAIN readfile = D BY <1>1, <1>2, <2>2
  <2>4. QED BY <2>1, <2>3 DEF Graph
<1>3. (D \cup Ended) \ {"openChosen"} = Free(D) BY DEF Free
<1>4. QED
  BY <1>2, <1>3, CallNode, TryNode, DropNode, AskNode, TestNode, GotoNode
  DEF readfile, Into, Ended

LEMMA readfile_exGraph == Graph(readfile_ex, {"outside1"})
<1> DEFINE D == {"start", "open", "error", "loop", "close"}
<1>1. DOMAIN ReadAll("close") = {"loop", "error", "close"} /\ Into(ReadAll("close"), D, {"outside1"})
  BY ReadAllNodes
<1>2. ASSUME NEW f, readfile_ex = f @@ ReadAll("close"),
             Into(f, D, {"outside1"}), DOMAIN f = {"start", "open", "error"}
      PROVE  Graph(readfile_ex, {"outside1"})
  <2>1. Into(readfile_ex, D, {"outside1"}) BY <1>1, <1>2, Joined
  <2>2. DOMAIN readfile_ex = DOMAIN f \cup DOMAIN ReadAll("close") BY <1>2, Joined
  <2>3. DOMAIN readfile_ex = D BY <1>1, <1>2, <2>2
  <2>4. QED BY <2>1, <2>3 DEF Graph
<1>3. (D \cup Ended) \ {"openChosen"} = Free(D) BY DEF Free
<1>4. QED
  BY <1>2, <1>3, CallNode, TryNode, DropNode, AskNode, TestNode, GotoNode
  DEF readfile_ex, Into, Ended

LEMMA sendpackGraph == Graph(sendpack, {"outside1"})
<1> DEFINE D == {"start", "open", "send", "error", "close"}
<1>1. DOMAIN sendpack = D BY DEF sendpack
<1>2. ASSUME NEW E, D \cup Ended \subseteq Free(E)
      PROVE  Into(sendpack, E, {"outside1"})
  BY <1>2, CallNode, TryNode, DropNode, AskNode, TestNode, GotoNode
  DEF sendpack, Into, Ended
<1>3. D \cup Ended \subseteq Free(D) BY DEF Free, Ended
<1>4. QED BY <1>1, <1>2, <1>3 DEF Graph

LEMMA basic_dumpGraph == Graph(basic_dump, {"outside1"})
<1> DEFINE D == {"start", "openChosen", "listen", "find", "empty", "ask",
                 "range", "giveUp", "loop", "close"}
<1>1. DOMAIN Choose = {"find", "empty", "ask", "range", "giveUp"} /\ Into(Choose, D, {"outside1"})
  BY ChooseNodes
<1>2. DOMAIN LoopThen("close") = {"loop", "close"} /\ Into(LoopThen("close"), D, {"outside1"})
  BY LoopThenNodes
<1>3. ASSUME NEW f, basic_dump = f @@ Choose @@ LoopThen("close"),
             Into(f, D, {"outside1"}), DOMAIN f = {"start", "openChosen", "listen"}
      PROVE  Graph(basic_dump, {"outside1"})
  <2>1. Into(basic_dump, D, {"outside1"}) BY <1>1, <1>2, <1>3, Joined
  <2>2. DOMAIN basic_dump = DOMAIN f \cup DOMAIN Choose \cup DOMAIN LoopThen("close") BY <1>3, Joined
  <2>3. DOMAIN basic_dump = D BY <1>1, <1>2, <1>3, <2>2
  <2>4. QED BY <2>1, <2>3 DEF Graph
<1>4. (D \cup Ended) \ {"openChosen"} = Free(D) BY DEF Free
<1>5. QED
  BY <1>3, <1>4, CallNode, TryNode, DropNode, AskNode, TestNode, GotoNode
  DEF basic_dump, Into, Ended

LEMMA basic_dump_exGraph == Graph(basic_dump_ex, {"outside1"})
<1> DEFINE D == {"start", "openChosen", "listen", "find", "empty", "ask",
                 "range", "giveUp", "loop", "error", "close"}
<1>1. DOMAIN Choose = {"find", "empty", "ask", "range", "giveUp"} /\ Into(Choose, D, {"outside1"})
  BY ChooseNodes
<1>2. DOMAIN ReadAll("close") = {"loop", "error", "close"} /\ Into(ReadAll("close"), D, {"outside1"})
  BY ReadAllNodes
<1>3. ASSUME NEW f, basic_dump_ex = f @@ Choose @@ ReadAll("close"),
             Into(f, D, {"outside1"}), DOMAIN f = {"start", "openChosen", "listen"}
      PROVE  Graph(basic_dump_ex, {"outside1"})
  <2>1. Into(basic_dump_ex, D, {"outside1"}) BY <1>1, <1>2, <1>3, Joined
  <2>2. DOMAIN basic_dump_ex = DOMAIN f \cup DOMAIN Choose \cup DOMAIN ReadAll("close") BY <1>3, Joined
  <2>3. DOMAIN basic_dump_ex = D BY <1>1, <1>2, <1>3, <2>2
  <2>4. QED BY <2>1, <2>3 DEF Graph
<1>4. (D \cup Ended) \ {"openChosen"} = Free(D) BY DEF Free
<1>5. QED
  BY <1>3, <1>4, CallNode, TryNode, DropNode, AskNode, TestNode, GotoNode
  DEF basic_dump_ex, Into, Ended

LEMMA savedumpGraph == Graph(savedump, {"outside1"})
<1> DEFINE D == {"start", "openChosen", "create", "listen", "loop", "save",
                 "close", "find", "empty", "ask", "range", "giveUp"}
<1>1. DOMAIN Choose = {"find", "empty", "ask", "range", "giveUp"} /\ Into(Choose, D, {"outside1"})
  BY ChooseNodes
<1>2. ASSUME NEW f, savedump = f @@ Choose,
             Into(f, D, {"outside1"}), DOMAIN f = {"start", "openChosen", "create", "listen",
                              "loop", "save", "close"}
      PROVE  Graph(savedump, {"outside1"})
  <2>1. Into(savedump, D, {"outside1"}) BY <1>1, <1>2, Joined
  <2>2. DOMAIN savedump = DOMAIN f \cup DOMAIN Choose BY <1>2, Joined
  <2>3. DOMAIN savedump = D BY <1>1, <1>2, <2>2
  <2>4. QED BY <2>1, <2>3 DEF Graph
<1>3. (D \cup Ended) \ {"openChosen"} = Free(D) BY DEF Free
<1>4. QED
  BY <1>2, <1>3, CallNode, TryNode, DropNode, AskNode, TestNode, GotoNode
  DEF savedump, Into, Ended

LEMMA pktdump_exGraph == Graph(pktdump_ex, {"outside1"})
<1> DEFINE D == {"start", "openChosen", "open", "find", "empty", "ask",
                 "range", "giveUp", "loop", "error", "close"}
<1>1. DOMAIN Choose = {"find", "empty", "ask", "range", "giveUp"} /\ Into(Choose, D, {"outside1"})
  BY ChooseNodes
<1>2. DOMAIN ReadAll("close") = {"loop", "error", "close"} /\ Into(ReadAll("close"), D, {"outside1"})
  BY ReadAllNodes
<1>3. ASSUME NEW f, pktdump_ex = f @@ Choose @@ ReadAll("close"),
             Into(f, D, {"outside1"}), DOMAIN f = {"start", "openChosen", "open"}
      PROVE  Graph(pktdump_ex, {"outside1"})
  <2>1. Into(pktdump_ex, D, {"outside1"}) BY <1>1, <1>2, <1>3, Joined
  <2>2. DOMAIN pktdump_ex = DOMAIN f \cup DOMAIN Choose \cup DOMAIN ReadAll("close") BY <1>3, Joined
  <2>3. DOMAIN pktdump_ex = D BY <1>1, <1>2, <1>3, <2>2
  <2>4. QED BY <2>1, <2>3 DEF Graph
<1>4. (D \cup Ended) \ {"openChosen"} = Free(D) BY DEF Free
<1>5. QED
  BY <1>3, <1>4, CallNode, TryNode, DropNode, AskNode, TestNode, GotoNode
  DEF pktdump_ex, Into, Ended

LEMMA pcap_filterGraph == Graph(pcap_filter, {"outside1"})
<1> DEFINE D == {"start", "source", "open", "filter", "compile", "set",
                 "output", "create", "loop", "save", "close", "closeDump",
                 "abandon"}
<1>1. DOMAIN pcap_filter = D BY DEF pcap_filter
<1>2. ASSUME NEW E, D \cup Ended \subseteq Free(E)
      PROVE  Into(pcap_filter, E, {"outside1"})
  BY <1>2, CallNode, TryNode, DropNode, AskNode, TestNode, GotoNode
  DEF pcap_filter, Into, Ended
<1>3. D \cup Ended \subseteq Free(D) BY DEF Free, Ended
<1>4. QED BY <1>1, <1>2, <1>3 DEF Graph

LEMMA iflistGraph == Graph(iflist, {"outside1"})
<1> DEFINE D == {"start", "ifprint", "free"}
<1>1. DOMAIN iflist = D BY DEF iflist
<1>2. ASSUME NEW E, D \cup Ended \subseteq Free(E)
      PROVE  Into(iflist, E, {"outside1"})
  BY <1>2, CallNode, TryNode, DropNode, AskNode, TestNode, GotoNode
  DEF iflist, Into, Ended
<1>3. D \cup Ended \subseteq Free(D) BY DEF Free, Ended
<1>4. QED BY <1>1, <1>2, <1>3 DEF Graph

LEMMA UDPdumpGraph == Graph(UDPdump, {"outside1"})
<1> DEFINE D == {"start", "openChosen", "datalink", "netmask", "compile",
                 "set", "listen", "find", "empty", "ask", "range", "giveUp",
                 "loop", "close"}
<1>1. DOMAIN Choose = {"find", "empty", "ask", "range", "giveUp"} /\ Into(Choose, D, {"outside1"})
  BY ChooseNodes
<1>2. DOMAIN LoopThen("done") = {"loop", "close"} /\ Into(LoopThen("done"), D, {"outside1"})
  BY LoopThenNodes
<1>3. ASSUME NEW f, UDPdump = f @@ Choose @@ LoopThen("done"),
             Into(f, D, {"outside1"}), DOMAIN f = {"start", "openChosen", "datalink", "netmask",
                              "compile", "set", "listen"}
      PROVE  Graph(UDPdump, {"outside1"})
  <2>1. Into(UDPdump, D, {"outside1"}) BY <1>1, <1>2, <1>3, Joined
  <2>2. DOMAIN UDPdump = DOMAIN f \cup DOMAIN Choose \cup DOMAIN LoopThen("done") BY <1>3, Joined
  <2>3. DOMAIN UDPdump = D BY <1>1, <1>2, <1>3, <2>2
  <2>4. QED BY <2>1, <2>3 DEF Graph
<1>4. (D \cup Ended) \ {"openChosen"} = Free(D) BY DEF Free
<1>5. QED
  BY <1>3, <1>4, CallNode, TryNode, DropNode, AskNode, TestNode, GotoNode
  DEF UDPdump, Into, Ended

LEMMA pcap_fopenGraph == Graph(pcap_fopen, {"outside1"})
<1> DEFINE D == {"start", "paths", "tshark", "open", "loop", "close",
                 "closeFile"}
<1>1. DOMAIN pcap_fopen = D BY DEF pcap_fopen
<1>2. ASSUME NEW E, D \cup Ended \subseteq Free(E)
      PROVE  Into(pcap_fopen, E, {"outside1"})
  BY <1>2, CallNode, TryNode, DropNode, AskNode, TestNode, GotoNode
  DEF pcap_fopen, Into, Ended
<1>3. D \cup Ended \subseteq Free(D) BY DEF Free, Ended
<1>4. QED BY <1>1, <1>2, <1>3 DEF Graph

LEMMA smp_1Graph == Graph(smp_1, {"outside1"})
<1> DEFINE D == {"start", "openChosen", "find", "empty", "ask", "range",
                 "giveUp", "loop", "error", "close"}
<1>1. DOMAIN Choose = {"find", "empty", "ask", "range", "giveUp"} /\ Into(Choose, D, {"outside1"})
  BY ChooseNodes
<1>2. DOMAIN ReadAll("done") = {"loop", "error", "close"} /\ Into(ReadAll("done"), D, {"outside1"})
  BY ReadAllNodes
<1>3. ASSUME NEW f, smp_1 = f @@ Choose @@ ReadAll("done"),
             Into(f, D, {"outside1"}), DOMAIN f = {"start", "openChosen"}
      PROVE  Graph(smp_1, {"outside1"})
  <2>1. Into(smp_1, D, {"outside1"}) BY <1>1, <1>2, <1>3, Joined
  <2>2. DOMAIN smp_1 = DOMAIN f \cup DOMAIN Choose \cup DOMAIN ReadAll("done") BY <1>3, Joined
  <2>3. DOMAIN smp_1 = D BY <1>1, <1>2, <1>3, <2>2
  <2>4. QED BY <2>1, <2>3 DEF Graph
<1>4. (D \cup Ended) \ {"openChosen"} = Free(D) BY DEF Free
<1>5. QED
  BY <1>3, <1>4, CallNode, TryNode, DropNode, AskNode, TestNode, GotoNode
  DEF smp_1, Into, Ended

LEMMA sendcapGraph == Graph(sendcap, {"outside1"})
<1> DEFINE D == {"start", "length", "measured", "source", "open", "openOut",
                 "datalink", "alloc", "read", "add", "corrupt", "transmit",
                 "destroy", "close", "closeOut"}
<1>1. DOMAIN sendcap = D BY DEF sendcap
<1>2. ASSUME NEW E, D \cup Ended \subseteq Free(E)
      PROVE  Into(sendcap, E, {"outside1"})
  BY <1>2, CallNode, TryNode, DropNode, AskNode, TestNode, GotoNode
  DEF sendcap, Into, Ended
<1>3. D \cup Ended \subseteq Free(D) BY DEF Free, Ended
<1>4. QED BY <1>1, <1>2, <1>3 DEF Graph

LEMMA tcptopGraph == Graph(tcptop, {"outside1"})
<1> DEFINE D == {"start", "open", "compile", "set", "mode", "abandon", "loop",
                 "close"}
<1>1. DOMAIN LoopThen("close") = {"loop", "close"} /\ Into(LoopThen("close"), D, {"outside1"})
  BY LoopThenNodes
<1>2. ASSUME NEW f, tcptop = f @@ LoopThen("close"),
             Into(f, D, {"outside1"}), DOMAIN f = {"start", "open", "compile", "set", "mode",
                              "abandon"}
      PROVE  Graph(tcptop, {"outside1"})
  <2>1. Into(tcptop, D, {"outside1"}) BY <1>1, <1>2, Joined
  <2>2. DOMAIN tcptop = DOMAIN f \cup DOMAIN LoopThen("close") BY <1>2, Joined
  <2>3. DOMAIN tcptop = D BY <1>1, <1>2, <2>2
  <2>4. QED BY <2>1, <2>3 DEF Graph
<1>3. (D \cup Ended) \ {"openChosen"} = Free(D) BY DEF Free
<1>4. QED
  BY <1>2, <1>3, CallNode, TryNode, DropNode, AskNode, TestNode, GotoNode
  DEF tcptop, Into, Ended

LEMMA GetMacAddressGraph == Graph(GetMacAddress, {"above1"})
<1> DEFINE D == {"start", "openChosen", "alloc", "request", "free", "close",
                 "abandon", "names", "ask", "above"}
<1>1. DOMAIN ChooseName = {"names", "ask", "above"} /\ Into(ChooseName, D, {"above1"})
  BY ChooseNameNodes
<1>2. ASSUME NEW f, GetMacAddress = f @@ ChooseName,
             Into(f, D, {"above1"}), DOMAIN f = {"start", "openChosen", "alloc", "request",
                              "free", "close", "abandon"}
      PROVE  Graph(GetMacAddress, {"above1"})
  <2>1. Into(GetMacAddress, D, {"above1"}) BY <1>1, <1>2, Joined
  <2>2. DOMAIN GetMacAddress = DOMAIN f \cup DOMAIN ChooseName BY <1>2, Joined
  <2>3. DOMAIN GetMacAddress = D BY <1>1, <1>2, <2>2
  <2>4. QED BY <2>1, <2>3 DEF Graph
<1>3. (D \cup Ended) \ {"openChosen"} = Free(D) BY DEF Free
<1>4. QED
  BY <1>2, <1>3, CallNode, TryNode, DropNode, AskNode, TestNode, GotoNode
  DEF GetMacAddress, Into, Ended

LEMMA TestPacketSendGraph == Graph(TestPacketSend, {"above1"})
<1> DEFINE D == {"start", "openChosen", "open", "alloc", "fill", "writes",
                 "send", "free", "close", "names", "ask", "above"}
<1>1. DOMAIN ChooseName = {"names", "ask", "above"} /\ Into(ChooseName, D, {"above1"})
  BY ChooseNameNodes
<1>2. ASSUME NEW f, TestPacketSend = f @@ ChooseName,
             Into(f, D, {"above1"}), DOMAIN f = {"start", "openChosen", "open", "alloc", "fill",
                              "writes", "send", "free", "close"}
      PROVE  Graph(TestPacketSend, {"above1"})
  <2>1. Into(TestPacketSend, D, {"above1"}) BY <1>1, <1>2, Joined
  <2>2. DOMAIN TestPacketSend = DOMAIN f \cup DOMAIN ChooseName BY <1>2, Joined
  <2>3. DOMAIN TestPacketSend = D BY <1>1, <1>2, <2>2
  <2>4. QED BY <2>1, <2>3 DEF Graph
<1>3. (D \cup Ended) \ {"openChosen"} = Free(D) BY DEF Free
<1>4. QED
  BY <1>2, <1>3, CallNode, TryNode, DropNode, AskNode, TestNode, GotoNode
  DEF TestPacketSend, Into, Ended

LEMMA TestPacketCaptureGraph == Graph(TestPacketCapture, {"above1"})
<1> DEFINE D == {"start", "openChosen", "filter", "buffer", "timeout", "alloc",
                 "fill", "key", "receive", "print", "stats", "free", "close",
                 "names", "ask", "above"}
<1>1. DOMAIN ChooseName = {"names", "ask", "above"} /\ Into(ChooseName, D, {"above1"})
  BY ChooseNameNodes
<1>2. ASSUME NEW f, TestPacketCapture = f @@ ChooseName,
             Into(f, D, {"above1"}), DOMAIN f = {"start", "openChosen", "filter", "buffer",
                              "timeout", "alloc", "fill", "key", "receive",
                              "print", "stats", "free", "close"}
      PROVE  Graph(TestPacketCapture, {"above1"})
  <2>1. Into(TestPacketCapture, D, {"above1"}) BY <1>1, <1>2, Joined
  <2>2. DOMAIN TestPacketCapture = DOMAIN f \cup DOMAIN ChooseName BY <1>2, Joined
  <2>3. DOMAIN TestPacketCapture = D BY <1>1, <1>2, <2>2
  <2>4. QED BY <2>1, <2>3 DEF Graph
<1>3. (D \cup Ended) \ {"openChosen"} = Free(D) BY DEF Free
<1>4. QED
  BY <1>2, <1>3, CallNode, TryNode, DropNode, AskNode, TestNode, GotoNode
  DEF TestPacketCapture, Into, Ended

-----------------------------------------------------------------------------
(* Programs that change others in some nodes. *)

LEMMA LoopChanged ==
  ASSUME NEW g, NEW C, Graph(g, C)
  PROVE  Graph(LoopThen("done") @@ g, C)
<1>1. DOMAIN LoopThen("done") = {"loop", "close"} BY LoopThenNodes
<1>2. {"loop", "close"} \subseteq DOMAIN LoopThen("done") \cup DOMAIN g BY <1>1
<1>3. Into(LoopThen("done"), DOMAIN LoopThen("done") \cup DOMAIN g, C) BY <1>2, LoopThenNodes
<1>4. "openSecond" \notin DOMAIN LoopThen("done") BY <1>1
<1>5. QED BY <1>3, <1>4, Changed

LEMMA ReadAllChanged ==
  ASSUME NEW g, NEW C, Graph(g, C)
  PROVE  Graph(ReadAll("done") @@ g, C)
<1>1. DOMAIN ReadAll("done") = {"loop", "error", "close"} BY ReadAllNodes
<1>2. {"loop", "error", "close"} \subseteq DOMAIN ReadAll("done") \cup DOMAIN g BY <1>1
<1>3. Into(ReadAll("done"), DOMAIN ReadAll("done") \cup DOMAIN g, C) BY <1>2, ReadAllNodes
<1>4. "openSecond" \notin DOMAIN ReadAll("done") BY <1>1
<1>5. QED BY <1>3, <1>4, Changed

LEMMA misc_sendpackGraph == Graph(misc_sendpack, {"outside1"})
<1>1. {"error"} \subseteq DOMAIN sendpack BY DEF sendpack
<1>2. ASSUME NEW f, misc_sendpack = f @@ sendpack, DOMAIN f = {"send"},
             \A D : {"error"} \subseteq D => Into(f, D, {"outside1"})
      PROVE  Graph(misc_sendpack, {"outside1"})
  <2>1. Into(f, DOMAIN f \cup DOMAIN sendpack, {"outside1"}) BY <1>1, <1>2
  <2>2. "openSecond" \notin DOMAIN f BY <1>2
  <2>3. Graph(f @@ sendpack, {"outside1"}) BY <2>1, <2>2, Changed, sendpackGraph
  <2>4. QED BY <1>2, <2>3
<1>3. QED BY <1>2, CallNode DEF misc_sendpack, Into, Free, Ended

LEMMA misc_basic_dumpGraph == Graph(misc_basic_dump, {"outside1"})
BY LoopChanged, basic_dumpGraph DEF misc_basic_dump

LEMMA misc_basic_dump_exGraph == Graph(misc_basic_dump_ex, {"outside1"})
BY ReadAllChanged, basic_dump_exGraph DEF misc_basic_dump_ex

LEMMA misc_savedumpGraph == Graph(misc_savedump, {"outside1"})
<1>1. {"save"} \subseteq DOMAIN savedump BY Joined DEF savedump
<1>2. ASSUME NEW f, misc_savedump = f @@ savedump, DOMAIN f = {"loop"},
             \A D : {"save"} \subseteq D => Into(f, D, {"outside1"})
      PROVE  Graph(misc_savedump, {"outside1"})
  <2>1. Into(f, DOMAIN f \cup DOMAIN savedump, {"outside1"}) BY <1>1, <1>2
  <2>2. "openSecond" \notin DOMAIN f BY <1>2
  <2>3. Graph(f @@ savedump, {"outside1"}) BY <2>1, <2>2, Changed, savedumpGraph
  <2>4. QED BY <1>2, <2>3
<1>3. QED BY <1>2, CallNode DEF misc_savedump, Into, Free, Ended

LEMMA remote_UDPdumpGraph == Graph(remote_UDPdump, {"outside1"})
BY UDPdumpGraph DEF remote_UDPdump

LEMMA misc_readfileGraph == Graph(misc_readfile, {"outside1"})
<1>1. {"open"} \subseteq DOMAIN readfile BY Joined DEF readfile
<1>2. ASSUME NEW f, misc_readfile = f @@ LoopThen("done") @@ readfile,
             DOMAIN f = {"start", "source"},
             \A D : {"source", "open"} \subseteq D => Into(f, D, {"outside1"})
      PROVE  Graph(misc_readfile, {"outside1"})
  <2> DEFINE g == f @@ LoopThen("done")
  <2>0. DOMAIN g = DOMAIN f \cup DOMAIN LoopThen("done") BY Joined
  <2>1. DOMAIN g = {"start", "source", "loop", "close"} BY <2>0, <1>2, LoopThenNodes
  <2>2. ASSUME NEW D, {"source", "open", "loop", "close"} \subseteq D
        PROVE  Into(g, D, {"outside1"})
    BY <1>2, <2>2, Joined, LoopThenNodes
  <2> HIDE DEF g
  <2>3. Into(g, DOMAIN g \cup DOMAIN readfile, {"outside1"}) BY <1>1, <2>1, <2>2
  <2>4. Graph(g @@ readfile, {"outside1"}) BY <2>1, <2>3, Changed, readfileGraph
  <2>5. QED BY <1>2, <2>4 DEF g
<1>3. QED BY <1>2, CallNode, GotoNode DEF misc_readfile, Into, Free, Ended

LEMMA misc_readfile_exGraph == Graph(misc_readfile_ex, {"outside1"})
<1>1. {"open"} \subseteq DOMAIN readfile_ex BY Joined DEF readfile_ex
<1>2. ASSUME NEW f, misc_readfile_ex = f @@ ReadAll("done") @@ readfile_ex,
             DOMAIN f = {"start", "source", "error"},
             \A D : {"source", "open"} \subseteq D => Into(f, D, {"outside1"})
      PROVE  Graph(misc_readfile_ex, {"outside1"})
  <2> DEFINE g == f @@ ReadAll("done")
  <2>0. DOMAIN g = DOMAIN f \cup DOMAIN ReadAll("done") BY Joined
  <2>1. DOMAIN g = {"start", "source", "loop", "error", "close"} BY <2>0, <1>2, ReadAllNodes
  <2>2. ASSUME NEW D, {"source", "open", "loop", "error", "close"} \subseteq D
        PROVE  Into(g, D, {"outside1"})
    BY <1>2, <2>2, Joined, ReadAllNodes
  <2> HIDE DEF g
  <2>3. Into(g, DOMAIN g \cup DOMAIN readfile_ex, {"outside1"}) BY <1>1, <2>1, <2>2
  <2>4. Graph(g @@ readfile_ex, {"outside1"}) BY <2>1, <2>3, Changed, readfile_exGraph
  <2>5. QED BY <1>2, <2>4 DEF g
<1>3. QED BY <1>2, CallNode, GotoNode DEF misc_readfile_ex, Into, Free, Ended

LEMMA remote_pktdump_exGraph == Graph(remote_pktdump_ex, {"outside1"})
BY ReadAllChanged, pktdump_exGraph DEF remote_pktdump_ex

LEMMA remote_pcap_filterGraph == Graph(remote_pcap_filter, {"outside1"})
<1>1. {"set", "output", "save", "loop"} \subseteq DOMAIN pcap_filter BY DEF pcap_filter
<1>2. ASSUME NEW f, remote_pcap_filter = f @@ pcap_filter,
             DOMAIN f = {"compile", "set", "create", "loop"},
             \A D : {"set", "output", "save", "loop"} \subseteq D => Into(f, D, {"outside1"})
      PROVE  Graph(remote_pcap_filter, {"outside1"})
  <2>1. {"set", "output", "save", "loop"} \subseteq DOMAIN f \cup DOMAIN pcap_filter BY <1>1
  <2>2. Into(f, DOMAIN f \cup DOMAIN pcap_filter, {"outside1"}) BY <2>1, <1>2
  <2>3. "openSecond" \notin DOMAIN f BY <1>2
  <2>4. Graph(f @@ pcap_filter, {"outside1"}) BY <2>2, <2>3, Changed, pcap_filterGraph
  <2>5. QED BY <1>2, <2>4
<1>3. QED BY <1>2, CallNode, TryNode DEF remote_pcap_filter, Into, Free, Ended

LEMMA remote_iflistGraph == Graph(remote_iflist, {"outside1"})
<1>1. {"ifprint"} \subseteq DOMAIN iflist /\ iflist["start"] = Try("devs", {}, "ifprint", "early")
  BY DEF iflist
<1>2. ASSUME NEW f, remote_iflist = f @@ iflist, DOMAIN f = {"start", "find"},
             \A D : {"find", "ifprint"} \subseteq D => Into(f, D, {"outside1"})
      PROVE  Graph(remote_iflist, {"outside1"})
  <2>1. Into(f, DOMAIN f \cup DOMAIN iflist, {"outside1"}) BY <1>1, <1>2
  <2>2. "openSecond" \notin DOMAIN f BY <1>2
  <2>3. Graph(f @@ iflist, {"outside1"}) BY <2>1, <2>2, Changed, iflistGraph
  <2>4. QED BY <1>2, <2>3
<1>3. QED BY <1>1, <1>2, TryNode, GotoNode DEF remote_iflist, Into, Free, Ended

-----------------------------------------------------------------------------
(* The bridge. *)

OpenLabels ==
  {"start", "ask", "first", "range", "second", "range2", "same", "openChosen", "netmask1",
   "openSecond", "netmask2", "compile1", "set1", "compile2", "set2"}

StartLabels ==
  {"freeList", "section", "startFirst", "startSecond", "terminate", "abandon", "closeOut",
   "signal", "bridging", "sleep"}

BridgeLabels == OpenLabels \cup StartLabels \cup {"find", "empty", "giveUp"}

LEMMA StartNode ==
  ASSUME NEW D, NEW C, NEW t \in Forwarder, NEW l \in Free(D), NEW m \in Free(D)
  PROVE  MainNode(Start(t, l, m), D, C) /\ MainNode(Terminate(t, l), D, C)
BY DEF MainNode, Start, Terminate, Node, Free

LEMMA OtherNode ==
  ASSUME NEW D, NEW C, NEW l \in Free(D)
  PROVE  /\ MainNode(Initialise(l), D, C)
         /\ MainNode(Signal(l), D, C)
         /\ MainNode(Sleep, D, C)
BY DEF MainNode, Initialise, Signal, Sleep, Node, Free

LEMMA StartForwardersNodes ==
  ASSUME NEW C
  PROVE  /\ DOMAIN StartForwarders = StartLabels
         /\ Into(StartForwarders, BridgeLabels, C)
<1>1. DOMAIN StartForwarders = StartLabels BY DEF StartForwarders, StartLabels
<1>2. StartLabels \cup {"giveUp"} \subseteq Free(BridgeLabels)
  BY DEF StartLabels, BridgeLabels, Free
<1>3. "first" \in Forwarder /\ "second" \in Forwarder BY DEF Forwarder
<1> DEFINE M(n) == MainNode(n, BridgeLabels, C)
<1>4. /\ M(Start("first", "startSecond", "abandon")) /\ M(Start("second", "signal", "terminate"))
      /\ M(Terminate("first", "abandon"))
  BY <1>2, <1>3, StartNode DEF StartLabels
<1>5. /\ M(Initialise("startFirst"))
      /\ M(Signal("bridging")) /\ M(Sleep)
  BY <1>2, OtherNode DEF StartLabels
<1>6. /\ M(Drop("devs", "section")) /\ M(Drop("in", "closeOut")) /\ M(Drop("out", "giveUp"))
      /\ M(Call({"devs"}, <<"sleep">>))
  BY <1>2, DropNode, CallNode DEF StartLabels
<1> HIDE DEF M
<1>7. \A x \in DOMAIN StartForwarders : M(StartForwarders[x])
  BY <1>4, <1>5, <1>6 DEF StartForwarders
<1>8. QED BY <1>1, <1>7 DEF M, Into

LEMMA OpenAdaptersNodes ==
  /\ DOMAIN OpenAdapters = OpenLabels \cup {"find", "empty", "giveUp"}
  /\ Into(OpenAdapters, BridgeLabels, {"outside1", "same"})
<1> DEFINE C == {"outside1", "same"}
<1>1. DOMAIN Choose = {"find", "empty", "ask", "range", "giveUp"} /\ Into(Choose, BridgeLabels, C)
  BY ChooseNodes DEF BridgeLabels, OpenLabels
<1>2. ASSUME NEW f, OpenAdapters = f @@ Choose, Into(f, BridgeLabels, C),
             DOMAIN f = OpenLabels
      PROVE  /\ DOMAIN OpenAdapters = OpenLabels \cup {"find", "empty", "giveUp"}
             /\ Into(OpenAdapters, BridgeLabels, C)
  <2>1. DOMAIN OpenAdapters = DOMAIN f \cup DOMAIN Choose BY <1>2, Joined
  <2>2. DOMAIN OpenAdapters = OpenLabels \cup {"find", "empty", "giveUp"}
    BY <2>1, <1>1, <1>2 DEF OpenLabels
  <2>3. QED BY <2>2, <1>1, <1>2, Joined
<1>3. /\ OpenLabels \ {"openChosen"} \subseteq Free(BridgeLabels)
      /\ {"find", "giveUp", "abandon", "freeList"} \subseteq Free(BridgeLabels)
      /\ "openChosen" \in BridgeLabels
  BY DEF OpenLabels, StartLabels, BridgeLabels, Free
<1> DEFINE M(n) == MainNode(n, BridgeLabels, C)
<1>4. /\ M(Goto("find")) /\ M(Call({}, <<"first">>)) /\ M(Ask(1, "range")) /\ M(Ask(2, "range2"))
  BY <1>3, GotoNode, CallNode, AskNode DEF OpenLabels
<1>5. /\ M(Test("outside1", "giveUp", "second")) /\ M(Test("outside2", "giveUp", "same"))
      /\ M(Test("same", "giveUp", "openChosen"))
  <2>1. "giveUp" \in Free(BridgeLabels) /\ "openChosen" \in BridgeLabels BY <1>3
  <2>2. M(Test("same", "giveUp", "openChosen")) BY <2>1, TestNode
  <2>3. \A l \in {"second", "same"} : l \in BridgeLabels /\ l # "openChosen"
    BY DEF BridgeLabels, OpenLabels
  <2>4. M(Test("outside1", "giveUp", "second")) BY <2>1, <2>3, TestNode
  <2>5. M(Test("outside2", "giveUp", "same")) BY <2>1, <2>3, TestNode
  <2>6. QED BY <2>2, <2>4, <2>5
<1>6. /\ M(Try("in", {"devs"}, "netmask1", "giveUp")) /\ M(Call({"devs"}, <<"openSecond">>))
      /\ M(Try("out", {"devs"}, "netmask2", "giveUp")) /\ M(Call({"devs"}, <<"compile1">>))
  BY <1>3, TryNode, CallNode DEF OpenLabels
<1>7. /\ M(Call({"in"}, <<"set1", "abandon">>)) /\ M(Call({"in"}, <<"compile2", "abandon">>))
      /\ M(Call({"out"}, <<"set2", "abandon">>)) /\ M(Call({"out"}, <<"freeList", "abandon">>))
  BY <1>3, CallNode DEF OpenLabels
<1> HIDE DEF M
<1>8. QED
  <2>1. ASSUME NEW f, OpenAdapters = f @@ Choose, DOMAIN f = OpenLabels,
               \A x \in DOMAIN f : M(f[x])
        PROVE  /\ DOMAIN OpenAdapters = OpenLabels \cup {"find", "empty", "giveUp"}
               /\ Into(OpenAdapters, BridgeLabels, C)
    BY <2>1, <1>2 DEF M, Into
  <2>2. QED BY <2>1, <1>4, <1>5, <1>6, <1>7 DEF OpenAdapters, OpenLabels

LEMMA UserBridgeGraph == Graph(UserBridge, {"outside1", "same"})
<1>1. DOMAIN UserBridge = DOMAIN StartForwarders \cup DOMAIN OpenAdapters
  BY Joined DEF UserBridge
<1>2. DOMAIN UserBridge = BridgeLabels
  BY <1>1, StartForwardersNodes, OpenAdaptersNodes DEF BridgeLabels
<1>3. Into(UserBridge, BridgeLabels, {"outside1", "same"})
  BY StartForwardersNodes, OpenAdaptersNodes, Joined DEF UserBridge
<1>4. "start" \in BridgeLabels BY DEF BridgeLabels, OpenLabels
<1>5. QED BY <1>2, <1>3, <1>4 DEF Graph

\* From the moment the first number is in range until both adapters are open.
Chain == {"second", "range2", "same", "openChosen", "netmask1", "openSecond"}

Away(n) == \A i \in DOMAIN n.to : n.to[i] \notin Chain

LEMMA AwayCall ==
  ASSUME NEW needs, NEW to, \A i \in DOMAIN to : to[i] \notin Chain
  PROVE  Away(Call(needs, to))
BY DEF Away, Call, Node

LEMMA AwayNext ==
  ASSUME NEW o, NEW l, l \notin Chain
  PROVE  /\ Away(Drop(o, l)) /\ Away(Ask(o, l)) /\ Away(Terminate(o, l))
         /\ Away(Goto(l)) /\ Away(Initialise(l)) /\ Away(Signal(l)) /\ Away(Sleep)
BY DEF Away, Drop, Ask, Goto, Call, Terminate, Initialise, Signal, Sleep, Node

LEMMA AwayBranch ==
  ASSUME NEW o, NEW needs, NEW l, NEW m, l \notin Chain, m \notin Chain
  PROVE  Away(Try(o, needs, l, m)) /\ Away(Test(o, l, m)) /\ Away(Start(o, l, m))
BY DEF Away, Try, Test, Start, Node

\* How the bridge comes to have both adapters open: the labels of Chain follow
\* each other, and no other node leads into them.
LEMMA BridgeChain ==
  /\ UserBridge["range"] = Test("outside1", "giveUp", "second")
  /\ UserBridge["second"] = Ask(2, "range2")
  /\ UserBridge["range2"] = Test("outside2", "giveUp", "same")
  /\ UserBridge["same"] = Test("same", "giveUp", "openChosen")
  /\ UserBridge["openChosen"] = Try("in", {"devs"}, "netmask1", "giveUp")
  /\ UserBridge["netmask1"] = Call({"devs"}, <<"openSecond">>)
  /\ \A x \in DOMAIN UserBridge \ {"range", "second", "range2", "same", "openChosen", "netmask1"} :
       Away(UserBridge[x])
<1> DEFINE Links == {"range", "second", "range2", "same", "openChosen", "netmask1"}
<1>1. \A x \in DOMAIN Choose \ {"ask", "range"} : Away(Choose[x])
  <2>1. "early" \notin Chain /\ "empty" \notin Chain /\ "ask" \notin Chain BY DEF Chain
  <2>2. Away(Try("devs", {}, "empty", "early")) BY <2>1, AwayBranch
  <2>3. Away(Test("empty", "early", "ask")) BY <2>1, AwayBranch
  <2>4. Away(Drop("devs", "early")) BY <2>1, AwayNext
  <2>5. QED BY <2>2, <2>3, <2>4 DEF Choose
<1>2. \A x \in DOMAIN StartForwarders : Away(StartForwarders[x])
  <2>1. \A l \in StartLabels \cup {"giveUp"} : l \notin Chain BY DEF StartLabels, Chain
  <2>2. /\ Away(Start("first", "startSecond", "abandon"))
        /\ Away(Start("second", "signal", "terminate"))
    BY <2>1, AwayBranch DEF StartLabels
  <2>3. /\ Away(Drop("devs", "section")) /\ Away(Drop("in", "closeOut"))
        /\ Away(Drop("out", "giveUp")) /\ Away(Terminate("first", "abandon"))
        /\ Away(Initialise("startFirst")) /\ Away(Signal("bridging")) /\ Away(Sleep)
    BY <2>1, AwayNext DEF StartLabels
  <2>4. Away(Call({"devs"}, <<"sleep">>)) BY <2>1, AwayCall DEF StartLabels
  <2>5. QED BY <2>2, <2>3, <2>4 DEF StartForwarders
<1>3. /\ OpenAdapters["range"] = Test("outside1", "giveUp", "second")
      /\ OpenAdapters["second"] = Ask(2, "range2")
      /\ OpenAdapters["range2"] = Test("outside2", "giveUp", "same")
      /\ OpenAdapters["same"] = Test("same", "giveUp", "openChosen")
      /\ OpenAdapters["openChosen"] = Try("in", {"devs"}, "netmask1", "giveUp")
      /\ OpenAdapters["netmask1"] = Call({"devs"}, <<"openSecond">>)
  BY DEF OpenAdapters, @@
<1>4. ASSUME NEW x \in DOMAIN OpenAdapters \ Links PROVE Away(OpenAdapters[x])
  <2>1. ASSUME NEW f, OpenAdapters = f @@ Choose, "ask" \in DOMAIN f, "range" \in DOMAIN f,
               \A y \in DOMAIN f : y \in Links \/ Away(f[y])
        PROVE  Away(OpenAdapters[x])
    <3>1. /\ DOMAIN OpenAdapters = DOMAIN f \cup DOMAIN Choose
          /\ OpenAdapters[x] = IF x \in DOMAIN f THEN f[x] ELSE Choose[x]
      BY <2>1 DEF @@
    <3>2. CASE x \in DOMAIN f BY <3>1, <3>2, <2>1
    <3>3. CASE x \notin DOMAIN f
      <4>1. x \in DOMAIN Choose \ {"ask", "range"} BY <3>1, <3>3, <2>1
      <4>2. QED BY <4>1, <3>1, <3>3, <1>1
    <3>4. QED BY <3>2, <3>3
  <2>2. \A l \in {"find", "first", "range", "giveUp", "netmask2", "compile1", "set1", "abandon",
                  "compile2", "set2", "freeList"} : l \notin Chain
    BY DEF Chain
  <2>3. Away(Goto("find")) /\ Away(Ask(1, "range")) BY <2>2, AwayNext
  <2>4. Away(Try("out", {"devs"}, "netmask2", "giveUp")) BY <2>2, AwayBranch
  <2>5. /\ Away(Call({}, <<"first">>)) /\ Away(Call({"devs"}, <<"compile1">>))
        /\ Away(Call({"in"}, <<"set1", "abandon">>))
        /\ Away(Call({"in"}, <<"compile2", "abandon">>))
        /\ Away(Call({"out"}, <<"set2", "abandon">>))
        /\ Away(Call({"out"}, <<"freeList", "abandon">>))
    BY <2>2, AwayCall
  <2>6. QED BY <2>1, <2>3, <2>4, <2>5 DEF OpenAdapters
<1>5. /\ \A x \in DOMAIN StartForwarders : UserBridge[x] = StartForwarders[x]
      /\ \A x \in DOMAIN OpenAdapters : x \notin DOMAIN StartForwarders =>
           UserBridge[x] = OpenAdapters[x]
      /\ DOMAIN UserBridge = DOMAIN StartForwarders \cup DOMAIN OpenAdapters
  BY Joined DEF UserBridge
<1>6. \A x \in Links : x \notin DOMAIN StartForwarders /\ x \in DOMAIN OpenAdapters
  BY StartForwardersNodes, OpenAdaptersNodes DEF StartLabels, OpenLabels
<1>7. \A x \in Links : UserBridge[x] = OpenAdapters[x] BY <1>5, <1>6
<1>8. \A x \in DOMAIN UserBridge \ Links : Away(UserBridge[x]) BY <1>2, <1>4, <1>5
<1>9. QED BY <1>3, <1>7, <1>8

-----------------------------------------------------------------------------
(* The forwarders. *)

\* The labels of the code between Enter and Leave.
Locked == {"print", "leave", "printBad", "leaveBad", "printErr", "printEnd", "leaveEnd"}

\* A node at the label x of a forwarder, whose labels are D.
ForwarderNode(n, x, D) ==
  /\ n.do \in {"test", "call", "enter", "print", "leave"}
  /\ n.do = "test" => DOMAIN n.to = {1, 2}
  /\ n.do \in {"enter", "leave", "print"} => DOMAIN n.to = {1}
  /\ n.do = "print" => x \in Locked
  /\ n.do = "leave" => x \in Locked
  /\ n.do \in {"test", "call", "enter"} => x \notin Locked
  /\ \A i \in DOMAIN n.to :
       /\ n.to[i] \in D \cup {"returned"}
       /\ n.to[i] \in Locked <=> n.do \in {"enter", "print"}

ForwarderLabels == Locked \cup {"start", "capture", "enter", "send", "enterBad", "enterErr", "enterEnd"}

LEMMA ForwarderGraph ==
  ASSUME NEW a, NEW b, NEW x \in DOMAIN CaptureAndForwardThread(a, b)
  PROVE  /\ DOMAIN CaptureAndForwardThread(a, b) = ForwarderLabels
         /\ ForwarderNode(CaptureAndForwardThread(a, b)[x], x, ForwarderLabels)
<1> DEFINE N(n, y) == ForwarderNode(n, y, ForwarderLabels)
<1>1. ASSUME NEW y, NEW l, l \in Locked, y \notin Locked, l \in ForwarderLabels
      PROVE  N(Enter(l), y)
  BY <1>1 DEF ForwarderNode, Enter, Node
<1>2. ASSUME NEW y, NEW l, NEW needs, l \in Locked, y \in Locked, l \in ForwarderLabels
      PROVE  N(Report(needs, l), y)
  BY <1>2 DEF ForwarderNode, Report, Node
<1>3. ASSUME NEW y, NEW l, l \notin Locked, y \in Locked, l \in ForwarderLabels \cup {"returned"}
      PROVE  N(Leave(l), y)
  BY <1>3 DEF ForwarderNode, Leave, Node
<1>4. ASSUME NEW y, NEW needs, NEW to, y \notin Locked,
             \A i \in DOMAIN to : to[i] \in ForwarderLabels \ Locked
      PROVE  N(Call(needs, to), y)
  BY <1>4 DEF ForwarderNode, Call, Node
<1>5. ASSUME NEW y, NEW c, NEW l, NEW m, y \notin Locked,
             l \in ForwarderLabels \ Locked, m \in ForwarderLabels \ Locked
      PROVE  N(Test(c, l, m), y)
  BY <1>5 DEF ForwarderNode, Test, Node
<1> HIDE DEF N
<1>6. DOMAIN CaptureAndForwardThread(a, b) = ForwarderLabels
  BY DEF CaptureAndForwardThread, ForwarderLabels, Locked
<1>7. N(CaptureAndForwardThread(a, b)[x], x)
  BY <1>1, <1>2, <1>3, <1>4, <1>5 DEF CaptureAndForwardThread, ForwarderLabels, Locked
<1>8. QED BY <1>6, <1>7 DEF N

-----------------------------------------------------------------------------
(* All programs. *)

\* The checks in front of openChosen.
Checks(p) ==
  IF p = "UserBridge" THEN {"outside1", "same"}
  ELSE IF p \in PacketDll THEN {"above1"} ELSE {"outside1"}

LEMMA ProgramGraph ==
  ASSUME NEW p \in DOMAIN Program
  PROVE  Graph(Program[p], Checks(p))
BY readfileGraph, readfile_exGraph, sendpackGraph, basic_dumpGraph, basic_dump_exGraph,
   savedumpGraph, pktdump_exGraph, pcap_filterGraph, iflistGraph, UDPdumpGraph,
   misc_readfileGraph, misc_readfile_exGraph, misc_sendpackGraph, misc_basic_dumpGraph,
   misc_basic_dump_exGraph, misc_savedumpGraph, remote_UDPdumpGraph, remote_pktdump_exGraph,
   remote_pcap_filterGraph, remote_iflistGraph, pcap_fopenGraph, smp_1Graph, sendcapGraph,
   tcptopGraph, GetMacAddressGraph, TestPacketSendGraph, TestPacketCaptureGraph,
   UserBridgeGraph
DEF Program, Checks, PacketDll

LEMMA TheBridge == Program["UserBridge"] = UserBridge /\ "UserBridge" \notin PacketDll
BY DEF Program, PacketDll

\* The labels a thread may be at.
Labels(p, t) ==
  Ended \cup
    (IF t = "main" THEN DOMAIN Program[p]
     ELSE IF t = "ctrlc" THEN {"off", "start", "wait"}
     ELSE {"off", "returned"} \cup ForwarderLabels)

-----------------------------------------------------------------------------
(* The inductive invariant. *)

Typed ==
  /\ prog \in DOMAIN Program
  /\ count \in 0 .. MaxDevices
  /\ inum \in [1 .. 2 -> -1 .. MaxDevices + 1]
  /\ object \in [Object -> {"none", "held", "gone"}]
  /\ owner \in Forwarder \cup {"nobody"}
  /\ killed \in BOOLEAN /\ catches \in BOOLEAN

Placed == DOMAIN pc = Thread /\ \A t \in Thread : pc[t] \in Labels(prog, t)

\* Who is between Enter and Leave owns the section.
LockHeld == \A f \in Forwarder : pc[f] \in Locked => owner = f

\* What the checks have shown of the numbers.
Chosen ==
  /\ pc["main"] = "openChosen" => inum[1] <= count /\ (inum[1] >= 1 \/ prog \in PacketDll)
  /\ prog = "UserBridge" =>
       /\ pc["main"] \in Chain => inum[1] \in 1 .. count
       /\ pc["main"] \in Chain \ {"second", "range2"} => inum[2] \in 1 .. count
       /\ pc["main"] \in Chain \ {"second", "range2", "same"} => inum[1] # inum[2]

IInv == Typed /\ Placed /\ LockHeld /\ Chosen

-----------------------------------------------------------------------------
(* Nodes of threads. *)

LEMMA CodeIs ==
  /\ Code("main") = Program[prog]
  /\ Code("first") = CaptureAndForwardThread("in", "out")
  /\ Code("second") = CaptureAndForwardThread("out", "in")
  /\ Code("ctrlc") = ctrlc_handler
BY DEF Code

LEMMA MainAt ==
  ASSUME Typed, Running("main")
  PROVE  MainNode(At("main"), DOMAIN Program[prog], Checks(prog))
BY ProgramGraph, CodeIs DEF Typed, Running, At, Graph, Into

LEMMA ForwarderAt ==
  ASSUME NEW f \in Forwarder, Running(f)
  PROVE  ForwarderNode(At(f), pc[f], ForwarderLabels)
BY ForwarderGraph, CodeIs DEF Forwarder, Running, At

LEMMA CtrlcAt ==
  ASSUME Running("ctrlc")
  PROVE  /\ At("ctrlc").do \in {"kill", "call"}
         /\ DOMAIN At("ctrlc").to = {1}
         /\ At("ctrlc").to[1] \in {"wait", "done"}
<1>1. /\ StopForwarders("wait").do = "kill" /\ StopForwarders("wait").to = <<"wait">>
      /\ Goto("done").do = "call" /\ Goto("done").to = <<"done">>
  BY DEF StopForwarders, Goto, Call, Node
<1>2. QED BY <1>1, CodeIs DEF Running, At, ctrlc_handler

-----------------------------------------------------------------------------
(* Steps. *)

\* A thread goes on to a label of its node.
LEMMA Goes ==
  ASSUME IInv, NEW t \in Thread, Running(t), NEW i \in DOMAIN At(t).to,
         To(t, At(t).to[i]), prog' = prog
  PROVE  /\ Placed'
         /\ pc'[t] = At(t).to[i]
         /\ \A u \in Thread : u # t => pc'[u] = pc[u] \/ pc'[u] \in Ended
<1>1. At(t).to[i] \in Labels(prog, t)
  <2>1. CASE t = "main" BY <2>1, MainAt DEF IInv, MainNode, Labels
  <2>2. CASE t \in Forwarder
    BY <2>2, ForwarderAt DEF ForwarderNode, Labels, Forwarder
  <2>3. CASE t = "ctrlc" BY <2>3, CtrlcAt DEF Labels, Ended
  <2>4. QED BY <2>1, <2>2, <2>3 DEF Thread, Forwarder
<1>2. \A u \in Thread : Ended \subseteq Labels(prog, u) BY DEF Labels
<1>3. DOMAIN pc = Thread /\ \A u \in Thread : pc[u] \in Labels(prog, u) BY DEF IInv, Placed
<1>4. CASE At(t).to[i] \in Ended
  <2>1. pc' = [u \in Thread |-> At(t).to[i]] BY <1>4 DEF To
  <2>2. QED BY <2>1, <1>2, <1>4 DEF Placed
<1>5. CASE At(t).to[i] \notin Ended
  <2>1. pc' = [pc EXCEPT ![t] = At(t).to[i]] BY <1>5 DEF To
  <2>2. QED BY <2>1, <1>1, <1>3 DEF Placed
<1>6. QED BY <1>4, <1>5

LEMMA LockKept ==
  ASSUME IInv, NEW t \in Thread, Running(t), NEW i \in DOMAIN At(t).to,
         To(t, At(t).to[i]), prog' = prog, owner' = owner,
         At(t).do \notin {"enter", "leave"}
  PROVE  LockHeld'
<1>1. \A l \in Ended : l \notin Locked BY DEF Ended, Locked
<1>2. SUFFICES ASSUME NEW f \in Forwarder, pc'[f] \in Locked PROVE pc[f] \in Locked
  BY DEF LockHeld, IInv
<1>3. f \in Thread BY DEF Forwarder, Thread
<1>4. CASE f # t BY <1>1, <1>2, <1>3, <1>4, Goes
<1>5. CASE f = t
  <2>1. At(t).to[i] \in Locked BY <1>2, <1>5, Goes
  <2>2. ForwarderNode(At(t), pc[t], ForwarderLabels) BY <1>5, ForwarderAt
  <2>3. QED BY <2>1, <2>2, <1>5 DEF ForwarderNode
<1>6. QED BY <1>4, <1>5

LEMMA OthersChosen ==
  ASSUME Chosen, UNCHANGED <<prog, count, inum>>,
         pc'["main"] = pc["main"] \/ pc'["main"] \in Ended
  PROVE  Chosen'
<1>1. \A l \in Ended : l # "openChosen" /\ l \notin Chain BY DEF Ended, Chain
<1>2. QED BY <1>1 DEF Chosen

\* The numbers stay as chosen when main neither tests nor asks.
LEMMA ChosenKept ==
  ASSUME IInv, NEW t \in Thread, Running(t), NEW i \in DOMAIN At(t).to,
         To(t, At(t).to[i]), UNCHANGED <<prog, count, inum>>,
         At(t).do \notin {"test", "ask"}
  PROVE  Chosen'
<1>1. CASE t # "main"
  <2>1. "main" \in Thread BY DEF Thread
  <2>2. QED BY <1>1, <2>1, Goes, OthersChosen DEF IInv
<1>2. CASE t = "main"
  <2>1. pc'["main"] = At(t).to[i] BY <1>2, Goes
  <2>2. At(t).to[i] # "openChosen" BY <1>2, MainAt DEF IInv, MainNode
  <2>3. ASSUME prog = "UserBridge", At(t).to[i] \in Chain
        PROVE  /\ inum[1] \in 1 .. count /\ inum[2] \in 1 .. count
               /\ inum[1] # inum[2]
    <3>1. Code("main") = UserBridge /\ pc["main"] \in DOMAIN UserBridge
          /\ At(t) = UserBridge[pc["main"]]
      BY <1>2, <2>3, CodeIs, TheBridge DEF Running, At
    <3>2. pc["main"] \in {"range", "second", "range2", "same", "openChosen", "netmask1"}
      BY <2>3, <3>1, BridgeChain DEF Away
    <3>3. \A c, l, m : Test(c, l, m).do = "test" /\ Ask(c, l).do = "ask" BY DEF Test, Ask, Node
    <3>4. pc["main"] \in {"openChosen", "netmask1"} BY <3>1, <3>2, <3>3, BridgeChain
    <3>5. pc["main"] \in Chain \ {"second", "range2", "same"} BY <3>4 DEF Chain
    <3>6. QED BY <2>3, <3>5 DEF IInv, Chosen
  <2>4. QED BY <2>1, <2>2, <2>3 DEF Chosen
<1>3. QED BY <1>1, <1>2

LEMMA OnlyMain ==
  ASSUME NEW t \in Thread, Running(t),
         At(t).do \in {"try", "drop", "ask", "start", "terminate", "init", "signal"}
  PROVE  t = "main"
<1>1. CASE t \in Forwarder BY <1>1, ForwarderAt DEF ForwarderNode
<1>2. CASE t = "ctrlc" BY <1>2, CtrlcAt
<1>3. QED BY <1>1, <1>2 DEF Thread, Forwarder

LEMMA Numbers ==
  ASSUME Typed
  PROVE  /\ count \in Int /\ inum[1] \in Int /\ inum[2] \in Int
         /\ ~Outside(inum[1]) => inum[1] \in 1 .. count
         /\ ~Outside(inum[2]) => inum[2] \in 1 .. count
<1>1. count \in Int /\ inum[1] \in Int /\ inum[2] \in Int BY DevicesAssumption DEF Typed
<1>2. QED BY <1>1 DEF Outside

LEMMA Branch ==
  ASSUME NEW c, NEW l, NEW m
  PROVE  /\ Test(c, l, m).do = "test" /\ Test(c, l, m).arg = c
         /\ Test(c, l, m).to[1] = l /\ Test(c, l, m).to[2] = m
BY DEF Test, Node

\* A test that leads to openChosen or along Chain has shown what Chosen says.
LEMMA DecideChosen ==
  ASSUME IInv, NEW t \in Thread, Decide(t)
  PROVE  Placed' /\ LockHeld' /\ Chosen'
<1>1. /\ Running(t) /\ At(t).do = "test"
      /\ prog' = prog /\ count' = count /\ inum' = inum /\ owner' = owner
  BY DEF Decide, Does
<1>2. PICK i : i = IF Holds(At(t).arg) THEN 1 ELSE 2 OBVIOUS
<1>3. To(t, At(t).to[i]) BY <1>2 DEF Decide
<1>4. i \in DOMAIN At(t).to
  <2>1. CASE t = "main" BY <1>1, <1>2, <2>1, MainAt DEF IInv, MainNode
  <2>2. CASE t \in Forwarder BY <1>1, <1>2, <2>2, ForwarderAt DEF ForwarderNode
  <2>3. CASE t = "ctrlc" BY <1>1, <2>3, CtrlcAt
  <2>4. QED BY <2>1, <2>2, <2>3 DEF Thread, Forwarder
<1>5. Placed' /\ LockHeld' BY <1>1, <1>3, <1>4, Goes, LockKept
<1>6. CASE t # "main"
  <2>1. "main" \in Thread BY DEF Thread
  <2>2. pc'["main"] = pc["main"] \/ pc'["main"] \in Ended BY <1>1, <1>3, <1>4, <1>6, <2>1, Goes
  <2>3. QED BY <1>1, <1>5, <2>2, OthersChosen DEF IInv
<1>7. CASE t = "main"
  <2>1. pc'["main"] = At(t).to[i] BY <1>1, <1>3, <1>4, <1>7, Goes
  <2>2. Typed /\ Chosen BY DEF IInv
  <2>3. ASSUME prog # "UserBridge", At(t).to[i] = "openChosen"
        PROVE  inum[1] <= count /\ (inum[1] >= 1 \/ prog \in PacketDll)
    <3>1. i = 2 /\ At(t).arg \in Checks(prog)
      <4>1. MainNode(At(t), DOMAIN Program[prog], Checks(prog)) BY <1>1, <1>7, <2>2, MainAt
      <4>2. QED BY <4>1, <1>4, <2>3 DEF MainNode
    <3>2. ~Holds(At(t).arg) BY <1>2, <3>1
    <3>3. CASE At(t).arg = "above1"
      <4>1. prog \in PacketDll BY <2>3, <3>1, <3>3 DEF Checks
      <4>2. ~(inum[1] > count) BY <3>2, <3>3 DEF Holds
      <4>3. QED BY <4>1, <4>2, <2>2, Numbers
    <3>4. CASE At(t).arg = "outside1"
      <4>1. ~Outside(inum[1]) BY <3>2, <3>4 DEF Holds
      <4>2. QED BY <4>1, <2>2, Numbers
    <3>5. QED BY <2>3, <3>1, <3>3, <3>4 DEF Checks
  <2>4. CASE prog # "UserBridge" BY <1>1, <2>1, <2>3, <2>4, <1>5 DEF Chosen
  <2>5. CASE prog = "UserBridge"
    <3>1. pc["main"] \in DOMAIN UserBridge /\ At(t) = UserBridge[pc["main"]]
      BY <1>1, <1>7, <2>5, CodeIs, TheBridge DEF Running, At
    <3>2. CASE At(t).to[i] \notin Chain
      <4>1. "openChosen" \in Chain BY DEF Chain
      <4>2. QED BY <4>1, <3>2, <1>1, <2>1, <2>5, <1>5 DEF Chosen
    <3>3. CASE At(t).to[i] \in Chain
      <4>1. pc["main"] \in {"range", "second", "range2", "same", "openChosen", "netmask1"}
        BY <1>4, <3>1, <3>3, BridgeChain DEF Away
      <4>2. \A j, l, m, o, s : Ask(j, l).do = "ask" /\ Try(o, s, l, m).do = "try" /\ Call(o, l).do = "call"
        BY DEF Ask, Try, Call, Node
      <4>3. pc["main"] \in {"range", "range2", "same"} BY <1>1, <3>1, <4>1, <4>2, BridgeChain
      <4>4. "giveUp" \notin Chain BY DEF Chain
      <4>5. i = 2 /\ ~Holds(At(t).arg)
        BY <1>2, <3>1, <3>3, <4>3, <4>4, Branch, BridgeChain
      <4>6. CASE pc["main"] = "range"
        <5>1. At(t).arg = "outside1" /\ At(t).to[i] = "second"
          BY <3>1, <4>5, <4>6, Branch, BridgeChain
        <5>2. ~Outside(inum[1]) BY <4>5, <5>1 DEF Holds
        <5>3. inum[1] \in 1 .. count BY <5>2, <2>2, Numbers
        <5>4. pc'["main"] = "second" BY <5>1, <2>1
        <5>5. QED BY <1>1, <1>5, <2>5, <5>3, <5>4 DEF Chosen
      <4>7. CASE pc["main"] = "range2"
        <5>1. At(t).arg = "outside2" /\ At(t).to[i] = "same"
          BY <3>1, <4>5, <4>7, Branch, BridgeChain
        <5>2. ~Outside(inum[2]) BY <4>5, <5>1 DEF Holds
        <5>3. inum[2] \in 1 .. count BY <5>2, <2>2, Numbers
        <5>4. inum[1] \in 1 .. count BY <2>2, <2>5, <4>7 DEF Chosen, Chain
        <5>5. pc'["main"] = "same" BY <5>1, <2>1
        <5>6. QED BY <5>3, <5>4, <5>5, <1>1, <2>5, <1>5 DEF Chosen
      <4>8. CASE pc["main"] = "same"
        <5>1. At(t).arg = "same" /\ At(t).to[i] = "openChosen"
          BY <3>1, <4>5, <4>8, Branch, BridgeChain
        <5>2. inum[1] # inum[2] BY <4>5, <5>1 DEF Holds
        <5>3. inum[1] \in 1 .. count /\ inum[2] \in 1 .. count BY <2>2, <2>5, <4>8 DEF Chosen, Chain
        <5>4. inum[1] <= count /\ inum[1] >= 1 BY <5>3, <2>2, Numbers
        <5>5. QED BY <5>1, <5>2, <5>3, <5>4, <1>1, <2>1, <2>5, <1>5 DEF Chosen
      <4>9. QED BY <4>3, <4>6, <4>7, <4>8
    <3>4. QED BY <3>2, <3>3
  <2>6. QED BY <2>4, <2>5
<1>8. QED BY <1>5, <1>6, <1>7

\* What the other steps of a thread keep when they go on to a label of its node.
LEMMA Moves ==
  ASSUME IInv, NEW t \in Thread, Running(t), NEW i \in DOMAIN At(t).to,
         To(t, At(t).to[i]), prog' = prog, count' = count, inum' = inum, owner' = owner,
         At(t).do \notin {"test", "ask", "enter", "leave"}
  PROVE  Placed' /\ LockHeld' /\ Chosen'
BY Goes, LockKept, ChosenKept

\* A node that only leads on to one label, or to one of two.
LEMMA MainNext ==
  ASSUME IInv, Running("main")
  PROVE  /\ At("main").do \in {"try", "start"} => 1 \in DOMAIN At("main").to /\ 2 \in DOMAIN At("main").to
         /\ At("main").do \in {"drop", "ask", "terminate", "init", "signal"} =>
              1 \in DOMAIN At("main").to
         /\ At("main").do \in {"start", "terminate"} => At("main").arg \in Forwarder
<1>1. MainNode(At("main"), DOMAIN Program[prog], Checks(prog)) BY MainAt DEF IInv
<1>2. QED BY <1>1 DEF MainNode

LEMMA AcquireInv == ASSUME IInv, NEW t \in Thread, Acquire(t) PROVE IInv'
<1>1. /\ Running(t) /\ At(t).do = "try" /\ prog' = prog /\ count' = count /\ inum' = inum
      /\ owner' = owner /\ killed' = killed /\ catches' = catches
  BY DEF Acquire, Does
<1>2. t = "main" BY <1>1, OnlyMain
<1>3. PICK i \in {1, 2} : To(t, At(t).to[i]) BY DEF Acquire
<1>4. Placed' /\ LockHeld' /\ Chosen' BY <1>1, <1>2, <1>3, MainNext, Moves
<1>5. object' \in [Object -> {"none", "held", "gone"}] BY DEF Acquire, IInv, Typed
<1>6. QED BY <1>1, <1>4, <1>5 DEF IInv, Typed

LEMMA InitializeInv ==
  ASSUME IInv, NEW t \in Thread, InitializeCriticalSection(t) PROVE IInv'
<1>1. /\ Running(t) /\ At(t).do = "init" /\ prog' = prog /\ count' = count /\ inum' = inum
      /\ owner' = owner /\ killed' = killed /\ catches' = catches /\ To(t, At(t).to[1])
  BY DEF InitializeCriticalSection, Does
<1>2. t = "main" BY <1>1, OnlyMain
<1>3. Placed' /\ LockHeld' /\ Chosen' BY <1>1, <1>2, MainNext, Moves
<1>4. object' \in [Object -> {"none", "held", "gone"}]
  BY DEF InitializeCriticalSection, IInv, Typed
<1>5. QED BY <1>1, <1>3, <1>4 DEF IInv, Typed

LEMMA ReleaseInv == ASSUME IInv, NEW t \in Thread, Release(t) PROVE IInv'
<1>1. /\ Running(t) /\ At(t).do = "drop" /\ prog' = prog /\ count' = count /\ inum' = inum
      /\ owner' = owner /\ killed' = killed /\ catches' = catches /\ To(t, At(t).to[1])
  BY DEF Release, Does
<1>2. t = "main" BY <1>1, OnlyMain
<1>3. Placed' /\ LockHeld' /\ Chosen' BY <1>1, <1>2, MainNext, Moves
<1>4. object' \in [Object -> {"none", "held", "gone"}] BY DEF Release, IInv, Typed
<1>5. QED BY <1>1, <1>3, <1>4 DEF IInv, Typed

LEMMA UseInv == ASSUME IInv, NEW t \in Thread, Use(t) PROVE IInv'
<1>1. /\ Running(t) /\ At(t).do \in {"call", "print"} /\ prog' = prog /\ count' = count
      /\ inum' = inum /\ owner' = owner /\ killed' = killed /\ catches' = catches
      /\ object' = object
  BY DEF Use, Does
<1>2. PICK i \in DOMAIN At(t).to : To(t, At(t).to[i]) BY DEF Use
<1>3. Placed' /\ LockHeld' /\ Chosen' BY <1>1, <1>2, Moves
<1>4. QED BY <1>1, <1>3 DEF IInv, Typed

LEMMA DecideInv == ASSUME IInv, NEW t \in Thread, Decide(t) PROVE IInv'
<1>1. /\ prog' = prog /\ count' = count /\ inum' = inum /\ owner' = owner
      /\ killed' = killed /\ catches' = catches /\ object' = object
  BY DEF Decide
<1>2. Placed' /\ LockHeld' /\ Chosen' BY DecideChosen
<1>3. QED BY <1>1, <1>2 DEF IInv, Typed

\* The second number is asked for when the first one is in range.
LEMMA ChoiceInv == ASSUME IInv, NEW t \in Thread, Choice(t) PROVE IInv'
<1>1. /\ Running(t) /\ At(t).do = "ask" /\ prog' = prog /\ count' = count
      /\ owner' = owner /\ killed' = killed /\ catches' = catches /\ object' = object
      /\ To(t, At(t).to[1])
  BY DEF Choice, Does
<1>2. t = "main" BY <1>1, OnlyMain
<1>3. 1 \in DOMAIN At(t).to BY <1>1, <1>2, MainNext
<1>4. Placed' /\ pc'["main"] = At(t).to[1] BY <1>1, <1>2, <1>3, Goes
<1>5. LockHeld' BY <1>1, <1>3, LockKept
<1>6. PICK n \in -1 .. MaxDevices + 1 : inum' = [inum EXCEPT ![At(t).arg] = n] BY DEF Choice
<1>7. inum \in [1 .. 2 -> -1 .. MaxDevices + 1] BY DEF IInv, Typed
<1>8. inum' \in [1 .. 2 -> -1 .. MaxDevices + 1] BY <1>6, <1>7
<1>9. At(t).to[1] # "openChosen"
  <2>1. MainNode(At(t), DOMAIN Program[prog], Checks(prog)) BY <1>1, <1>2, MainAt DEF IInv
  <2>2. QED BY <2>1, <1>1, <1>3 DEF MainNode
<1>10. ASSUME prog = "UserBridge", At(t).to[1] \in Chain
       PROVE  At(t).to[1] = "range2" /\ inum'[1] \in 1 .. count
  <2>1. pc["main"] \in DOMAIN UserBridge /\ At(t) = UserBridge[pc["main"]]
    BY <1>1, <1>2, <1>10, CodeIs, TheBridge DEF Running, At
  <2>2. pc["main"] \in {"range", "second", "range2", "same", "openChosen", "netmask1"}
    BY <1>3, <1>10, <2>1, BridgeChain DEF Away
  <2>3. \A l, m, o, s : /\ Test(o, l, m).do = "test" /\ Try(o, s, l, m).do = "try"
                        /\ Call(s, l).do = "call"
    BY DEF Test, Try, Call, Node
  <2>4. pc["main"] = "second" BY <1>1, <2>1, <2>2, <2>3, BridgeChain
  <2>5. At(t).arg = 2 /\ At(t).to[1] = "range2" BY <2>1, <2>4, BridgeChain DEF Ask, Node
  <2>6. inum[1] \in 1 .. count BY <1>10, <2>4 DEF IInv, Chosen, Chain
  <2>7. QED BY <1>6, <1>7, <2>5, <2>6
<1>11. Chosen' BY <1>1, <1>4, <1>9, <1>10 DEF Chosen
<1>12. QED BY <1>1, <1>4, <1>5, <1>8, <1>11 DEF IInv, Typed

\* Main goes on and puts a forwarder at its start, or ends it.
LEMMA StartedInv ==
  ASSUME IInv, Running("main"), At("main").do \in {"start", "terminate"},
         1 \in DOMAIN At("main").to, NEW f \in Forwarder, NEW s \in {"start", "off"},
         pc' = [pc EXCEPT !["main"] = At("main").to[1], ![f] = s],
         prog' = prog, count' = count, inum' = inum, owner' = owner
  PROVE  Placed' /\ LockHeld' /\ Chosen'
<1>1. DOMAIN pc = Thread /\ (\A t \in Thread : pc[t] \in Labels(prog, t)) /\ LockHeld /\ Chosen
  BY DEF IInv, Placed
<1>2. f # "main" /\ f # "ctrlc" /\ f \in Thread /\ "main" \in Thread /\ Forwarder \subseteq Thread
  BY DEF Forwarder, Thread
<1>3. PICK l : l = At("main").to[1] OBVIOUS
<1>4. MainNode(At("main"), DOMAIN Program[prog], Checks(prog)) BY MainAt DEF IInv
<1>5. l \in Labels(prog, "main") /\ l # "openChosen" BY <1>3, <1>4 DEF MainNode, Labels
<1>6. s \in Labels(prog, f) /\ s \notin Locked
  BY <1>2 DEF Labels, ForwarderLabels, Locked
<1>7. /\ pc'["main"] = l /\ pc'[f] = s /\ DOMAIN pc' = Thread
      /\ \A t \in Thread : t # "main" /\ t # f => pc'[t] = pc[t]
  BY <1>1, <1>2, <1>3
<1>8. Placed' BY <1>1, <1>5, <1>6, <1>7 DEF Placed
<1>9. LockHeld'
  <2>1. SUFFICES ASSUME NEW g \in Forwarder, pc'[g] \in Locked PROVE owner' = g
    BY DEF LockHeld
  <2>2. g # f BY <2>1, <1>6, <1>7
  <2>3. g # "main" /\ g \in Thread BY DEF Forwarder, Thread
  <2>4. pc[g] \in Locked BY <2>1, <2>2, <2>3, <1>7
  <2>5. QED BY <2>4, <1>1 DEF LockHeld
<1>10. prog = "UserBridge" => l \notin Chain
  <2>1. SUFFICES ASSUME prog = "UserBridge" PROVE l \notin Chain OBVIOUS
  <2>2. pc["main"] \in DOMAIN UserBridge /\ At("main") = UserBridge[pc["main"]]
    BY <2>1, CodeIs, TheBridge DEF Running, At
  <2>3. \A j, k, m, o, n : /\ Test(o, k, m).do = "test" /\ Try(o, n, k, m).do = "try"
                           /\ Call(n, k).do = "call" /\ Ask(j, k).do = "ask"
    BY DEF Test, Try, Call, Ask, Node
  <2>4. pc["main"] \notin {"range", "second", "range2", "same", "openChosen", "netmask1"}
    BY <2>2, <2>3, BridgeChain
  <2>5. QED BY <1>3, <2>2, <2>4, BridgeChain DEF Away
<1>11. Chosen' BY <1>5, <1>7, <1>10 DEF Chosen
<1>12. QED BY <1>8, <1>9, <1>11

LEMMA CreateInv == ASSUME IInv, NEW t \in Thread, CreateThread(t) PROVE IInv'
<1>1. /\ Running(t) /\ At(t).do = "start" /\ prog' = prog /\ count' = count /\ inum' = inum
      /\ owner' = owner /\ killed' = killed /\ catches' = catches /\ object' = object
  BY DEF CreateThread, Does
<1>2. t = "main" BY <1>1, OnlyMain
<1>3. 1 \in DOMAIN At(t).to /\ 2 \in DOMAIN At(t).to /\ At(t).arg \in Forwarder
  BY <1>1, <1>2, MainNext
<1>4. CASE To(t, At(t).to[2])
  <2>1. Placed' /\ LockHeld' /\ Chosen' BY <1>1, <1>3, <1>4, Moves
  <2>2. QED BY <2>1, <1>1 DEF IInv, Typed
<1>5. CASE pc' = [pc EXCEPT ![t] = At(t).to[1], ![At(t).arg] = "start"]
  <2>1. PICK f \in Forwarder : f = At(t).arg BY <1>3
  <2>2. PICK l : l = At(t).to[1] OBVIOUS
  <2>3. pc' = [pc EXCEPT !["main"] = l, ![f] = "start"] BY <1>2, <1>5, <2>1, <2>2
  <2>4. Placed' /\ LockHeld' /\ Chosen' BY <1>1, <1>2, <1>3, <2>2, <2>3, StartedInv
  <2>5. QED BY <2>4, <1>1 DEF IInv, Typed
<1>6. QED BY <1>4, <1>5 DEF CreateThread

LEMMA TerminateInv == ASSUME IInv, NEW t \in Thread, TerminateThread(t) PROVE IInv'
<1>1. /\ Running(t) /\ At(t).do = "terminate" /\ prog' = prog /\ count' = count
      /\ inum' = inum /\ owner' = owner /\ killed' = killed /\ catches' = catches
      /\ object' = object
      /\ pc' = [pc EXCEPT ![t] = At(t).to[1], ![At(t).arg] = "off"]
  BY DEF TerminateThread, Does
<1>2. t = "main" BY <1>1, OnlyMain
<1>3. 1 \in DOMAIN At(t).to /\ At(t).arg \in Forwarder BY <1>1, <1>2, MainNext
<1>4. Placed' /\ LockHeld' /\ Chosen' BY <1>1, <1>2, <1>3, StartedInv
<1>5. QED BY <1>1, <1>4 DEF IInv, Typed

LEMMA OnlyForwarders ==
  ASSUME IInv, NEW t \in Thread, Running(t), At(t).do \in {"enter", "leave"}
  PROVE  t \in Forwarder /\ 1 \in DOMAIN At(t).to
<1>1. CASE t = "main" BY <1>1, MainAt DEF IInv, MainNode
<1>2. CASE t = "ctrlc" BY <1>2, CtrlcAt
<1>3. CASE t \in Forwarder BY <1>3, ForwarderAt DEF ForwarderNode
<1>4. QED BY <1>1, <1>2, <1>3 DEF Thread, Forwarder

LEMMA EnterInv == ASSUME IInv, NEW t \in Thread, EnterCriticalSection(t) PROVE IInv'
<1>1. /\ Running(t) /\ At(t).do = "enter" /\ prog' = prog /\ count' = count /\ inum' = inum
      /\ owner = "nobody" /\ owner' = t /\ killed' = killed /\ catches' = catches
      /\ object' = object /\ To(t, At(t).to[1])
  BY DEF EnterCriticalSection, Does
<1>2. t \in Forwarder /\ 1 \in DOMAIN At(t).to BY <1>1, OnlyForwarders
<1>3. Placed' /\ Chosen' BY <1>1, <1>2, Goes, ChosenKept
<1>4. LockHeld'
  <2>1. SUFFICES ASSUME NEW f \in Forwarder, pc'[f] \in Locked, f # t PROVE FALSE
    BY <1>1 DEF LockHeld
  <2>2. pc[f] \in Locked
    <3>1. f \in Thread /\ \A l \in Ended : l \notin Locked
      BY DEF Forwarder, Thread, Ended, Locked
    <3>2. QED BY <3>1, <2>1, <1>1, <1>2, Goes
  <2>3. owner = f BY <2>2 DEF IInv, LockHeld
  <2>4. QED BY <2>3, <1>1 DEF Forwarder
<1>5. QED BY <1>1, <1>2, <1>3, <1>4 DEF IInv, Typed

LEMMA LeaveInv == ASSUME IInv, NEW t \in Thread, LeaveCriticalSection(t) PROVE IInv'
<1>1. /\ Running(t) /\ At(t).do = "leave" /\ prog' = prog /\ count' = count /\ inum' = inum
      /\ owner' = "nobody" /\ killed' = killed /\ catches' = catches
      /\ object' = object /\ To(t, At(t).to[1])
  BY DEF LeaveCriticalSection, Does
<1>2. t \in Forwarder /\ 1 \in DOMAIN At(t).to BY <1>1, OnlyForwarders
<1>3. Placed' /\ Chosen' BY <1>1, <1>2, Goes, ChosenKept
<1>4. ForwarderNode(At(t), pc[t], ForwarderLabels) BY <1>1, <1>2, ForwarderAt
<1>5. owner = t /\ At(t).to[1] \notin Locked
  <2>1. pc[t] \in Locked /\ At(t).to[1] \notin Locked BY <1>1, <1>2, <1>4 DEF ForwarderNode
  <2>2. QED BY <2>1, <1>2 DEF IInv, LockHeld
<1>6. LockHeld'
  <2>1. SUFFICES ASSUME NEW f \in Forwarder, pc'[f] \in Locked PROVE FALSE
    BY DEF LockHeld
  <2>2. f # t BY <2>1, <1>1, <1>2, <1>5, Goes
  <2>3. pc[f] \in Locked
    <3>1. f \in Thread /\ \A l \in Ended : l \notin Locked
      BY DEF Forwarder, Thread, Ended, Locked
    <3>2. QED BY <3>1, <2>1, <2>2, <1>1, <1>2, Goes
  <2>4. owner = f BY <2>3 DEF IInv, LockHeld
  <2>5. QED BY <2>2, <2>4, <1>5
<1>7. QED BY <1>1, <1>3, <1>6 DEF IInv, Typed

LEMMA InstallInv == ASSUME IInv, NEW t \in Thread, Install(t) PROVE IInv'
<1>1. /\ Running(t) /\ At(t).do = "signal" /\ prog' = prog /\ count' = count /\ inum' = inum
      /\ owner' = owner /\ killed' = killed /\ catches' = TRUE /\ object' = object
      /\ To(t, At(t).to[1])
  BY DEF Install, Does
<1>2. t = "main" BY <1>1, OnlyMain
<1>3. Placed' /\ LockHeld' /\ Chosen' BY <1>1, <1>2, MainNext, Moves
<1>4. QED BY <1>1, <1>3 DEF IInv, Typed

LEMMA KillInv == ASSUME IInv, NEW t \in Thread, Kill(t) PROVE IInv'
<1>1. /\ Running(t) /\ At(t).do = "kill" /\ prog' = prog /\ count' = count /\ inum' = inum
      /\ owner' = owner /\ killed' = TRUE /\ catches' = catches /\ object' = object
      /\ To(t, At(t).to[1])
  BY DEF Kill, Does
<1>2. 1 \in DOMAIN At(t).to
  <2>1. CASE t = "main" BY <1>1, <2>1, MainAt DEF IInv, MainNode
  <2>2. CASE t \in Forwarder BY <1>1, <2>2, ForwarderAt DEF ForwarderNode
  <2>3. CASE t = "ctrlc" BY <1>1, <2>3, CtrlcAt
  <2>4. QED BY <2>1, <2>2, <2>3 DEF Thread, Forwarder
<1>3. Placed' /\ LockHeld' /\ Chosen' BY <1>1, <1>2, Moves
<1>4. QED BY <1>1, <1>3 DEF IInv, Typed

LEMMA CtrlCInv == ASSUME IInv, CtrlC PROVE IInv'
<1>1. /\ prog' = prog /\ count' = count /\ inum' = inum /\ owner' = owner
      /\ killed' = killed /\ catches' = FALSE /\ object' = object
      /\ IF catches THEN pc' = [pc EXCEPT !["ctrlc"] = "start"] ELSE To("main", "early")
  BY DEF CtrlC
<1>2. DOMAIN pc = Thread /\ (\A t \in Thread : pc[t] \in Labels(prog, t)) /\ LockHeld /\ Chosen
  BY DEF IInv, Placed
<1>3. "main" \in Thread /\ "ctrlc" \in Thread /\ Forwarder \subseteq Thread \ {"main", "ctrlc"}
  BY DEF Thread, Forwarder
<1>4. CASE pc' = [pc EXCEPT !["ctrlc"] = "start"]
  <2>1. /\ DOMAIN pc' = Thread /\ pc'["ctrlc"] = "start"
        /\ \A t \in Thread : t # "ctrlc" => pc'[t] = pc[t]
    BY <1>2, <1>3, <1>4
  <2>2. "start" \in Labels(prog, "ctrlc") BY DEF Labels
  <2>3. Placed' BY <1>1, <1>2, <2>1, <2>2 DEF Placed
  <2>4. LockHeld' BY <1>1, <1>2, <1>3, <2>1 DEF LockHeld
  <2>5. pc'["main"] = pc["main"] BY <1>3, <2>1
  <2>6. Chosen' BY <1>1, <1>2, <2>5, OthersChosen
  <2>7. QED BY <1>1, <2>3, <2>4, <2>6 DEF IInv, Typed
<1>5. CASE To("main", "early")
  <2>1. pc' = [t \in Thread |-> "early"] BY <1>5 DEF To, Ended
  <2>2. "early" \in Ended /\ "early" \notin Locked /\ \A t \in Thread : "early" \in Labels(prog, t)
    BY DEF Ended, Locked, Labels
  <2>3. Placed' BY <1>1, <2>1, <2>2 DEF Placed
  <2>4. LockHeld' BY <1>3, <2>1, <2>2 DEF LockHeld
  <2>5. Chosen' BY <1>1, <1>2, <1>3, <2>1, <2>2, OthersChosen
  <2>6. QED BY <1>1, <2>3, <2>4, <2>5 DEF IInv, Typed
<1>6. QED BY <1>1, <1>4, <1>5

LEMMA InitInv == Init => IInv
<1>1. SUFFICES ASSUME Init PROVE IInv OBVIOUS
<1>2. pc = [t \in Thread |-> IF t = "main" THEN "start" ELSE "off"] BY <1>1 DEF Init
<1>3. Typed
  <2>1. inum \in [1 .. 2 -> -1 .. MaxDevices + 1]
    <3>1. inum = <<0, 0>> /\ 0 \in -1 .. MaxDevices + 1 BY <1>1, DevicesAssumption DEF Init
    <3>2. DOMAIN inum = 1 .. 2 /\ inum = [i \in 1 .. 2 |-> 0] BY <3>1
    <3>3. QED BY <3>1, <3>2
  <2>2. QED BY <1>1, <2>1 DEF Init, Typed
<1>4. "start" \in DOMAIN Program[prog] BY <1>3, ProgramGraph DEF Typed, Graph
<1>5. Placed BY <1>2, <1>4 DEF Placed, Labels
<1>6. "off" \notin Locked /\ Forwarder \subseteq Thread \ {"main"} BY DEF Locked, Forwarder, Thread
<1>7. LockHeld BY <1>2, <1>6 DEF LockHeld
<1>8. pc["main"] = "start" /\ "start" \notin Chain BY <1>2 DEF Thread, Chain
<1>9. Chosen BY <1>8 DEF Chosen
<1>10. QED BY <1>3, <1>5, <1>7, <1>9 DEF IInv

-----------------------------------------------------------------------------
(* Theorems. *)

\* The threads stay at nodes of their programs, the section has the owner who is
\* in it, and the numbers are what the checks have shown.
THEOREM Invariance == Spec => []IInv
<1>1. ASSUME IInv, [Next]_vars PROVE IInv'
  <2>1. CASE \E t \in Thread : Acquire(t) BY <1>1, <2>1, AcquireInv
  <2>2. CASE \E t \in Thread : InitializeCriticalSection(t) BY <1>1, <2>2, InitializeInv
  <2>3. CASE \E t \in Thread : Release(t) BY <1>1, <2>3, ReleaseInv
  <2>4. CASE \E t \in Thread : Use(t) BY <1>1, <2>4, UseInv
  <2>5. CASE \E t \in Thread : Choice(t) BY <1>1, <2>5, ChoiceInv
  <2>6. CASE \E t \in Thread : Decide(t) BY <1>1, <2>6, DecideInv
  <2>7. CASE \E t \in Thread : CreateThread(t) BY <1>1, <2>7, CreateInv
  <2>8. CASE \E t \in Thread : TerminateThread(t) BY <1>1, <2>8, TerminateInv
  <2>9. CASE \E t \in Thread : EnterCriticalSection(t) BY <1>1, <2>9, EnterInv
  <2>10. CASE \E t \in Thread : LeaveCriticalSection(t) BY <1>1, <2>10, LeaveInv
  <2>11. CASE \E t \in Thread : Install(t) BY <1>1, <2>11, InstallInv
  <2>12. CASE \E t \in Thread : Kill(t) BY <1>1, <2>12, KillInv
  <2>13. CASE CtrlC BY <1>1, <2>13, CtrlCInv
  <2>14. CASE UNCHANGED vars
    BY <1>1, <2>14 DEF vars, IInv, Typed, Placed, LockHeld, Chosen
  <2>15. QED
    BY <1>1, <2>1, <2>2, <2>3, <2>4, <2>5, <2>6, <2>7, <2>8, <2>9, <2>10, <2>11, <2>12,
       <2>13, <2>14
    DEF Next
<1>2. QED BY InitInv, <1>1, PTL DEF Spec

\* Every variable has its type, and every thread that runs is at a node.
THEOREM TypeCorrect == Spec => []TypeOK
<1>1. ASSUME IInv PROVE TypeOK
  <2>1. ASSUME NEW t \in Thread PROVE Running(t) \/ pc[t] \in Ended \cup {"off", "returned"}
    <3>1. pc[t] \in Labels(prog, t) BY <1>1 DEF IInv, Placed
    <3>2. CASE t = "main" BY <3>1, <3>2, CodeIs DEF Labels, Running
    <3>3. CASE t = "ctrlc"
      <4>1. DOMAIN Code("ctrlc") = {"start", "wait"} BY CodeIs DEF ctrlc_handler
      <4>2. QED BY <4>1, <3>1, <3>3 DEF Labels, Running
    <3>4. CASE t \in Forwarder
      <4>1. \A a, b : "start" \in DOMAIN CaptureAndForwardThread(a, b)
        BY DEF CaptureAndForwardThread
      <4>2. DOMAIN Code(t) = ForwarderLabels
        BY <4>1, <3>4, ForwarderGraph, CodeIs DEF Forwarder
      <4>3. QED BY <4>2, <3>1, <3>4 DEF Labels, Running, Forwarder
    <3>5. QED BY <3>2, <3>3, <3>4 DEF Thread, Forwarder
  <2>2. QED BY <1>1, <2>1 DEF IInv, Typed, TypeOK
<1>2. IInv => TypeOK BY <1>1
<1>3. QED BY <1>2, Invariance, PTL

\* The two forwarders of the bridge do not print at the same time.
THEOREM PrintApart == Spec => []PrintsApart
<1>1. ASSUME IInv PROVE PrintsApart
  <2>1. SUFFICES ASSUME Does("first", "print"), Does("second", "print") PROVE FALSE
    BY DEF PrintsApart
  <2>2. "first" \in Forwarder /\ "second" \in Forwarder BY DEF Forwarder
  <2>3. pc["first"] \in Locked BY <2>1, <2>2, ForwarderAt DEF Does, ForwarderNode
  <2>4. pc["second"] \in Locked BY <2>1, <2>2, ForwarderAt DEF Does, ForwarderNode
  <2>5. owner = "first" /\ owner = "second" BY <1>1, <2>2, <2>3, <2>4 DEF IInv, LockHeld
  <2>6. QED BY <2>5
<1>2. IInv => PrintsApart BY <1>1
<1>3. QED BY <1>2, Invariance, PTL

\* On a machine with any number of adapters, a program that asks for a number opens
\* none above the list, and one below it only if it uses packet.dll: those test no
\* lower bound, and take 0 and negative numbers (GetMacAddress.c:94).  The numbers
\* of the bridge are in range and different.
THEOREM ChosenExists == Spec => []SelectedExists
<1>1. ASSUME IInv PROVE SelectedExists
  <2>1. ASSUME pc["main"] = "openSecond" PROVE prog = "UserBridge"
    <3>1. "openSecond" \in DOMAIN Program[prog]
      <4>1. "main" \in Thread BY DEF Thread
      <4>2. pc["main"] \in Labels(prog, "main") BY <1>1, <4>1 DEF IInv, Placed
      <4>3. QED BY <4>2, <2>1 DEF Labels, Ended
    <3>2. "same" \in Checks(prog) BY <1>1, <3>1, ProgramGraph DEF IInv, Typed, Graph
    <3>3. QED BY <3>2 DEF Checks
  <2>2. "openSecond" \in Chain \ {"second", "range2", "same"} BY DEF Chain
  <2>3. pc["main"] = "openSecond" => inum[2] \in (1 .. count) \ {inum[1]}
    BY <1>1, <2>1, <2>2 DEF IInv, Chosen
  <2>4. QED BY <1>1, <2>3 DEF IInv, Chosen, SelectedExists
<1>2. IInv => SelectedExists BY <1>1
<1>3. QED BY <1>2, Invariance, PTL

-----------------------------------------------------------------------------
(* What a program holds. *)

\* What a program holds when it comes to a label.  Most programs choose an adapter
\* or take a source, and read one handle; the tables after this one are those of the
\* programs that hold more, or something else, at the same labels.
OfMost ==
  [start |-> {}, source |-> {}, open |-> {}, find |-> {},
   empty |-> {"devs"}, ask |-> {"devs"}, range |-> {"devs"}, giveUp |-> {"devs"},
   openChosen |-> {"devs"}, ifprint |-> {"devs"}, free |-> {"devs"},
   listen |-> {"devs", "in"}, datalink |-> {"devs", "in"}, netmask |-> {"devs", "in"},
   compile |-> {"devs", "in"}, set |-> {"devs", "in"},
   loop |-> {"in"}, error |-> {"in"}, send |-> {"in"}, close |-> {"in"}]

OfSavedump ==
  [start |-> {}, find |-> {},
   empty |-> {"devs"}, ask |-> {"devs"}, range |-> {"devs"}, giveUp |-> {"devs"},
   openChosen |-> {"devs"}, create |-> {"devs", "in"}, listen |-> {"devs", "in", "dump"},
   loop |-> {"in", "dump"}, save |-> {"in", "dump"}, close |-> {"in", "dump"}]

OfFilter ==
  [start |-> {}, source |-> {}, open |-> {}, filter |-> {"in"}, compile |-> {"in"},
   set |-> {"in"}, output |-> {"in"}, create |-> {"in"}, loop |-> {"in", "dump"},
   save |-> {"in", "dump"}, close |-> {"in", "dump"}, closeDump |-> {"dump"},
   abandon |-> {"in"}]

OfFopen ==
  [start |-> {}, paths |-> {}, tshark |-> {}, open |-> {"file"}, loop |-> {"file", "in"},
   close |-> {"file", "in"}, closeFile |-> {"file"}]

OfTcptop ==
  [start |-> {}, open |-> {}, compile |-> {"in"}, set |-> {"in"}, mode |-> {"in"},
   abandon |-> {"in"}, loop |-> {"in"}, close |-> {"in"}]

OfSendcap ==
  [start |-> {}, length |-> {}, measured |-> {"file"}, source |-> {}, open |-> {},
   openOut |-> {"in"}, datalink |-> {"in", "out"}, alloc |-> {"in", "out"},
   read |-> {"in", "out", "queue"}, add |-> {"in", "out", "queue"},
   corrupt |-> {"in", "out", "queue"}, transmit |-> {"in", "out", "queue"},
   destroy |-> {"in", "out", "queue"}, close |-> {"in", "out"}, closeOut |-> {"out"}]

OfMac ==
  [start |-> {}, names |-> {}, ask |-> {}, above |-> {}, openChosen |-> {},
   alloc |-> {"adapter"}, request |-> {"adapter", "oid"}, free |-> {"adapter", "oid"},
   close |-> {"adapter"}, abandon |-> {"adapter"}]

OfPacket ==
  [start |-> {}, names |-> {}, ask |-> {}, above |-> {}, openChosen |-> {}, open |-> {},
   filter |-> {"adapter"}, buffer |-> {"adapter"}, timeout |-> {"adapter"},
   alloc |-> {"adapter"},
   fill |-> {"adapter", "packet"}, writes |-> {"adapter", "packet"},
   send |-> {"adapter", "packet"}, key |-> {"adapter", "packet"},
   receive |-> {"adapter", "packet"}, print |-> {"adapter", "packet"},
   stats |-> {"adapter", "packet"}, free |-> {"adapter", "packet"}, close |-> {"adapter"}]

\* The bridge comes to abandon, closeOut and giveUp with the device list or without
\* it: it is careless of the list, so it need not hold it there.
OfBridge ==
  [start |-> {}, find |-> {},
   empty |-> {"devs"}, ask |-> {"devs"}, first |-> {"devs"}, range |-> {"devs"},
   second |-> {"devs"}, range2 |-> {"devs"}, same |-> {"devs"}, openChosen |-> {"devs"},
   giveUp |-> {"devs"}, netmask1 |-> {"devs", "in"}, openSecond |-> {"devs", "in"},
   netmask2 |-> {"devs", "in", "out"}, compile1 |-> {"devs", "in", "out"},
   set1 |-> {"devs", "in", "out"}, compile2 |-> {"devs", "in", "out"},
   set2 |-> {"devs", "in", "out"}, freeList |-> {"devs", "in", "out"},
   abandon |-> {"devs", "in", "out"}, closeOut |-> {"devs", "out"},
   section |-> {"in", "out"}, startFirst |-> {"in", "out", "section"},
   startSecond |-> {"in", "out", "section"}, terminate |-> {"in", "out", "section"},
   signal |-> {"in", "out", "section"}, bridging |-> {"in", "out", "section"},
   sleep |-> {"in", "out", "section"}]

\* The table of a program.
Owns(p) ==
  CASE p \in {"savedump", "misc_savedump"} -> OfSavedump
    [] p \in {"pcap_filter", "remote_pcap_filter"} -> OfFilter
    [] p = "pcap_fopen" -> OfFopen
    [] p = "tcptop" -> OfTcptop
    [] p = "sendcap" -> OfSendcap
    [] p = "GetMacAddress" -> OfMac
    [] p \in {"TestPacketSend", "TestPacketCapture"} -> OfPacket
    [] p = "UserBridge" -> OfBridge
    [] OTHER -> OfMost

Entry(f, p) == IF p \in DOMAIN f THEN f[p] ELSE {}
CarelessOf(p) == Entry(Careless, p)
LeftOf(p) == Entry(Left, p)

\* A program that comes to the label l of K with S in its hands holds what K says
\* of l, except for what it is careless of (C), and nothing else, except for what it
\* leaves behind in the end (L).
Fits(S, l, K, C, L) ==
  \/ l = "early"
  \/ l = "done" /\ S \subseteq L
  \/ l \in DOMAIN K \ Ended /\ K[l] \ C \subseteq S /\ S \subseteq K[l] \cup L

Acquires(n) == n.do \in {"try", "init"}

\* What is held after the node n, when S was before: a failed call acquires nothing.
After(n, i, S) ==
  IF Acquires(n) /\ i = 1 THEN S \cup {n.arg}
  ELSE IF n.do = "drop" THEN S \ {n.arg} ELSE S

\* The node n comes after a label where S is held.  Only a program that sleeps in the
\* end has other threads.
Flows(n, S, K, C, L) ==
  /\ n.needs \subseteq S \cup C
  /\ Acquires(n) \/ n.do = "drop" => n.arg \in Object
  /\ n.do = "init" => n.arg = "section"
  /\ n.do \in {"start", "terminate", "signal"} => "sleep" \in DOMAIN K
  /\ \A i \in DOMAIN n.to : Fits(After(n, i, S), n.to[i], K, C, L)

\* Every node of f comes after what the table K says of its label.
Sound(f, K, C, L) ==
  \A x \in DOMAIN f : x \in DOMAIN K \ Ended /\ Flows(f[x], K[x], K, C, L)

LEMMA CallFlows ==
  ASSUME NEW S, NEW K, NEW C, NEW L, NEW needs, NEW to, needs \subseteq S \cup C,
         \A i \in DOMAIN to : Fits(S, to[i], K, C, L)
  PROVE  Flows(Call(needs, to), S, K, C, L)
BY DEF Flows, After, Acquires, Call, Node

LEMMA TryFlows ==
  ASSUME NEW S, NEW K, NEW C, NEW L, NEW o \in Object, NEW needs, NEW l, NEW m,
         needs \subseteq S \cup C, Fits(S \cup {o}, l, K, C, L), Fits(S, m, K, C, L)
  PROVE  Flows(Try(o, needs, l, m), S, K, C, L)
BY DEF Flows, After, Acquires, Try, Node

LEMMA DropFlows ==
  ASSUME NEW S, NEW K, NEW C, NEW L, NEW o \in Object, NEW l,
         o \in S \cup C, Fits(S \ {o}, l, K, C, L)
  PROVE  Flows(Drop(o, l), S, K, C, L)
BY DEF Flows, After, Acquires, Drop, Node

LEMMA NextFlows ==
  ASSUME NEW S, NEW K, NEW C, NEW L, NEW l, NEW i, Fits(S, l, K, C, L)
  PROVE  /\ Flows(Goto(l), S, K, C, L) /\ Flows(Ask(i, l), S, K, C, L)
         /\ \A m : Fits(S, m, K, C, L) => Flows(Test(i, l, m), S, K, C, L)
BY DEF Flows, After, Acquires, Test, Ask, Goto, Call, Node

LEMMA JoinedSound ==
  ASSUME NEW f, NEW g, NEW K, NEW C, NEW L, Sound(f, K, C, L), Sound(g, K, C, L)
  PROVE  Sound(f @@ g, K, C, L)
BY DEF Sound, @@

\* A program may be said to leave more behind.
LEMMA MoreLeft ==
  ASSUME NEW f, NEW K, NEW C, NEW L, NEW M, Sound(f, K, C, L), L \subseteq M
  PROVE  Sound(f, K, C, M)
<1>1. ASSUME NEW S, NEW l, Fits(S, l, K, C, L) PROVE Fits(S, l, K, C, M) BY <1>1 DEF Fits
<1>2. QED BY <1>1 DEF Sound, Flows

-----------------------------------------------------------------------------
(* What the nodes of the programs do with it. *)

LEMMA ChooseSound ==
  ASSUME NEW K, NEW C, NEW L, K["find"] = {},
         {"find", "empty", "ask", "range", "giveUp", "openChosen"} \subseteq DOMAIN K,
         \A x \in {"empty", "ask", "range", "giveUp", "openChosen"} : K[x] = {"devs"}
  PROVE  Sound(Choose, K, C, L)
<1> DEFINE F(n, S) == Flows(n, S, K, C, L)
<1>1. F(Try("devs", {}, "empty", "early"), {}) BY TryFlows DEF Fits, Ended, Object
<1>2. F(Test("empty", "early", "ask"), {"devs"}) BY NextFlows DEF Fits, Ended
<1>3. F(Ask(1, "range"), {"devs"}) BY NextFlows DEF Fits, Ended
<1>4. F(Test("outside1", "giveUp", "openChosen"), {"devs"}) BY NextFlows DEF Fits, Ended
<1>5. F(Drop("devs", "early"), {"devs"}) BY DropFlows DEF Fits, Ended, Object
<1>6. {"find", "empty", "ask", "range", "giveUp"} \subseteq DOMAIN K \ Ended BY DEF Ended
<1> HIDE DEF F
<1>7. \A x \in DOMAIN Choose : x \in DOMAIN K \ Ended /\ F(Choose[x], K[x])
  BY <1>1, <1>2, <1>3, <1>4, <1>5, <1>6 DEF Choose
<1>8. QED BY <1>7 DEF F, Sound

LEMMA LoopThenSound ==
  ASSUME NEW K, NEW C, NEW L, {"loop", "close"} \subseteq DOMAIN K,
         K["loop"] = {"in"}, K["close"] = {"in"}
  PROVE  /\ Sound(LoopThen("close"), K, C, L)
         /\ "in" \in L => Sound(LoopThen("done"), K, C, L)
<1> DEFINE F(n) == Flows(n, {"in"}, K, C, L)
<1>1. F(Call({"in"}, <<"loop", "close">>)) /\ F(Drop("in", "done"))
  BY CallFlows, DropFlows DEF Fits, Ended, Object
<1>2. "in" \in L => F(Call({"in"}, <<"loop", "done">>)) BY CallFlows DEF Fits, Ended
<1>3. "loop" \notin Ended /\ "close" \notin Ended BY DEF Ended
<1> HIDE DEF F
<1>4. QED BY <1>1, <1>2, <1>3 DEF F, Sound, LoopThen

LEMMA ReadAllSound ==
  ASSUME NEW K, NEW C, NEW L, {"loop", "error", "close"} \subseteq DOMAIN K,
         K["loop"] = {"in"}, K["error"] = {"in"}, K["close"] = {"in"}
  PROVE  /\ Sound(ReadAll("close"), K, C, L)
         /\ "in" \in L => Sound(ReadAll("done"), K, C, L)
<1> DEFINE F(n) == Flows(n, {"in"}, K, C, L)
<1>1. F(Call({"in"}, <<"loop", "error", "close">>)) /\ F(Call({"in"}, <<"early">>))
  BY CallFlows DEF Fits, Ended
<1>2. F(Drop("in", "done")) BY DropFlows DEF Fits, Ended, Object
<1>3. "in" \in L => F(Call({"in"}, <<"loop", "error", "done">>)) BY CallFlows DEF Fits, Ended
<1>4. "loop" \notin Ended /\ "error" \notin Ended /\ "close" \notin Ended BY DEF Ended
<1> HIDE DEF F
<1>5. QED BY <1>1, <1>2, <1>3, <1>4 DEF F, Sound, ReadAll

LEMMA ChooseNameSound ==
  ASSUME NEW K, NEW C, NEW L, {"names", "ask", "above", "openChosen"} \subseteq DOMAIN K,
         \A x \in {"names", "ask", "above", "openChosen"} : K[x] = {}
  PROVE  Sound(ChooseName, K, C, L)
<1> DEFINE F(n) == Flows(n, {}, K, C, L)
<1>1. F(Call({}, <<"ask", "early">>)) BY CallFlows DEF Fits, Ended
<1>2. F(Ask(1, "above")) /\ F(Test("above1", "ask", "openChosen")) BY NextFlows DEF Fits, Ended
<1>3. "names" \notin Ended /\ "ask" \notin Ended /\ "above" \notin Ended BY DEF Ended
<1> HIDE DEF F
<1>4. QED BY <1>1, <1>2, <1>3 DEF F, Sound, ChooseName

-----------------------------------------------------------------------------
(* The tables, and the programs they are of. *)

LEMMA OfMostIs ==
  /\ DOMAIN OfMost = {"start", "source", "open", "find", "empty", "ask", "range",
       "giveUp", "openChosen", "ifprint", "free", "listen", "datalink", "netmask",
       "compile", "set", "loop", "error", "send", "close"}
  /\ OfMost["start"] = {} /\ OfMost["source"] = {} /\ OfMost["open"] = {} /\ OfMost["find"]
     = {}
  /\ OfMost["empty"] = {"devs"} /\ OfMost["ask"] = {"devs"} /\ OfMost["range"] = {"devs"} /\
     OfMost["giveUp"] = {"devs"} /\ OfMost["openChosen"] = {"devs"} /\ OfMost["ifprint"] =
     {"devs"} /\ OfMost["free"] = {"devs"}
  /\ OfMost["listen"] = {"devs", "in"} /\ OfMost["datalink"] = {"devs", "in"} /\
     OfMost["netmask"] = {"devs", "in"} /\ OfMost["compile"] = {"devs", "in"} /\
     OfMost["set"] = {"devs", "in"}
  /\ OfMost["loop"] = {"in"} /\ OfMost["error"] = {"in"} /\ OfMost["send"] = {"in"} /\
     OfMost["close"] = {"in"}
BY DEF OfMost

LEMMA OfSavedumpIs ==
  /\ DOMAIN OfSavedump = {"start", "find", "empty", "ask", "range", "giveUp",
       "openChosen", "create", "listen", "loop", "save", "close"}
  /\ OfSavedump["start"] = {} /\ OfSavedump["find"] = {}
  /\ OfSavedump["empty"] = {"devs"} /\ OfSavedump["ask"] = {"devs"} /\ OfSavedump["range"] =
     {"devs"} /\ OfSavedump["giveUp"] = {"devs"} /\ OfSavedump["openChosen"] = {"devs"}
  /\ OfSavedump["create"] = {"devs", "in"}
  /\ OfSavedump["listen"] = {"devs", "in", "dump"}
  /\ OfSavedump["loop"] = {"in", "dump"} /\ OfSavedump["save"] = {"in", "dump"} /\
     OfSavedump["close"] = {"in", "dump"}
BY DEF OfSavedump

LEMMA OfFilterIs ==
  /\ DOMAIN OfFilter = {"start", "source", "open", "filter", "compile", "set", "output",
       "create", "loop", "save", "close", "closeDump", "abandon"}
  /\ OfFilter["start"] = {} /\ OfFilter["source"] = {} /\ OfFilter["open"] = {}
  /\ OfFilter["filter"] = {"in"} /\ OfFilter["compile"] = {"in"} /\ OfFilter["set"] = {"in"}
     /\ OfFilter["output"] = {"in"} /\ OfFilter["create"] = {"in"} /\ OfFilter["abandon"] =
     {"in"}
  /\ OfFilter["loop"] = {"in", "dump"} /\ OfFilter["save"] = {"in", "dump"} /\
     OfFilter["close"] = {"in", "dump"}
  /\ OfFilter["closeDump"] = {"dump"}
BY DEF OfFilter

LEMMA OfFopenIs ==
  /\ DOMAIN OfFopen = {"start", "paths", "tshark", "open", "loop", "close", "closeFile"}
  /\ OfFopen["start"] = {} /\ OfFopen["paths"] = {} /\ OfFopen["tshark"] = {}
  /\ OfFopen["open"] = {"file"} /\ OfFopen["closeFile"] = {"file"}
  /\ OfFopen["loop"] = {"file", "in"} /\ OfFopen["close"] = {"file", "in"}
BY DEF OfFopen

LEMMA OfTcptopIs ==
  /\ DOMAIN OfTcptop = {"start", "open", "compile", "set", "mode", "abandon", "loop",
       "close"}
  /\ OfTcptop["start"] = {} /\ OfTcptop["open"] = {}
  /\ OfTcptop["compile"] = {"in"} /\ OfTcptop["set"] = {"in"} /\ OfTcptop["mode"] = {"in"}
     /\ OfTcptop["abandon"] = {"in"} /\ OfTcptop["loop"] = {"in"} /\ OfTcptop["close"] =
     {"in"}
BY DEF OfTcptop

LEMMA OfSendcapIs ==
  /\ DOMAIN OfSendcap = {"start", "length", "measured", "source", "open", "openOut",
       "datalink", "alloc", "read", "add", "corrupt", "transmit", "destroy", "close",
       "closeOut"}
  /\ OfSendcap["start"] = {} /\ OfSendcap["length"] = {} /\ OfSendcap["source"] = {} /\
     OfSendcap["open"] = {}
  /\ OfSendcap["measured"] = {"file"}
  /\ OfSendcap["openOut"] = {"in"}
  /\ OfSendcap["datalink"] = {"in", "out"} /\ OfSendcap["alloc"] = {"in", "out"} /\
     OfSendcap["close"] = {"in", "out"}
  /\ OfSendcap["read"] = {"in", "out", "queue"} /\ OfSendcap["add"] = {"in", "out", "queue"}
     /\ OfSendcap["corrupt"] = {"in", "out", "queue"} /\ OfSendcap["transmit"] = {"in",
     "out", "queue"} /\ OfSendcap["destroy"] = {"in", "out", "queue"}
  /\ OfSendcap["closeOut"] = {"out"}
BY DEF OfSendcap

LEMMA OfMacIs ==
  /\ DOMAIN OfMac = {"start", "names", "ask", "above", "openChosen", "alloc", "request",
       "free", "close", "abandon"}
  /\ OfMac["start"] = {} /\ OfMac["names"] = {} /\ OfMac["ask"] = {} /\ OfMac["above"] = {}
     /\ OfMac["openChosen"] = {}
  /\ OfMac["alloc"] = {"adapter"} /\ OfMac["close"] = {"adapter"} /\ OfMac["abandon"] =
     {"adapter"}
  /\ OfMac["request"] = {"adapter", "oid"} /\ OfMac["free"] = {"adapter", "oid"}
BY DEF OfMac

LEMMA OfPacketIs ==
  /\ DOMAIN OfPacket = {"start", "names", "ask", "above", "openChosen", "open", "filter",
       "buffer", "timeout", "alloc", "fill", "writes", "send", "key", "receive", "print",
       "stats", "free", "close"}
  /\ OfPacket["start"] = {} /\ OfPacket["names"] = {} /\ OfPacket["ask"] = {} /\
     OfPacket["above"] = {} /\ OfPacket["openChosen"] = {} /\ OfPacket["open"] = {}
  /\ OfPacket["filter"] = {"adapter"} /\ OfPacket["buffer"] = {"adapter"} /\
     OfPacket["timeout"] = {"adapter"} /\ OfPacket["alloc"] = {"adapter"} /\
     OfPacket["close"] = {"adapter"}
  /\ OfPacket["fill"] = {"adapter", "packet"} /\ OfPacket["writes"] = {"adapter", "packet"}
     /\ OfPacket["send"] = {"adapter", "packet"} /\ OfPacket["key"] = {"adapter", "packet"}
     /\ OfPacket["receive"] = {"adapter", "packet"} /\ OfPacket["print"] = {"adapter",
     "packet"} /\ OfPacket["stats"] = {"adapter", "packet"} /\ OfPacket["free"] =
     {"adapter", "packet"}
BY DEF OfPacket

LEMMA OfBridgeIs ==
  /\ DOMAIN OfBridge = {"start", "find", "empty", "ask", "first", "range", "second",
       "range2", "same", "openChosen", "giveUp", "netmask1", "openSecond", "netmask2",
       "compile1", "set1", "compile2", "set2", "freeList", "abandon", "closeOut", "section",
       "startFirst", "startSecond", "terminate", "signal", "bridging", "sleep"}
  /\ OfBridge["start"] = {} /\ OfBridge["find"] = {}
  /\ OfBridge["empty"] = {"devs"} /\ OfBridge["ask"] = {"devs"} /\ OfBridge["first"] =
     {"devs"} /\ OfBridge["range"] = {"devs"} /\ OfBridge["second"] = {"devs"} /\
     OfBridge["range2"] = {"devs"} /\ OfBridge["same"] = {"devs"} /\ OfBridge["openChosen"]
     = {"devs"} /\ OfBridge["giveUp"] = {"devs"}
  /\ OfBridge["netmask1"] = {"devs", "in"} /\ OfBridge["openSecond"] = {"devs", "in"}
  /\ OfBridge["netmask2"] = {"devs", "in", "out"} /\ OfBridge["compile1"] = {"devs", "in",
     "out"} /\ OfBridge["set1"] = {"devs", "in", "out"} /\ OfBridge["compile2"] = {"devs",
     "in", "out"} /\ OfBridge["set2"] = {"devs", "in", "out"} /\ OfBridge["freeList"] =
     {"devs", "in", "out"} /\ OfBridge["abandon"] = {"devs", "in", "out"}
  /\ OfBridge["closeOut"] = {"devs", "out"}
  /\ OfBridge["section"] = {"in", "out"}
  /\ OfBridge["startFirst"] = {"in", "out", "section"} /\ OfBridge["startSecond"] = {"in",
     "out", "section"} /\ OfBridge["terminate"] = {"in", "out", "section"} /\
     OfBridge["signal"] = {"in", "out", "section"} /\ OfBridge["bridging"] = {"in", "out",
     "section"} /\ OfBridge["sleep"] = {"in", "out", "section"}
BY DEF OfBridge

LEMMA readfileSound == Sound(readfile, OfMost, {}, {})
<1> DEFINE F(x, n) == Flows(n, OfMost[x], OfMost, {}, {})
<1>1. F("start", Usage("open"))
  BY OfMostIs, CallFlows DEF Fits, Ended, Usage
<1>2. F("open", Try("in", {}, "loop", "early"))
  BY OfMostIs, TryFlows DEF Fits, Ended, Object
<1>3. {"start", "open"} \subseteq DOMAIN OfMost \ Ended BY OfMostIs DEF Ended
<1> HIDE DEF F
<1>4. Sound(LoopThen("close"), OfMost, {}, {})
  BY OfMostIs, LoopThenSound
<1>5. ASSUME NEW f, readfile = f @@ LoopThen("close"),
             DOMAIN f = {"start", "open"},
             \A x \in DOMAIN f : F(x, f[x])
      PROVE  Sound(readfile, OfMost, {}, {})
  <2>1. Sound(f, OfMost, {}, {}) BY <1>5, <1>3 DEF F, Sound
  <2>2. QED BY <2>1, <1>4, <1>5, JoinedSound
<1>6. QED
  BY <1>1, <1>2, <1>5 DEF readfile

LEMMA readfile_exSound == Sound(readfile_ex, OfMost, {}, {})
<1> DEFINE F(x, n) == Flows(n, OfMost[x], OfMost, {}, {})
<1>1. /\ F("start", Usage("open"))
      /\ F("error", Call({"in"}, <<"close">>))
  BY OfMostIs, CallFlows DEF Fits, Ended, Usage
<1>2. F("open", Try("in", {}, "loop", "early"))
  BY OfMostIs, TryFlows DEF Fits, Ended, Object
<1>3. {"start", "open", "error"} \subseteq DOMAIN OfMost \ Ended BY OfMostIs DEF Ended
<1> HIDE DEF F
<1>4. Sound(ReadAll("close"), OfMost, {}, {})
  BY OfMostIs, ReadAllSound
<1>5. ASSUME NEW f, readfile_ex = f @@ ReadAll("close"),
             DOMAIN f = {"start", "open", "error"},
             \A x \in DOMAIN f : F(x, f[x])
      PROVE  Sound(readfile_ex, OfMost, {}, {})
  <2>1. Sound(f, OfMost, {}, {}) BY <1>5, <1>3 DEF F, Sound
  <2>2. QED BY <2>1, <1>4, <1>5, JoinedSound
<1>6. QED
  BY <1>1, <1>2, <1>5 DEF readfile_ex

LEMMA sendpackSound == Sound(sendpack, OfMost, {}, {})
<1> DEFINE F(x, n) == Flows(n, OfMost[x], OfMost, {}, {})
<1>1. /\ F("start", Usage("open"))
      /\ F("send", Call({"in"}, <<"close", "error">>))
      /\ F("error", Call({"in"}, <<"early">>))
  BY OfMostIs, CallFlows DEF Fits, Ended, Usage
<1>2. F("open", Try("in", {}, "send", "early"))
  BY OfMostIs, TryFlows DEF Fits, Ended, Object
<1>3. F("close", Drop("in", "done"))
  BY OfMostIs, DropFlows DEF Fits, Ended, Object
<1>4. {"start", "open", "send", "error", "close"}
        \subseteq DOMAIN OfMost \ Ended
  BY OfMostIs DEF Ended
<1> HIDE DEF F
<1>5. \A x \in DOMAIN sendpack : x \in DOMAIN OfMost \ Ended /\ F(x, sendpack[x])
  BY <1>1, <1>2, <1>3, <1>4 DEF sendpack
<1>6. QED BY <1>5 DEF F, Sound

LEMMA basic_dumpSound == Sound(basic_dump, OfMost, {}, {})
<1> DEFINE F(x, n) == Flows(n, OfMost[x], OfMost, {}, {})
<1>1. F("start", Goto("find"))
  BY OfMostIs, NextFlows DEF Fits, Ended
<1>2. F("openChosen", Try("in", {"devs"}, "listen", "giveUp"))
  BY OfMostIs, TryFlows DEF Fits, Ended, Object
<1>3. F("listen", Drop("devs", "loop"))
  BY OfMostIs, DropFlows DEF Fits, Ended, Object
<1>4. {"start", "openChosen", "listen"}
        \subseteq DOMAIN OfMost \ Ended
  BY OfMostIs DEF Ended
<1> HIDE DEF F
<1>5. Sound(Choose, OfMost, {}, {}) /\ Sound(LoopThen("close"), OfMost, {}, {})
  BY OfMostIs, ChooseSound, LoopThenSound
<1>6. ASSUME NEW f, basic_dump = f @@ Choose @@ LoopThen("close"),
             DOMAIN f = {"start", "openChosen", "listen"},
             \A x \in DOMAIN f : F(x, f[x])
      PROVE  Sound(basic_dump, OfMost, {}, {})
  <2>1. Sound(f, OfMost, {}, {}) BY <1>6, <1>4 DEF F, Sound
  <2>2. QED BY <2>1, <1>5, <1>6, JoinedSound
<1>7. QED
  BY <1>1, <1>2, <1>3, <1>6 DEF basic_dump

LEMMA basic_dump_exSound == Sound(basic_dump_ex, OfMost, {}, {})
<1> DEFINE F(x, n) == Flows(n, OfMost[x], OfMost, {}, {})
<1>1. F("start", Goto("find"))
  BY OfMostIs, NextFlows DEF Fits, Ended
<1>2. F("openChosen", Try("in", {"devs"}, "listen", "giveUp"))
  BY OfMostIs, TryFlows DEF Fits, Ended, Object
<1>3. F("listen", Drop("devs", "loop"))
  BY OfMostIs, DropFlows DEF Fits, Ended, Object
<1>4. {"start", "openChosen", "listen"}
        \subseteq DOMAIN OfMost \ Ended
  BY OfMostIs DEF Ended
<1> HIDE DEF F
<1>5. Sound(Choose, OfMost, {}, {}) /\ Sound(ReadAll("close"), OfMost, {}, {})
  BY OfMostIs, ChooseSound, ReadAllSound
<1>6. ASSUME NEW f, basic_dump_ex = f @@ Choose @@ ReadAll("close"),
             DOMAIN f = {"start", "openChosen", "listen"},
             \A x \in DOMAIN f : F(x, f[x])
      PROVE  Sound(basic_dump_ex, OfMost, {}, {})
  <2>1. Sound(f, OfMost, {}, {}) BY <1>6, <1>4 DEF F, Sound
  <2>2. QED BY <2>1, <1>5, <1>6, JoinedSound
<1>7. QED
  BY <1>1, <1>2, <1>3, <1>6 DEF basic_dump_ex

LEMMA pktdump_exSound == Sound(pktdump_ex, OfMost, {}, {"devs"})
<1> DEFINE F(x, n) == Flows(n, OfMost[x], OfMost, {}, {"devs"})
<1>1. F("start", Call({}, <<"find", "open">>))
  BY OfMostIs, CallFlows DEF Fits, Ended
<1>2. /\ F("openChosen", Try("in", {"devs"}, "loop", "early"))
      /\ F("open", Try("in", {}, "loop", "early"))
  BY OfMostIs, TryFlows DEF Fits, Ended, Object
<1>3. {"start", "openChosen", "open"}
        \subseteq DOMAIN OfMost \ Ended
  BY OfMostIs DEF Ended
<1> HIDE DEF F
<1>4. /\ Sound(Choose, OfMost, {}, {"devs"})
      /\ Sound(ReadAll("close"), OfMost, {}, {"devs"})
  BY OfMostIs, ChooseSound, ReadAllSound
<1>5. ASSUME NEW f, pktdump_ex = f @@ Choose @@ ReadAll("close"),
             DOMAIN f = {"start", "openChosen", "open"},
             \A x \in DOMAIN f : F(x, f[x])
      PROVE  Sound(pktdump_ex, OfMost, {}, {"devs"})
  <2>1. Sound(f, OfMost, {}, {"devs"}) BY <1>5, <1>3 DEF F, Sound
  <2>2. QED BY <2>1, <1>4, <1>5, JoinedSound
<1>6. QED
  BY <1>1, <1>2, <1>5 DEF pktdump_ex

LEMMA iflistSound == Sound(iflist, OfMost, {}, {})
<1> DEFINE F(x, n) == Flows(n, OfMost[x], OfMost, {}, {})
<1>1. F("start", Try("devs", {}, "ifprint", "early"))
  BY OfMostIs, TryFlows DEF Fits, Ended, Object
<1>2. F("ifprint", Call({"devs"}, <<"free">>))
  BY OfMostIs, CallFlows DEF Fits, Ended
<1>3. F("free", Drop("devs", "done"))
  BY OfMostIs, DropFlows DEF Fits, Ended, Object
<1>4. {"start", "ifprint", "free"} \subseteq DOMAIN OfMost \ Ended BY OfMostIs DEF Ended
<1> HIDE DEF F
<1>5. \A x \in DOMAIN iflist : x \in DOMAIN OfMost \ Ended /\ F(x, iflist[x])
  BY <1>1, <1>2, <1>3, <1>4 DEF iflist
<1>6. QED BY <1>5 DEF F, Sound

LEMMA UDPdumpSound == Sound(UDPdump, OfMost, {}, {"in"})
<1> DEFINE F(x, n) == Flows(n, OfMost[x], OfMost, {}, {"in"})
<1>1. F("start", Goto("find"))
  BY OfMostIs, NextFlows DEF Fits, Ended
<1>2. F("openChosen", Try("in", {"devs"}, "datalink", "giveUp"))
  BY OfMostIs, TryFlows DEF Fits, Ended, Object
<1>3. /\ F("datalink", Call({"in"}, <<"netmask", "giveUp">>))
      /\ F("netmask", Call({"devs"}, <<"compile">>))
      /\ F("compile", Call({"in"}, <<"set", "giveUp">>))
      /\ F("set", Call({"in"}, <<"listen", "giveUp">>))
  BY OfMostIs, CallFlows DEF Fits, Ended
<1>4. F("listen", Drop("devs", "loop"))
  BY OfMostIs, DropFlows DEF Fits, Ended, Object
<1>5. {"start", "openChosen", "datalink", "netmask", "compile", "set", "listen"}
        \subseteq DOMAIN OfMost \ Ended
  BY OfMostIs DEF Ended
<1> HIDE DEF F
<1>6. Sound(Choose, OfMost, {}, {"in"}) /\ Sound(LoopThen("done"), OfMost, {}, {"in"})
  BY OfMostIs, ChooseSound, LoopThenSound
<1>7. ASSUME NEW f, UDPdump = f @@ Choose @@ LoopThen("done"),
             DOMAIN f = {"start", "openChosen", "datalink", "netmask", "compile", "set",
                        "listen"},
             \A x \in DOMAIN f : F(x, f[x])
      PROVE  Sound(UDPdump, OfMost, {}, {"in"})
  <2>1. Sound(f, OfMost, {}, {"in"}) BY <1>7, <1>5 DEF F, Sound
  <2>2. QED BY <2>1, <1>6, <1>7, JoinedSound
<1>8. QED
  BY <1>1, <1>2, <1>3, <1>4, <1>7 DEF UDPdump

LEMMA smp_1Sound == Sound(smp_1, OfMost, {}, {"devs", "in"})
<1> DEFINE F(x, n) == Flows(n, OfMost[x], OfMost, {}, {"devs", "in"})
<1>1. F("start", Goto("find"))
  BY OfMostIs, NextFlows DEF Fits, Ended
<1>2. F("openChosen", Try("in", {"devs"}, "loop", "giveUp"))
  BY OfMostIs, TryFlows DEF Fits, Ended, Object
<1>3. {"start", "openChosen"} \subseteq DOMAIN OfMost \ Ended BY OfMostIs DEF Ended
<1> HIDE DEF F
<1>4. /\ Sound(Choose, OfMost, {}, {"devs", "in"})
      /\ Sound(ReadAll("done"), OfMost, {}, {"devs", "in"})
  BY OfMostIs, ChooseSound, ReadAllSound
<1>5. ASSUME NEW f, smp_1 = f @@ Choose @@ ReadAll("done"),
             DOMAIN f = {"start", "openChosen"},
             \A x \in DOMAIN f : F(x, f[x])
      PROVE  Sound(smp_1, OfMost, {}, {"devs", "in"})
  <2>1. Sound(f, OfMost, {}, {"devs", "in"}) BY <1>5, <1>3 DEF F, Sound
  <2>2. QED BY <2>1, <1>4, <1>5, JoinedSound
<1>6. QED
  BY <1>1, <1>2, <1>5 DEF smp_1

LEMMA savedumpSound == Sound(savedump, OfSavedump, {}, {"dump"})
<1> DEFINE F(x, n) == Flows(n, OfSavedump[x], OfSavedump, {}, {"dump"})
<1>1. /\ F("start", Usage("find"))
      /\ F("loop", Call({"in"}, <<"save", "close">>))
      /\ F("save", Call({"dump"}, <<"loop">>))
  BY OfSavedumpIs, CallFlows DEF Fits, Ended, Usage
<1>2. /\ F("openChosen", Try("in", {"devs"}, "create", "giveUp"))
      /\ F("create", Try("dump", {"in"}, "listen", "early"))
  BY OfSavedumpIs, TryFlows DEF Fits, Ended, Object
<1>3. /\ F("listen", Drop("devs", "loop"))
      /\ F("close", Drop("in", "done"))
  BY OfSavedumpIs, DropFlows DEF Fits, Ended, Object
<1>4. {"start", "openChosen", "create", "listen", "loop", "save", "close"}
        \subseteq DOMAIN OfSavedump \ Ended
  BY OfSavedumpIs DEF Ended
<1> HIDE DEF F
<1>5. Sound(Choose, OfSavedump, {}, {"dump"})
  BY OfSavedumpIs, ChooseSound
<1>6. ASSUME NEW f, savedump = f @@ Choose,
             DOMAIN f = {"start", "openChosen", "create", "listen", "loop", "save", "close"},
             \A x \in DOMAIN f : F(x, f[x])
      PROVE  Sound(savedump, OfSavedump, {}, {"dump"})
  <2>1. Sound(f, OfSavedump, {}, {"dump"}) BY <1>6, <1>4 DEF F, Sound
  <2>2. QED BY <2>1, <1>5, <1>6, JoinedSound
<1>7. QED
  BY <1>1, <1>2, <1>3, <1>6 DEF savedump

LEMMA pcap_filterSound == Sound(pcap_filter, OfFilter, {}, {})
<1> DEFINE F(x, n) == Flows(n, OfFilter[x], OfFilter, {}, {})
<1>1. /\ F("start", Usage("source"))
      /\ F("source", Usage("open"))
      /\ F("filter", Call({}, <<"compile", "output">>))
      /\ F("compile", Call({"in"}, <<"set", "abandon">>))
      /\ F("set", Call({"in"}, <<"output", "abandon">>))
      /\ F("output", Usage("create"))
  BY OfFilterIs, CallFlows DEF Fits, Ended, Usage
<1>2. /\ F("loop", Call({"in"}, <<"loop", "save", "close">>))
      /\ F("save", Call({"dump"}, <<"loop">>))
  BY OfFilterIs, CallFlows DEF Fits, Ended
<1>3. /\ F("open", Try("in", {}, "filter", "early"))
      /\ F("create", Try("dump", {"in"}, "loop", "abandon"))
  BY OfFilterIs, TryFlows DEF Fits, Ended, Object
<1>4. /\ F("close", Drop("in", "closeDump"))
      /\ F("closeDump", Drop("dump", "done"))
      /\ F("abandon", Drop("in", "early"))
  BY OfFilterIs, DropFlows DEF Fits, Ended, Object
<1>5. {"start", "source", "open", "filter", "compile", "set", "output", "create",
      "loop", "save", "close", "closeDump", "abandon"}
        \subseteq DOMAIN OfFilter \ Ended
  BY OfFilterIs DEF Ended
<1> HIDE DEF F
<1>6. \A x \in DOMAIN pcap_filter : x \in DOMAIN OfFilter \ Ended /\ F(x, pcap_filter[x])
  BY <1>1, <1>2, <1>3, <1>4, <1>5 DEF pcap_filter
<1>7. QED BY <1>6 DEF F, Sound

LEMMA pcap_fopenSound == Sound(pcap_fopen, OfFopen, {}, {})
<1> DEFINE F(x, n) == Flows(n, OfFopen[x], OfFopen, {}, {})
<1>1. /\ F("start", Usage("paths"))
      /\ F("paths", Call({}, <<"tshark", "early">>))
      /\ F("loop", Call({"in"}, <<"loop", "close">>))
  BY OfFopenIs, CallFlows DEF Fits, Ended, Usage
<1>2. /\ F("tshark", Try("file", {}, "open", "early"))
      /\ F("open", Try("in", {"file"}, "loop", "early"))
  BY OfFopenIs, TryFlows DEF Fits, Ended, Object
<1>3. /\ F("close", Drop("in", "closeFile"))
      /\ F("closeFile", Drop("file", "done"))
  BY OfFopenIs, DropFlows DEF Fits, Ended, Object
<1>4. {"start", "paths", "tshark", "open", "loop", "close", "closeFile"}
        \subseteq DOMAIN OfFopen \ Ended
  BY OfFopenIs DEF Ended
<1> HIDE DEF F
<1>5. \A x \in DOMAIN pcap_fopen : x \in DOMAIN OfFopen \ Ended /\ F(x, pcap_fopen[x])
  BY <1>1, <1>2, <1>3, <1>4 DEF pcap_fopen
<1>6. QED BY <1>5 DEF F, Sound

LEMMA tcptopSound == Sound(tcptop, OfTcptop, {}, {})
<1> DEFINE F(x, n) == Flows(n, OfTcptop[x], OfTcptop, {}, {})
<1>1. /\ F("start", Usage("open"))
      /\ F("compile", Call({"in"}, <<"set", "early">>))
      /\ F("set", Call({"in"}, <<"mode", "abandon">>))
      /\ F("mode", Call({"in"}, <<"loop", "abandon">>))
  BY OfTcptopIs, CallFlows DEF Fits, Ended, Usage
<1>2. F("open", Try("in", {}, "compile", "early"))
  BY OfTcptopIs, TryFlows DEF Fits, Ended, Object
<1>3. F("abandon", Drop("in", "early"))
  BY OfTcptopIs, DropFlows DEF Fits, Ended, Object
<1>4. {"start", "open", "compile", "set", "mode", "abandon"}
        \subseteq DOMAIN OfTcptop \ Ended
  BY OfTcptopIs DEF Ended
<1> HIDE DEF F
<1>5. Sound(LoopThen("close"), OfTcptop, {}, {})
  BY OfTcptopIs, LoopThenSound
<1>6. ASSUME NEW f, tcptop = f @@ LoopThen("close"),
             DOMAIN f = {"start", "open", "compile", "set", "mode", "abandon"},
             \A x \in DOMAIN f : F(x, f[x])
      PROVE  Sound(tcptop, OfTcptop, {}, {})
  <2>1. Sound(f, OfTcptop, {}, {}) BY <1>6, <1>4 DEF F, Sound
  <2>2. QED BY <2>1, <1>5, <1>6, JoinedSound
<1>7. QED
  BY <1>1, <1>2, <1>3, <1>6 DEF tcptop

LEMMA sendcapSound == Sound(sendcap, OfSendcap, {"queue"}, {})
<1> DEFINE F(x, n) == Flows(n, OfSendcap[x], OfSendcap, {"queue"}, {})
<1>1. /\ F("start", Usage("length"))
      /\ F("source", Call({}, <<"open", "early">>))
      /\ F("datalink", Call({"in", "out"}, <<"alloc">>))
      /\ F("read", Call({"in"}, <<"add", "corrupt", "transmit">>))
      /\ F("add", Call({"queue"}, <<"read", "transmit">>))
      /\ F("transmit", Call({"out", "queue"}, <<"destroy">>))
  BY OfSendcapIs, CallFlows DEF Fits, Ended, Usage
<1>2. /\ F("length", Try("file", {}, "measured", "early"))
      /\ F("open", Try("in", {}, "openOut", "early"))
      /\ F("openOut", Try("out", {}, "datalink", "early"))
      /\ F("alloc", Try("queue", {}, "read", "read"))
  BY OfSendcapIs, TryFlows DEF Fits, Ended, Object
<1>3. /\ F("measured", Drop("file", "source"))
      /\ F("corrupt", Drop("queue", "early"))
      /\ F("destroy", Drop("queue", "close"))
      /\ F("close", Drop("in", "closeOut"))
      /\ F("closeOut", Drop("out", "done"))
  BY OfSendcapIs, DropFlows DEF Fits, Ended, Object
<1>4. {"start", "length", "measured", "source", "open", "openOut", "datalink", "alloc",
      "read", "add", "corrupt", "transmit", "destroy", "close", "closeOut"}
        \subseteq DOMAIN OfSendcap \ Ended
  BY OfSendcapIs DEF Ended
<1> HIDE DEF F
<1>5. \A x \in DOMAIN sendcap : x \in DOMAIN OfSendcap \ Ended /\ F(x, sendcap[x])
  BY <1>1, <1>2, <1>3, <1>4 DEF sendcap
<1>6. QED BY <1>5 DEF F, Sound

LEMMA GetMacAddressSound == Sound(GetMacAddress, OfMac, {}, {})
<1> DEFINE F(x, n) == Flows(n, OfMac[x], OfMac, {}, {})
<1>1. F("start", Goto("names"))
  BY OfMacIs, NextFlows DEF Fits, Ended
<1>2. /\ F("openChosen", Try("adapter", {}, "alloc", "early"))
      /\ F("alloc", Try("oid", {"adapter"}, "request", "abandon"))
  BY OfMacIs, TryFlows DEF Fits, Ended, Object
<1>3. F("request", Call({"adapter", "oid"}, <<"free">>))
  BY OfMacIs, CallFlows DEF Fits, Ended
<1>4. /\ F("free", Drop("oid", "close"))
      /\ F("close", Drop("adapter", "done"))
      /\ F("abandon", Drop("adapter", "early"))
  BY OfMacIs, DropFlows DEF Fits, Ended, Object
<1>5. {"start", "openChosen", "alloc", "request", "free", "close", "abandon"}
        \subseteq DOMAIN OfMac \ Ended
  BY OfMacIs DEF Ended
<1> HIDE DEF F
<1>6. Sound(ChooseName, OfMac, {}, {})
  BY OfMacIs, ChooseNameSound
<1>7. ASSUME NEW f, GetMacAddress = f @@ ChooseName,
             DOMAIN f = {"start", "openChosen", "alloc", "request", "free", "close",
                        "abandon"},
             \A x \in DOMAIN f : F(x, f[x])
      PROVE  Sound(GetMacAddress, OfMac, {}, {})
  <2>1. Sound(f, OfMac, {}, {}) BY <1>7, <1>5 DEF F, Sound
  <2>2. QED BY <2>1, <1>6, <1>7, JoinedSound
<1>8. QED
  BY <1>1, <1>2, <1>3, <1>4, <1>7 DEF GetMacAddress

LEMMA TestPacketSendSound == Sound(TestPacketSend, OfPacket, {}, {})
<1> DEFINE F(x, n) == Flows(n, OfPacket[x], OfPacket, {}, {})
<1>1. /\ F("start", Call({}, <<"names", "open", "early">>))
      /\ F("fill", Call({"packet"}, <<"writes">>))
      /\ F("writes", Call({"adapter"}, <<"send">>))
      /\ F("send", Call({"adapter", "packet"}, <<"free", "early">>))
  BY OfPacketIs, CallFlows DEF Fits, Ended
<1>2. /\ F("openChosen", Try("adapter", {}, "alloc", "early"))
      /\ F("open", Try("adapter", {}, "alloc", "early"))
      /\ F("alloc", Try("packet", {}, "fill", "early"))
  BY OfPacketIs, TryFlows DEF Fits, Ended, Object
<1>3. /\ F("free", Drop("packet", "close"))
      /\ F("close", Drop("adapter", "done"))
  BY OfPacketIs, DropFlows DEF Fits, Ended, Object
<1>4. {"start", "openChosen", "open", "alloc", "fill", "writes", "send", "free",
      "close"}
        \subseteq DOMAIN OfPacket \ Ended
  BY OfPacketIs DEF Ended
<1> HIDE DEF F
<1>5. Sound(ChooseName, OfPacket, {}, {})
  BY OfPacketIs, ChooseNameSound
<1>6. ASSUME NEW f, TestPacketSend = f @@ ChooseName,
             DOMAIN f = {"start", "openChosen", "open", "alloc", "fill", "writes", "send",
                        "free", "close"},
             \A x \in DOMAIN f : F(x, f[x])
      PROVE  Sound(TestPacketSend, OfPacket, {}, {})
  <2>1. Sound(f, OfPacket, {}, {}) BY <1>6, <1>4 DEF F, Sound
  <2>2. QED BY <2>1, <1>5, <1>6, JoinedSound
<1>7. QED
  BY <1>1, <1>2, <1>3, <1>6 DEF TestPacketSend

LEMMA TestPacketCaptureSound == Sound(TestPacketCapture, OfPacket, {}, {})
<1> DEFINE F(x, n) == Flows(n, OfPacket[x], OfPacket, {}, {})
<1>1. F("start", Goto("names"))
  BY OfPacketIs, NextFlows DEF Fits, Ended
<1>2. /\ F("openChosen", Try("adapter", {}, "filter", "early"))
      /\ F("alloc", Try("packet", {}, "fill", "early"))
  BY OfPacketIs, TryFlows DEF Fits, Ended, Object
<1>3. /\ F("filter", Call({"adapter"}, <<"buffer">>))
      /\ F("buffer", Call({"adapter"}, <<"timeout", "early">>))
      /\ F("timeout", Call({"adapter"}, <<"alloc">>))
      /\ F("fill", Call({"packet"}, <<"key">>))
      /\ F("key", Call({}, <<"receive", "stats">>))
      /\ F("receive", Call({"adapter", "packet"}, <<"print", "early">>))
  BY OfPacketIs, CallFlows DEF Fits, Ended
<1>4. /\ F("print", Call({"packet"}, <<"key">>))
      /\ F("stats", Call({"adapter"}, <<"free">>))
  BY OfPacketIs, CallFlows DEF Fits, Ended
<1>5. /\ F("free", Drop("packet", "close"))
      /\ F("close", Drop("adapter", "done"))
  BY OfPacketIs, DropFlows DEF Fits, Ended, Object
<1>6. {"start", "openChosen", "filter", "buffer", "timeout", "alloc", "fill", "key",
      "receive", "print", "stats", "free", "close"}
        \subseteq DOMAIN OfPacket \ Ended
  BY OfPacketIs DEF Ended
<1> HIDE DEF F
<1>7. Sound(ChooseName, OfPacket, {}, {})
  BY OfPacketIs, ChooseNameSound
<1>8. ASSUME NEW f, TestPacketCapture = f @@ ChooseName,
             DOMAIN f = {"start", "openChosen", "filter", "buffer", "timeout", "alloc",
                        "fill", "key", "receive", "print", "stats", "free", "close"},
             \A x \in DOMAIN f : F(x, f[x])
      PROVE  Sound(TestPacketCapture, OfPacket, {}, {})
  <2>1. Sound(f, OfPacket, {}, {}) BY <1>8, <1>6 DEF F, Sound
  <2>2. QED BY <2>1, <1>7, <1>8, JoinedSound
<1>9. QED
  BY <1>1, <1>2, <1>3, <1>4, <1>5, <1>8 DEF TestPacketCapture

\* Programs that change others in some nodes: they leave more behind.
LEMMA misc_sendpackSound == Sound(misc_sendpack, OfMost, {}, {"in"})
<1> DEFINE F(x, n) == Flows(n, OfMost[x], OfMost, {}, {"in"})
<1>1. F("send", Call({"in"}, <<"done", "error">>))
  BY OfMostIs, CallFlows DEF Fits, Ended
<1>2. {"send"} \subseteq DOMAIN OfMost \ Ended BY OfMostIs DEF Ended
<1> HIDE DEF F
<1>3. Sound(sendpack, OfMost, {}, {"in"})
  BY OfMostIs, MoreLeft, sendpackSound
<1>4. ASSUME NEW f, misc_sendpack = f @@ sendpack,
             DOMAIN f = {"send"},
             \A x \in DOMAIN f : F(x, f[x])
      PROVE  Sound(misc_sendpack, OfMost, {}, {"in"})
  <2>1. Sound(f, OfMost, {}, {"in"}) BY <1>4, <1>2 DEF F, Sound
  <2>2. QED BY <2>1, <1>3, <1>4, JoinedSound
<1>5. QED
  BY <1>1, <1>4 DEF misc_sendpack

LEMMA misc_readfileSound == Sound(misc_readfile, OfMost, {}, {"in"})
<1> DEFINE F(x, n) == Flows(n, OfMost[x], OfMost, {}, {"in"})
<1>1. /\ F("start", Usage("source"))
      /\ F("source", Call({}, <<"open", "early">>))
  BY OfMostIs, CallFlows DEF Fits, Ended, Usage
<1>2. {"start", "source"} \subseteq DOMAIN OfMost \ Ended BY OfMostIs DEF Ended
<1> HIDE DEF F
<1>3. Sound(LoopThen("done"), OfMost, {}, {"in"}) /\ Sound(readfile, OfMost, {}, {"in"})
  BY OfMostIs, LoopThenSound, MoreLeft, readfileSound
<1>4. ASSUME NEW f, misc_readfile = f @@ LoopThen("done") @@ readfile,
             DOMAIN f = {"start", "source"},
             \A x \in DOMAIN f : F(x, f[x])
      PROVE  Sound(misc_readfile, OfMost, {}, {"in"})
  <2>1. Sound(f, OfMost, {}, {"in"}) BY <1>4, <1>2 DEF F, Sound
  <2>2. QED BY <2>1, <1>3, <1>4, JoinedSound
<1>5. QED
  BY <1>1, <1>4 DEF misc_readfile

LEMMA misc_readfile_exSound == Sound(misc_readfile_ex, OfMost, {}, {"in"})
<1> DEFINE F(x, n) == Flows(n, OfMost[x], OfMost, {}, {"in"})
<1>1. /\ F("start", Usage("source"))
      /\ F("source", Call({}, <<"open", "early">>))
      /\ F("error", Call({"in"}, <<"done">>))
  BY OfMostIs, CallFlows DEF Fits, Ended, Usage
<1>2. {"start", "source", "error"} \subseteq DOMAIN OfMost \ Ended BY OfMostIs DEF Ended
<1> HIDE DEF F
<1>3. /\ Sound(ReadAll("done"), OfMost, {}, {"in"})
      /\ Sound(readfile_ex, OfMost, {}, {"in"})
  BY OfMostIs, MoreLeft, readfile_exSound, ReadAllSound
<1>4. ASSUME NEW f, misc_readfile_ex = f @@ ReadAll("done") @@ readfile_ex,
             DOMAIN f = {"start", "source", "error"},
             \A x \in DOMAIN f : F(x, f[x])
      PROVE  Sound(misc_readfile_ex, OfMost, {}, {"in"})
  <2>1. Sound(f, OfMost, {}, {"in"}) BY <1>4, <1>2 DEF F, Sound
  <2>2. QED BY <2>1, <1>3, <1>4, JoinedSound
<1>5. QED
  BY <1>1, <1>4 DEF misc_readfile_ex

LEMMA misc_savedumpSound == Sound(misc_savedump, OfSavedump, {}, {"in", "dump"})
<1> DEFINE F(x, n) == Flows(n, OfSavedump[x], OfSavedump, {}, {"in", "dump"})
<1>1. F("loop", Call({"in"}, <<"save", "done">>))
  BY OfSavedumpIs, CallFlows DEF Fits, Ended
<1>2. {"loop"} \subseteq DOMAIN OfSavedump \ Ended BY OfSavedumpIs DEF Ended
<1> HIDE DEF F
<1>3. Sound(savedump, OfSavedump, {}, {"in", "dump"})
  BY OfSavedumpIs, MoreLeft, savedumpSound
<1>4. ASSUME NEW f, misc_savedump = f @@ savedump,
             DOMAIN f = {"loop"},
             \A x \in DOMAIN f : F(x, f[x])
      PROVE  Sound(misc_savedump, OfSavedump, {}, {"in", "dump"})
  <2>1. Sound(f, OfSavedump, {}, {"in", "dump"}) BY <1>4, <1>2 DEF F, Sound
  <2>2. QED BY <2>1, <1>3, <1>4, JoinedSound
<1>5. QED
  BY <1>1, <1>4 DEF misc_savedump

LEMMA remote_pcap_filterSound == Sound(remote_pcap_filter, OfFilter, {}, {"in", "dump"})
<1> DEFINE F(x, n) == Flows(n, OfFilter[x], OfFilter, {}, {"in", "dump"})
<1>1. /\ F("compile", Call({"in"}, <<"set", "early">>))
      /\ F("set", Call({"in"}, <<"output", "early">>))
      /\ F("loop", Call({"in"}, <<"loop", "save", "done">>))
  BY OfFilterIs, CallFlows DEF Fits, Ended
<1>2. F("create", Try("dump", {"in"}, "loop", "early"))
  BY OfFilterIs, TryFlows DEF Fits, Ended, Object
<1>3. {"compile", "set", "create", "loop"}
        \subseteq DOMAIN OfFilter \ Ended
  BY OfFilterIs DEF Ended
<1> HIDE DEF F
<1>4. Sound(pcap_filter, OfFilter, {}, {"in", "dump"})
  BY OfFilterIs, MoreLeft, pcap_filterSound
<1>5. ASSUME NEW f, remote_pcap_filter = f @@ pcap_filter,
             DOMAIN f = {"compile", "set", "create", "loop"},
             \A x \in DOMAIN f : F(x, f[x])
      PROVE  Sound(remote_pcap_filter, OfFilter, {}, {"in", "dump"})
  <2>1. Sound(f, OfFilter, {}, {"in", "dump"}) BY <1>5, <1>3 DEF F, Sound
  <2>2. QED BY <2>1, <1>4, <1>5, JoinedSound
<1>6. QED
  BY <1>1, <1>2, <1>5 DEF remote_pcap_filter

LEMMA remote_iflistSound == Sound(remote_iflist, OfMost, {}, {})
<1> DEFINE F(x, n) == Flows(n, OfMost[x], OfMost, {}, {})
<1>1. F("start", Goto("find"))
  BY OfMostIs, NextFlows DEF Fits, Ended
<1>2. F("find", Try("devs", {}, "ifprint", "early"))
  BY OfMostIs, TryFlows DEF Fits, Ended, Object
<1>3. {"start", "find"} \subseteq DOMAIN OfMost \ Ended BY OfMostIs DEF Ended
<1> HIDE DEF F
<1>4. Sound(iflist, OfMost, {}, {})
  BY OfMostIs, MoreLeft, iflistSound
<1>5. ASSUME NEW f, remote_iflist = f @@ iflist,
             DOMAIN f = {"start", "find"},
             \A x \in DOMAIN f : F(x, f[x])
      PROVE  Sound(remote_iflist, OfMost, {}, {})
  <2>1. Sound(f, OfMost, {}, {}) BY <1>5, <1>3 DEF F, Sound
  <2>2. QED BY <2>1, <1>4, <1>5, JoinedSound
<1>6. iflist["start"] = Try("devs", {}, "ifprint", "early") BY DEF iflist
<1>7. QED
  BY <1>1, <1>2, <1>6, <1>5 DEF remote_iflist

LEMMA OthersSound ==
  /\ Sound(misc_basic_dump, OfMost, {}, {"in"})
  /\ Sound(misc_basic_dump_ex, OfMost, {}, {"in"})
  /\ Sound(remote_UDPdump, OfMost, {}, {"in"})
  /\ Sound(remote_pktdump_ex, OfMost, {}, {"devs", "in"})
<1>1. /\ Sound(LoopThen("done"), OfMost, {}, {"in"})
      /\ Sound(ReadAll("done"), OfMost, {}, {"in"})
      /\ Sound(ReadAll("done"), OfMost, {}, {"devs", "in"})
  BY OfMostIs, LoopThenSound, ReadAllSound
<1>2. /\ Sound(basic_dump, OfMost, {}, {"in"}) /\ Sound(basic_dump_ex, OfMost, {}, {"in"})
      /\ Sound(pktdump_ex, OfMost, {}, {"devs", "in"})
  BY MoreLeft, basic_dumpSound, basic_dump_exSound, pktdump_exSound
<1>3. QED
  BY <1>1, <1>2, JoinedSound, UDPdumpSound
  DEF misc_basic_dump, misc_basic_dump_ex, remote_UDPdump, remote_pktdump_ex

\* The bridge.
LEMMA ThreadFlows ==
  ASSUME NEW S, NEW K, NEW C, NEW L, NEW t, NEW l, "sleep" \in DOMAIN K, Fits(S, l, K, C, L)
  PROVE  /\ Flows(Signal(l), S, K, C, L) /\ Flows(Terminate(t, l), S, K, C, L)
         /\ Flows(Sleep, S, K, C, L)
         /\ \A m : Fits(S, m, K, C, L) => Flows(Start(t, l, m), S, K, C, L)
BY DEF Flows, After, Acquires, Signal, Terminate, Sleep, Start, Node

LEMMA InitialiseFlows ==
  ASSUME NEW S, NEW K, NEW C, NEW L, NEW l, Fits(S \cup {"section"}, l, K, C, L)
  PROVE  Flows(Initialise(l), S, K, C, L)
BY DEF Flows, After, Acquires, Initialise, Node, Object

LEMMA StartForwardersSound == Sound(StartForwarders, OfBridge, {"devs"}, {"in", "out", "section"})
<1> DEFINE F(x, n) == Flows(n, OfBridge[x], OfBridge, {"devs"}, {"in", "out", "section"})
<1>1. /\ F("freeList", Drop("devs", "section")) /\ F("abandon", Drop("in", "closeOut"))
      /\ F("closeOut", Drop("out", "giveUp"))
  BY OfBridgeIs, DropFlows DEF Fits, Ended, Object
<1>2. F("section", Initialise("startFirst")) BY OfBridgeIs, InitialiseFlows DEF Fits, Ended
<1>3. /\ F("startFirst", Start("first", "startSecond", "abandon"))
      /\ F("startSecond", Start("second", "signal", "terminate"))
  BY OfBridgeIs, ThreadFlows DEF Fits, Ended
<1>4. /\ F("terminate", Terminate("first", "abandon")) /\ F("signal", Signal("bridging"))
  BY OfBridgeIs, ThreadFlows DEF Fits, Ended
<1>5. F("bridging", Call({"devs"}, <<"sleep">>)) BY OfBridgeIs, CallFlows DEF Fits, Ended
<1>6. F("sleep", Sleep)
  <2>1. Fits(OfBridge["sleep"], "sleep", OfBridge, {"devs"}, {"in", "out", "section"})
    BY OfBridgeIs DEF Fits, Ended
  <2>2. QED BY <2>1, OfBridgeIs, ThreadFlows
<1>7. StartLabels \subseteq DOMAIN OfBridge \ Ended BY OfBridgeIs DEF StartLabels, Ended
<1> HIDE DEF F
<1>8. \A x \in StartLabels : F(x, StartForwarders[x])
  BY <1>1, <1>2, <1>3, <1>4, <1>5, <1>6 DEF StartForwarders, StartLabels
<1>9. QED BY <1>7, <1>8, StartForwardersNodes DEF F, Sound

LEMMA OpenAdaptersSound == Sound(OpenAdapters, OfBridge, {"devs"}, {"in", "out", "section"})
<1> DEFINE F(x, n) == Flows(n, OfBridge[x], OfBridge, {"devs"}, {"in", "out", "section"})
<1>1. /\ F("start", Goto("find")) /\ F("first", Ask(1, "range")) /\ F("second", Ask(2, "range2"))
  BY OfBridgeIs, NextFlows DEF Fits, Ended
<1>2. /\ F("range", Test("outside1", "giveUp", "second"))
      /\ F("range2", Test("outside2", "giveUp", "same"))
      /\ F("same", Test("same", "giveUp", "openChosen"))
  BY OfBridgeIs, NextFlows DEF Fits, Ended
<1>3. /\ F("openChosen", Try("in", {"devs"}, "netmask1", "giveUp"))
      /\ F("openSecond", Try("out", {"devs"}, "netmask2", "giveUp"))
  BY OfBridgeIs, TryFlows DEF Fits, Ended, Object
<1>4. /\ F("ask", Call({}, <<"first">>)) /\ F("netmask1", Call({"devs"}, <<"openSecond">>))
      /\ F("netmask2", Call({"devs"}, <<"compile1">>))
  BY OfBridgeIs, CallFlows DEF Fits, Ended
<1>5. /\ F("compile1", Call({"in"}, <<"set1", "abandon">>))
      /\ F("set1", Call({"in"}, <<"compile2", "abandon">>))
      /\ F("compile2", Call({"out"}, <<"set2", "abandon">>))
      /\ F("set2", Call({"out"}, <<"freeList", "abandon">>))
  BY OfBridgeIs, CallFlows DEF Fits, Ended
<1>6. OpenLabels \subseteq DOMAIN OfBridge \ Ended BY OfBridgeIs DEF OpenLabels, Ended
<1> HIDE DEF F
<1>7. Sound(Choose, OfBridge, {"devs"}, {"in", "out", "section"}) BY OfBridgeIs, ChooseSound
<1>8. ASSUME NEW f, OpenAdapters = f @@ Choose, DOMAIN f = OpenLabels,
             \A x \in DOMAIN f : F(x, f[x])
      PROVE  Sound(OpenAdapters, OfBridge, {"devs"}, {"in", "out", "section"})
  <2>1. Sound(f, OfBridge, {"devs"}, {"in", "out", "section"}) BY <1>6, <1>8 DEF F, Sound
  <2>2. QED BY <2>1, <1>7, <1>8, JoinedSound
<1>9. QED BY <1>1, <1>2, <1>3, <1>4, <1>5, <1>8 DEF OpenAdapters, OpenLabels

LEMMA UserBridgeSound == Sound(UserBridge, OfBridge, {"devs"}, {"in", "out", "section"})
BY StartForwardersSound, OpenAdaptersSound, JoinedSound DEF UserBridge

\* All programs.
LEMMA ProgramSound ==
  ASSUME NEW p \in DOMAIN Program
  PROVE  Sound(Program[p], Owns(p), CarelessOf(p), LeftOf(p))
<1> DEFINE S(p_) == Sound(Program[p_], Owns(p_), CarelessOf(p_), LeftOf(p_))
<1>1. /\ S("readfile") /\ S("readfile_ex") /\ S("sendpack") /\ S("basic_dump")
      /\ S("basic_dump_ex") /\ S("pktdump_ex") /\ S("iflist") /\ S("UDPdump")
  BY readfileSound, readfile_exSound, sendpackSound, basic_dumpSound, basic_dump_exSound,
     pktdump_exSound, iflistSound, UDPdumpSound
  DEF Program, Owns, CarelessOf, LeftOf, Entry, Careless, Left
<1>2. /\ S("savedump") /\ S("pcap_filter") /\ S("pcap_fopen") /\ S("smp_1") /\ S("sendcap")
      /\ S("tcptop") /\ S("GetMacAddress") /\ S("TestPacketSend") /\ S("TestPacketCapture")
  BY savedumpSound, pcap_filterSound, pcap_fopenSound, smp_1Sound, sendcapSound,
     tcptopSound, GetMacAddressSound, TestPacketSendSound, TestPacketCaptureSound
  DEF Program, Owns, CarelessOf, LeftOf, Entry, Careless, Left
<1>3. /\ S("misc_readfile") /\ S("misc_readfile_ex") /\ S("misc_sendpack")
      /\ S("misc_basic_dump") /\ S("misc_basic_dump_ex") /\ S("misc_savedump")
  BY misc_readfileSound, misc_readfile_exSound, misc_sendpackSound, OthersSound,
     misc_savedumpSound
  DEF Program, Owns, CarelessOf, LeftOf, Entry, Careless, Left
<1>4. /\ S("remote_UDPdump") /\ S("remote_pktdump_ex") /\ S("remote_pcap_filter")
      /\ S("remote_iflist") /\ S("UserBridge")
  BY OthersSound, remote_pcap_filterSound, remote_iflistSound, UserBridgeSound
  DEF Program, Owns, CarelessOf, LeftOf, Entry, Careless, Left
<1> HIDE DEF S
<1>5. S(p) BY <1>1, <1>2, <1>3, <1>4 DEF Program
<1>6. QED BY <1>5 DEF S

-----------------------------------------------------------------------------
(* The threads of the bridge. *)

\* A node that neither starts nor ends a thread, nor installs the handler.
Alone(n) == n.do \notin {"start", "terminate", "signal"}

LEMMA AloneNode ==
  /\ \A needs, to : Alone(Call(needs, to))
  /\ \A o, needs, l, m : Alone(Try(o, needs, l, m))
  /\ \A o, l : Alone(Drop(o, l)) /\ Alone(Ask(o, l))
  /\ \A o, l, m : Alone(Test(o, l, m))
  /\ \A l : Alone(Goto(l)) /\ Alone(Initialise(l))
  /\ Alone(Sleep)
BY DEF Alone, Call, Try, Drop, Ask, Test, Goto, Initialise, Sleep, Node

LEMMA BridgeThreads ==
  /\ UserBridge["startFirst"] = Start("first", "startSecond", "abandon")
  /\ UserBridge["startSecond"] = Start("second", "signal", "terminate")
  /\ UserBridge["terminate"] = Terminate("first", "abandon")
  /\ UserBridge["signal"] = Signal("bridging")
  /\ UserBridge["bridging"] = Call({"devs"}, <<"sleep">>)
  /\ UserBridge["sleep"] = Sleep
  /\ \A x \in DOMAIN UserBridge \ {"startFirst", "startSecond", "terminate", "signal"} :
       Alone(UserBridge[x])
<1>1. \A x \in DOMAIN Choose : Alone(Choose[x]) BY AloneNode DEF Choose
<1>2. \A x \in DOMAIN OpenAdapters : Alone(OpenAdapters[x])
  <2>1. ASSUME NEW f, OpenAdapters = f @@ Choose, \A x \in DOMAIN f : Alone(f[x])
        PROVE  \A x \in DOMAIN OpenAdapters : Alone(OpenAdapters[x])
    BY <1>1, <2>1 DEF @@
  <2>2. QED BY <2>1, AloneNode DEF OpenAdapters
<1>3. \A x \in DOMAIN StartForwarders :
        x \in {"startFirst", "startSecond", "terminate", "signal"} \/ Alone(StartForwarders[x])
  BY AloneNode DEF StartForwarders
<1>4. /\ StartForwarders["startFirst"] = Start("first", "startSecond", "abandon")
      /\ StartForwarders["startSecond"] = Start("second", "signal", "terminate")
      /\ StartForwarders["terminate"] = Terminate("first", "abandon")
      /\ StartForwarders["signal"] = Signal("bridging")
      /\ StartForwarders["bridging"] = Call({"devs"}, <<"sleep">>)
      /\ StartForwarders["sleep"] = Sleep
  BY DEF StartForwarders
<1>5. StartLabels \subseteq DOMAIN StartForwarders BY StartForwardersNodes
<1>6. /\ DOMAIN UserBridge = DOMAIN StartForwarders \cup DOMAIN OpenAdapters
      /\ \A x \in DOMAIN StartForwarders : UserBridge[x] = StartForwarders[x]
      /\ \A x \in DOMAIN OpenAdapters : x \notin DOMAIN StartForwarders =>
           UserBridge[x] = OpenAdapters[x]
  BY Joined DEF UserBridge
<1>7. {"startFirst", "startSecond", "terminate", "signal", "bridging", "sleep"} \subseteq StartLabels
  BY DEF StartLabels
<1>8. QED BY <1>2, <1>3, <1>4, <1>5, <1>6, <1>7

\* A forwarder needs the two handles and the section.
LEMMA ForwarderNeeds ==
  ASSUME NEW a, NEW b, NEW x \in DOMAIN CaptureAndForwardThread(a, b)
  PROVE  CaptureAndForwardThread(a, b)[x].needs \subseteq {a, b, "section"}
<1> DEFINE N(n) == n.needs \subseteq {a, b, "section"}
<1>1. \A l, m, c, to : /\ N(Test(c, l, m)) /\ N(Call({a}, to)) /\ N(Call({b}, to))
                       /\ N(Enter(l)) /\ N(Leave(l)) /\ N(Report({}, l))
                       /\ N(Report({a}, l)) /\ N(Report({b}, l))
  BY DEF Test, Call, Enter, Leave, Report, Node
<1> HIDE DEF N
<1>2. N(CaptureAndForwardThread(a, b)[x]) BY <1>1 DEF CaptureAndForwardThread
<1>3. QED BY <1>2 DEF N

-----------------------------------------------------------------------------
(* What main holds, and where it is while other threads run. *)

Held == {o \in Object : object[o] = "held"}

\* Main holds what its label says.
Holding == Fits(Held, pc["main"], Owns(prog), CarelessOf(prog), LeftOf(prog))

\* Where main is while a forwarder runs.
While(f) ==
  {"signal", "bridging", "sleep"} \cup
    (IF f = "first" THEN {"startSecond", "terminate"} ELSE {})

Forwarding ==
  \A f \in Forwarder :
    pc[f] \in Ended \cup {"off"} \/ (prog = "UserBridge" /\ pc["main"] \in While(f))

\* The handler is installed, and runs, when main has started both.
Sleeping == prog = "UserBridge" /\ pc["main"] \in {"bridging", "sleep"}

Catching ==
  /\ catches => Sleeping \/ pc["main"] \in Ended
  /\ pc["ctrlc"] \in Ended \cup {"off"} \/ Sleeping

HInv == Holding /\ Forwarding /\ Catching

LEMMA FitsKept ==
  ASSUME NEW S, NEW H, NEW l, NEW K, NEW C, NEW L, S \ C \subseteq H, H \subseteq S \cup L,
         Fits(S, l, K, C, L)
  PROVE  Fits(H, l, K, C, L)
BY DEF Fits

\* Main at a node.
LEMMA MainHolds ==
  ASSUME IInv, Holding, Running("main")
  PROVE  \E S : /\ S \ CarelessOf(prog) \subseteq Held /\ Held \subseteq S \cup LeftOf(prog)
                /\ Flows(At("main"), S, Owns(prog), CarelessOf(prog), LeftOf(prog))
                /\ S = Owns(prog)[pc["main"]] /\ pc["main"] \notin Ended
<1>1. Code("main") = Program[prog] BY CodeIs
<1>2. pc["main"] \in DOMAIN Program[prog] /\ At("main") = Program[prog][pc["main"]]
  BY <1>1 DEF Running, At
<1>3. Sound(Program[prog], Owns(prog), CarelessOf(prog), LeftOf(prog))
  BY ProgramSound DEF IInv, Typed
<1>4. /\ pc["main"] \in DOMAIN Owns(prog) \ Ended
      /\ Flows(At("main"), Owns(prog)[pc["main"]], Owns(prog), CarelessOf(prog), LeftOf(prog))
  BY <1>2, <1>3 DEF Sound
<1>5. pc["main"] # "early" /\ pc["main"] # "done" BY <1>4 DEF Ended
<1>6. QED BY <1>4, <1>5 DEF Holding, Fits

LEMMA HoldingGoes ==
  ASSUME IInv, Holding, Running("main"), NEW i \in DOMAIN At("main").to,
         To("main", At("main").to[i]) \/ pc'["main"] = At("main").to[i],
         prog' = prog, Held' = After(At("main"), i, Held)
  PROVE  Holding'
<1>1. pc'["main"] = At("main").to[i]
  <2>1. "main" \in Thread BY DEF Thread
  <2>2. QED BY <2>1, Goes
<1>2. PICK S : /\ S \ CarelessOf(prog) \subseteq Held /\ Held \subseteq S \cup LeftOf(prog)
               /\ Flows(At("main"), S, Owns(prog), CarelessOf(prog), LeftOf(prog))
  BY MainHolds
<1>3. Fits(After(At("main"), i, S), At("main").to[i], Owns(prog), CarelessOf(prog), LeftOf(prog))
  BY <1>2 DEF Flows
<1>4. /\ After(At("main"), i, S) \ CarelessOf(prog) \subseteq After(At("main"), i, Held)
      /\ After(At("main"), i, Held) \subseteq After(At("main"), i, S) \cup LeftOf(prog)
  BY <1>2 DEF After
<1>5. Fits(After(At("main"), i, Held), At("main").to[i], Owns(prog), CarelessOf(prog), LeftOf(prog))
  BY <1>3, <1>4, FitsKept
<1>6. QED BY <1>1, <1>5 DEF Holding

\* Main goes on to a label of its node, and no thread starts.
LEMMA MainGoes ==
  ASSUME IInv, HInv, Running("main"), NEW i \in DOMAIN At("main").to,
         To("main", At("main").to[i]), At("main").do \notin {"terminate", "signal"},
         prog' = prog, catches' = catches, Held' = After(At("main"), i, Held)
  PROVE  HInv'
<1>1. "main" \in Thread /\ "ctrlc" \in Thread \ {"main"} /\ Forwarder \subseteq Thread \ {"main"}
  BY DEF Thread, Forwarder
<1>2. Holding' BY HoldingGoes DEF HInv
<1>3. pc'["main"] = At("main").to[i] BY <1>1, Goes
<1>4. \A t \in Thread \ {"main"} : pc'[t] = pc[t] \/ pc'[t] \in Ended BY <1>1, Goes
<1>5. ASSUME prog = "UserBridge"
      PROVE  pc["main"] \in DOMAIN UserBridge /\ At("main") = UserBridge[pc["main"]]
  BY <1>5, CodeIs, TheBridge DEF Running, At
<1>6. \A l, m, o, n : /\ Terminate(o, l).do = "terminate" /\ Signal(l).do = "signal"
                      /\ DOMAIN Sleep.to = {}
                      /\ Start(o, l, m).to = <<l, m>> /\ Call(n, <<l>>).to = <<l>>
  BY DEF Terminate, Signal, Sleep, Start, Call, Node
<1>7. ASSUME prog = "UserBridge", pc["main"] \in {"bridging", "sleep"}
      PROVE  At("main").to[i] = "sleep"
  BY <1>5, <1>6, <1>7, BridgeThreads
<1>8. ASSUME NEW f \in Forwarder, prog = "UserBridge", pc["main"] \in While(f)
      PROVE  At("main").to[i] \in While(f)
  <2>1. CASE pc["main"] \in {"bridging", "sleep"} BY <2>1, <1>7, <1>8 DEF While
  <2>2. CASE pc["main"] \in {"signal", "terminate"}
    BY <2>2, <1>5, <1>6, <1>8, BridgeThreads
  <2>3. CASE pc["main"] = "startSecond"
    <3>1. At("main").to = <<"signal", "terminate">>
      BY <2>3, <1>5, <1>6, <1>8, BridgeThreads
    <3>2. f = "first" BY <2>3, <1>8 DEF While
    <3>3. QED BY <3>1, <3>2 DEF While
  <2>4. QED BY <2>1, <2>2, <2>3, <1>8 DEF While
<1>9. Forwarding'
  <2>1. SUFFICES ASSUME NEW f \in Forwarder, pc'[f] \notin Ended \cup {"off"}
                 PROVE  prog = "UserBridge" /\ pc'["main"] \in While(f)
    BY DEF Forwarding
  <2>2. pc[f] \notin Ended \cup {"off"} BY <2>1, <1>1, <1>4
  <2>3. prog = "UserBridge" /\ pc["main"] \in While(f) BY <2>2 DEF HInv, Forwarding
  <2>4. QED BY <2>3, <1>3, <1>8
<1>10. Catching'
  <2>1. pc["main"] \notin Ended BY MainHolds DEF HInv
  <2>2. Sleeping => Sleeping' BY <1>3, <1>7 DEF Sleeping
  <2>3. QED BY <2>1, <2>2, <1>1, <1>4 DEF HInv, Catching
<1>11. QED BY <1>2, <1>9, <1>10 DEF HInv

\* Another thread goes on.
LEMMA OtherGoes ==
  ASSUME IInv, HInv, NEW t \in Thread \ {"main"}, Running(t), NEW i \in DOMAIN At(t).to,
         To(t, At(t).to[i]), prog' = prog, catches' = catches, object' = object
  PROVE  HInv'
<1>1. "main" \in Thread /\ Forwarder \subseteq Thread \ {"main"} /\ "ctrlc" \in Thread
  BY DEF Thread, Forwarder
<1>2. Held' = Held BY DEF Held
<1>3. DOMAIN pc = Thread BY DEF IInv, Placed
<1>4. pc[t] \notin Ended \cup {"off"}
  <2>1. CASE t \in Forwarder
    <3>1. pc[t] \in ForwarderLabels BY <2>1, CodeIs, ForwarderGraph DEF Running, Forwarder
    <3>2. QED BY <3>1 DEF ForwarderLabels, Locked, Ended
  <2>2. CASE t = "ctrlc" BY <2>2, CodeIs DEF Running, ctrlc_handler, Ended
  <2>3. QED BY <2>1, <2>2 DEF Thread, Forwarder
<1>5. CASE At(t).to[i] \notin Ended
  <2>1. pc' = [pc EXCEPT ![t] = At(t).to[i]] BY <1>5 DEF To
  <2>2. \A u \in Thread : u # t => pc'[u] = pc[u] BY <2>1, <1>3
  <2>3. pc'["main"] = pc["main"] BY <2>2, <1>1
  <2>4. Holding' BY <1>2, <2>3 DEF HInv, Holding
  <2>5. Forwarding' BY <1>1, <1>4, <2>2, <2>3 DEF HInv, Forwarding
  <2>6. Catching' BY <1>1, <1>4, <2>2, <2>3 DEF HInv, Catching, Sleeping
  <2>7. QED BY <2>4, <2>5, <2>6 DEF HInv
<1>6. CASE At(t).to[i] \in Ended
  <2>1. t = "ctrlc" /\ At(t).to[i] = "done"
    <3>1. CASE t \in Forwarder
      <4>1. ForwarderNode(At(t), pc[t], ForwarderLabels) BY <3>1, ForwarderAt
      <4>2. At(t).to[i] \in ForwarderLabels \cup {"returned"} BY <4>1 DEF ForwarderNode
      <4>3. QED BY <4>2, <1>6 DEF ForwarderLabels, Locked, Ended
    <3>2. CASE t = "ctrlc" BY <3>2, <1>6, CtrlcAt DEF Ended
    <3>3. QED BY <3>1, <3>2 DEF Thread, Forwarder
  <2>2. pc' = [u \in Thread |-> "done"] BY <2>1, <1>6 DEF To
  <2>3. Sleeping BY <2>1, <1>4 DEF HInv, Catching
  <2>4. Held \subseteq LeftOf(prog)
    <3>1. /\ Owns("UserBridge") = OfBridge /\ LeftOf("UserBridge") = {"in", "out", "section"}
      BY DEF Owns, LeftOf, Entry, Left
    <3>2. OfBridge[pc["main"]] = {"in", "out", "section"} BY <2>3, OfBridgeIs DEF Sleeping
    <3>3. pc["main"] # "early" /\ pc["main"] # "done" BY <2>3 DEF Sleeping
    <3>4. QED BY <3>1, <3>2, <3>3, <2>3 DEF HInv, Holding, Fits, Sleeping
  <2>5. Holding' BY <1>1, <1>2, <2>2, <2>4 DEF Holding, Fits
  <2>6. Forwarding' /\ Catching'
    BY <1>1, <2>2 DEF Forwarding, Catching, Ended
  <2>7. QED BY <2>5, <2>6 DEF HInv
<1>7. QED BY <1>5, <1>6

-----------------------------------------------------------------------------
(* The actions. *)

LEMMA HeldChanges ==
  ASSUME IInv, NEW o \in Object
  PROVE  /\ object' = [object EXCEPT ![o] = "held"] => Held' = Held \cup {o}
         /\ object' = [object EXCEPT ![o] = "gone"] => Held' = Held \ {o}
<1>1. DOMAIN object = Object BY DEF IInv, Typed
<1>2. QED BY <1>1 DEF Held

LEMMA HeldStays == ASSUME object' = object PROVE Held' = Held
BY DEF Held

LEMMA MainArg ==
  ASSUME IInv, HInv, Running("main"), At("main").do \in {"try", "init", "drop"}
  PROVE  At("main").arg \in Object
<1>1. PICK S : Flows(At("main"), S, Owns(prog), CarelessOf(prog), LeftOf(prog))
  BY MainHolds DEF HInv
<1>2. QED BY <1>1 DEF Flows, Acquires

LEMMA AcquireHolds == ASSUME IInv, HInv, NEW t \in Thread, Acquire(t) PROVE HInv'
<1>1. Running(t) /\ At(t).do = "try" /\ prog' = prog /\ catches' = catches
  BY DEF Acquire, Does
<1>2. t = "main" BY <1>1, OnlyMain
<1>3. 1 \in DOMAIN At("main").to /\ 2 \in DOMAIN At("main").to BY <1>1, <1>2, MainNext
<1>4. PICK o \in Object : o = At("main").arg BY <1>1, <1>2, MainArg
<1>5. \/ object' = [object EXCEPT ![o] = "held"] /\ To("main", At("main").to[1])
      \/ object' = object /\ To("main", At("main").to[2])
  BY <1>2, <1>4 DEF Acquire
<1>6. CASE object' = [object EXCEPT ![o] = "held"] /\ To("main", At("main").to[1])
  <2>1. Held' = After(At("main"), 1, Held)
    BY <1>1, <1>2, <1>4, <1>6, HeldChanges DEF After, Acquires
  <2>2. QED BY <1>1, <1>2, <1>3, <1>6, <2>1, MainGoes
<1>7. CASE object' = object /\ To("main", At("main").to[2])
  <2>1. Held' = After(At("main"), 2, Held) BY <1>1, <1>2, <1>7, HeldStays DEF After, Acquires
  <2>2. QED BY <1>1, <1>2, <1>3, <1>7, <2>1, MainGoes
<1>8. QED BY <1>5, <1>6, <1>7

LEMMA InitializeHolds ==
  ASSUME IInv, HInv, NEW t \in Thread, InitializeCriticalSection(t) PROVE HInv'
<1>1. /\ Running(t) /\ At(t).do = "init" /\ prog' = prog /\ catches' = catches
      /\ object' = [object EXCEPT !["section"] = "held"] /\ To(t, At(t).to[1])
  BY DEF InitializeCriticalSection, Does
<1>2. t = "main" BY <1>1, OnlyMain
<1>3. 1 \in DOMAIN At("main").to BY <1>1, <1>2, MainNext
<1>4. At("main").arg = "section"
  <2>1. PICK S : Flows(At("main"), S, Owns(prog), CarelessOf(prog), LeftOf(prog))
    BY <1>1, <1>2, MainHolds DEF HInv
  <2>2. QED BY <1>1, <1>2, <2>1 DEF Flows
<1>5. "section" \in Object BY DEF Object
<1>6. Held' = After(At("main"), 1, Held)
  BY <1>1, <1>2, <1>4, <1>5, HeldChanges DEF After, Acquires
<1>7. QED BY <1>1, <1>2, <1>3, <1>6, MainGoes

LEMMA ReleaseHolds == ASSUME IInv, HInv, NEW t \in Thread, Release(t) PROVE HInv'
<1>1. Running(t) /\ At(t).do = "drop" /\ prog' = prog /\ catches' = catches /\ To(t, At(t).to[1])
  BY DEF Release, Does
<1>2. t = "main" BY <1>1, OnlyMain
<1>3. 1 \in DOMAIN At("main").to BY <1>1, <1>2, MainNext
<1>4. PICK o \in Object : o = At("main").arg BY <1>1, <1>2, MainArg
<1>5. object' = [object EXCEPT ![o] = "gone"] BY <1>2, <1>4 DEF Release
<1>6. Held' = After(At("main"), 1, Held)
  BY <1>1, <1>2, <1>4, <1>5, HeldChanges DEF After, Acquires
<1>7. QED BY <1>1, <1>2, <1>3, <1>6, MainGoes

\* A thread goes on and changes no object.
LEMMA PlainHolds ==
  ASSUME IInv, HInv, NEW t \in Thread, Running(t), NEW i \in DOMAIN At(t).to,
         To(t, At(t).to[i]), prog' = prog, catches' = catches, object' = object,
         At(t).do \in {"call", "print", "ask", "test", "enter", "leave", "kill"}
           \/ (At(t).do = "start" /\ i = 2)
  PROVE  HInv'
<1>1. CASE t = "main"
  <2>1. Held' = After(At("main"), i, Held) BY <1>1, HeldStays DEF After, Acquires
  <2>2. QED BY <1>1, <2>1, MainGoes
<1>2. CASE t # "main" BY <1>2, OtherGoes
<1>3. QED BY <1>1, <1>2

LEMMA UseHolds == ASSUME IInv, HInv, NEW t \in Thread, Use(t) PROVE HInv'
<1>1. /\ Running(t) /\ At(t).do \in {"call", "print"}
      /\ prog' = prog /\ catches' = catches /\ object' = object
  BY DEF Use, Does
<1>2. PICK i \in DOMAIN At(t).to : To(t, At(t).to[i]) BY DEF Use
<1>3. QED BY <1>1, <1>2, PlainHolds

LEMMA ChoiceHolds == ASSUME IInv, HInv, NEW t \in Thread, Choice(t) PROVE HInv'
<1>1. /\ Running(t) /\ At(t).do = "ask" /\ prog' = prog /\ catches' = catches
      /\ object' = object /\ To(t, At(t).to[1])
  BY DEF Choice, Does
<1>2. t = "main" BY <1>1, OnlyMain
<1>3. 1 \in DOMAIN At(t).to BY <1>1, <1>2, MainNext
<1>4. QED BY <1>1, <1>3, PlainHolds

LEMMA DecideHolds == ASSUME IInv, HInv, NEW t \in Thread, Decide(t) PROVE HInv'
<1>1. /\ Running(t) /\ At(t).do = "test" /\ prog' = prog /\ catches' = catches
      /\ object' = object
  BY DEF Decide, Does
<1>2. PICK i : i = IF Holds(At(t).arg) THEN 1 ELSE 2 OBVIOUS
<1>3. To(t, At(t).to[i]) BY <1>2 DEF Decide
<1>4. i \in DOMAIN At(t).to
  <2>1. CASE t = "main" BY <1>1, <1>2, <2>1, MainAt DEF IInv, MainNode
  <2>2. CASE t \in Forwarder BY <1>1, <1>2, <2>2, ForwarderAt DEF ForwarderNode
  <2>3. CASE t = "ctrlc" BY <1>1, <2>3, CtrlcAt
  <2>4. QED BY <2>1, <2>2, <2>3 DEF Thread, Forwarder
<1>5. QED BY <1>1, <1>3, <1>4, PlainHolds

\* The bridge, where it starts a thread, ends one, or installs the handler.
LEMMA BridgeAt ==
  ASSUME IInv, HInv, Running("main"), At("main").do \in {"start", "terminate", "signal"}
  PROVE  /\ prog = "UserBridge" /\ At("main") = UserBridge[pc["main"]]
         /\ At("main").do = "start" =>
              \/ /\ pc["main"] = "startFirst" /\ At("main").arg = "first"
                 /\ At("main").to = <<"startSecond", "abandon">>
              \/ /\ pc["main"] = "startSecond" /\ At("main").arg = "second"
                 /\ At("main").to = <<"signal", "terminate">>
         /\ At("main").do = "terminate" =>
              /\ pc["main"] = "terminate" /\ At("main").arg = "first"
              /\ At("main").to = <<"abandon">>
         /\ At("main").do = "signal" =>
              pc["main"] = "signal" /\ At("main").to = <<"bridging">>
<1>1. "sleep" \in DOMAIN Owns(prog) BY MainHolds DEF HInv, Flows
<1>2. prog = "UserBridge"
  <2>1. /\ "sleep" \notin DOMAIN OfMost /\ "sleep" \notin DOMAIN OfSavedump
        /\ "sleep" \notin DOMAIN OfFilter /\ "sleep" \notin DOMAIN OfFopen
        /\ "sleep" \notin DOMAIN OfTcptop /\ "sleep" \notin DOMAIN OfSendcap
        /\ "sleep" \notin DOMAIN OfMac /\ "sleep" \notin DOMAIN OfPacket
    BY OfMostIs, OfSavedumpIs, OfFilterIs, OfFopenIs, OfTcptopIs, OfSendcapIs, OfMacIs,
       OfPacketIs
  <2>2. QED BY <1>1, <2>1 DEF Owns
<1>3. pc["main"] \in DOMAIN UserBridge /\ At("main") = UserBridge[pc["main"]]
  BY <1>2, CodeIs, TheBridge DEF Running, At
<1>4. pc["main"] \in {"startFirst", "startSecond", "terminate", "signal"}
  BY <1>3, BridgeThreads DEF Alone
<1>5. /\ \A f, l, m : /\ Start(f, l, m).do = "start" /\ Start(f, l, m).arg = f
                      /\ Start(f, l, m).to = <<l, m>>
      /\ \A f, l : /\ Terminate(f, l).do = "terminate" /\ Terminate(f, l).arg = f
                   /\ Terminate(f, l).to = <<l>>
      /\ \A l : Signal(l).do = "signal" /\ Signal(l).to = <<l>>
  BY DEF Start, Terminate, Signal, Node
<1>6. QED BY <1>2, <1>3, <1>4, <1>5, BridgeThreads

LEMMA CreateHolds == ASSUME IInv, HInv, NEW t \in Thread, CreateThread(t) PROVE HInv'
<1>1. /\ Running(t) /\ At(t).do = "start" /\ prog' = prog /\ catches' = catches
      /\ object' = object
  BY DEF CreateThread, Does
<1>2. t = "main" BY <1>1, OnlyMain
<1>3. 1 \in DOMAIN At(t).to /\ 2 \in DOMAIN At(t).to BY <1>1, <1>2, MainNext
<1>4. CASE To(t, At(t).to[2]) BY <1>1, <1>3, <1>4, PlainHolds
<1>5. CASE pc' = [pc EXCEPT ![t] = At(t).to[1], ![At(t).arg] = "start"]
  <2>1. PICK l, f : l = At("main").to[1] /\ f = At("main").arg OBVIOUS
  <2>2. \/ pc["main"] = "startFirst" /\ f = "first" /\ l = "startSecond"
        \/ pc["main"] = "startSecond" /\ f = "second" /\ l = "signal"
    BY <1>1, <1>2, <2>1, BridgeAt
  <2>3. prog = "UserBridge" BY <1>1, <1>2, BridgeAt
  <2>4. pc' = [pc EXCEPT !["main"] = l, ![f] = "start"] BY <1>2, <1>5, <2>1
  <2>5. DOMAIN pc = Thread BY DEF IInv, Placed
  <2>6. /\ pc'["main"] = l /\ pc'["ctrlc"] = pc["ctrlc"]
        /\ \A g \in Forwarder \ {f} : pc'[g] = pc[g]
    BY <2>2, <2>4, <2>5 DEF Thread, Forwarder
  <2>7. Held' = After(At("main"), 1, Held) BY <1>1, <1>2, HeldStays DEF After, Acquires
  <2>8. Holding' BY <1>1, <1>2, <1>3, <2>1, <2>6, <2>7, HoldingGoes DEF HInv
  <2>9. Forwarding'
    <3>1. SUFFICES ASSUME NEW g \in Forwarder, pc'[g] \notin Ended \cup {"off"}
                   PROVE  pc'["main"] \in While(g)
      BY <1>1, <2>3 DEF Forwarding
    <3>2. g = f \/ pc["main"] \in While(g) BY <2>6, <3>1 DEF HInv, Forwarding
    <3>3. QED BY <2>2, <2>6, <3>2 DEF While
  <2>10. Catching'
    <3>1. ~Sleeping /\ pc["main"] \notin Ended BY <2>2 DEF Sleeping, Ended
    <3>2. ~catches /\ pc["ctrlc"] \in Ended \cup {"off"} BY <3>1 DEF HInv, Catching
    <3>3. QED BY <1>1, <2>6, <3>2 DEF Catching
  <2>11. QED BY <2>8, <2>9, <2>10 DEF HInv
<1>6. QED BY <1>4, <1>5 DEF CreateThread

LEMMA TerminateHolds == ASSUME IInv, HInv, NEW t \in Thread, TerminateThread(t) PROVE HInv'
<1>1. /\ Running(t) /\ At(t).do = "terminate" /\ prog' = prog /\ catches' = catches
      /\ object' = object /\ pc' = [pc EXCEPT ![t] = At(t).to[1], ![At(t).arg] = "off"]
  BY DEF TerminateThread, Does
<1>2. t = "main" BY <1>1, OnlyMain
<1>3. 1 \in DOMAIN At("main").to BY <1>1, <1>2, MainNext
<1>4. /\ pc["main"] = "terminate" /\ At("main").arg = "first" /\ At("main").to = <<"abandon">>
  BY <1>1, <1>2, BridgeAt
<1>5. pc' = [pc EXCEPT !["main"] = "abandon", !["first"] = "off"]
  <2>1. PICK l, f : l = At("main").to[1] /\ f = At("main").arg OBVIOUS
  <2>2. l = "abandon" /\ f = "first" BY <1>4, <2>1
  <2>3. pc' = [pc EXCEPT !["main"] = l, ![f] = "off"] BY <1>1, <1>2, <2>1
  <2>4. QED BY <2>2, <2>3
<1>6. DOMAIN pc = Thread BY DEF IInv, Placed
<1>7. /\ pc'["main"] = "abandon" /\ pc'["first"] = "off"
      /\ pc'["second"] = pc["second"] /\ pc'["ctrlc"] = pc["ctrlc"]
  BY <1>5, <1>6 DEF Thread
<1>8. Held' = After(At("main"), 1, Held) BY <1>1, <1>2, HeldStays DEF After, Acquires
<1>9. pc'["main"] = At("main").to[1] BY <1>4, <1>7
<1>10. Holding' BY <1>1, <1>2, <1>3, <1>8, <1>9, HoldingGoes DEF HInv
<1>11. Forwarding'
  <2>1. pc["main"] \notin While("second") BY <1>4 DEF While
  <2>2. pc["second"] \in Ended \cup {"off"} BY <2>1 DEF HInv, Forwarding, Forwarder
  <2>3. QED BY <1>7, <2>2 DEF Forwarding, Forwarder
<1>12. Catching'
  <2>1. ~Sleeping /\ pc["main"] \notin Ended BY <1>4 DEF Sleeping, Ended
  <2>2. ~catches /\ pc["ctrlc"] \in Ended \cup {"off"} BY <2>1 DEF HInv, Catching
  <2>3. QED BY <1>1, <1>7, <2>2 DEF Catching
<1>13. QED BY <1>10, <1>11, <1>12 DEF HInv

LEMMA InstallHolds == ASSUME IInv, HInv, NEW t \in Thread, Install(t) PROVE HInv'
<1>1. /\ Running(t) /\ At(t).do = "signal" /\ prog' = prog /\ object' = object
      /\ To(t, At(t).to[1])
  BY DEF Install, Does
<1>2. t = "main" BY <1>1, OnlyMain
<1>3. 1 \in DOMAIN At("main").to BY <1>1, <1>2, MainNext
<1>4. /\ prog = "UserBridge" /\ pc["main"] = "signal" /\ At("main").to = <<"bridging">>
  BY <1>1, <1>2, BridgeAt
<1>5. pc' = [pc EXCEPT !["main"] = "bridging"]
  <2>1. To("main", "bridging")
    <3>1. At("main").to[1] = "bridging" BY <1>4
    <3>2. QED BY <3>1, <1>1, <1>2
  <2>2. QED BY <2>1 DEF To, Ended
<1>6. DOMAIN pc = Thread BY DEF IInv, Placed
<1>7. /\ pc'["main"] = "bridging" /\ pc'["first"] = pc["first"]
      /\ pc'["second"] = pc["second"]
  BY <1>5, <1>6 DEF Thread
<1>8. Held' = After(At("main"), 1, Held) BY <1>1, <1>2, HeldStays DEF After, Acquires
<1>9. Holding' BY <1>1, <1>2, <1>3, <1>8, HoldingGoes DEF HInv
<1>10. Forwarding' BY <1>1, <1>4, <1>7 DEF Forwarding, Forwarder, While
<1>11. Catching' BY <1>1, <1>4, <1>7 DEF Catching, Sleeping
<1>12. QED BY <1>9, <1>10, <1>11 DEF HInv

LEMMA EnterHolds == ASSUME IInv, HInv, NEW t \in Thread, EnterCriticalSection(t) PROVE HInv'
<1>1. /\ Running(t) /\ At(t).do = "enter" /\ prog' = prog /\ catches' = catches
      /\ object' = object /\ To(t, At(t).to[1])
  BY DEF EnterCriticalSection, Does
<1>2. QED BY <1>1, OnlyForwarders, PlainHolds

LEMMA LeaveHolds == ASSUME IInv, HInv, NEW t \in Thread, LeaveCriticalSection(t) PROVE HInv'
<1>1. /\ Running(t) /\ At(t).do = "leave" /\ prog' = prog /\ catches' = catches
      /\ object' = object /\ To(t, At(t).to[1])
  BY DEF LeaveCriticalSection, Does
<1>2. QED BY <1>1, OnlyForwarders, PlainHolds

LEMMA KillHolds == ASSUME IInv, HInv, NEW t \in Thread, Kill(t) PROVE HInv'
<1>1. /\ Running(t) /\ At(t).do = "kill" /\ prog' = prog /\ catches' = catches
      /\ object' = object /\ To(t, At(t).to[1])
  BY DEF Kill, Does
<1>2. 1 \in DOMAIN At(t).to
  <2>1. CASE t = "main" BY <1>1, <2>1, MainAt DEF IInv, MainNode
  <2>2. CASE t \in Forwarder BY <1>1, <2>2, ForwarderAt DEF ForwarderNode
  <2>3. CASE t = "ctrlc" BY <1>1, <2>3, CtrlcAt
  <2>4. QED BY <2>1, <2>2, <2>3 DEF Thread, Forwarder
<1>3. QED BY <1>1, <1>2, PlainHolds

LEMMA CtrlCHolds == ASSUME IInv, HInv, CtrlC PROVE HInv'
<1>1. /\ prog' = prog /\ catches' = FALSE /\ object' = object /\ pc["main"] \notin Ended
      /\ IF catches THEN pc' = [pc EXCEPT !["ctrlc"] = "start"] ELSE To("main", "early")
  BY DEF CtrlC
<1>2. DOMAIN pc = Thread BY DEF IInv, Placed
<1>3. CASE pc' = [pc EXCEPT !["ctrlc"] = "start"] /\ catches
  <2>1. pc'["main"] = pc["main"] /\ pc'["first"] = pc["first"] /\ pc'["second"] = pc["second"]
    BY <1>2, <1>3 DEF Thread
  <2>2. Sleeping BY <1>1, <1>3 DEF HInv, Catching
  <2>3. Held' = Held BY <1>1, HeldStays
  <2>4. Holding' BY <1>1, <2>1, <2>3 DEF HInv, Holding
  <2>5. Forwarding' BY <1>1, <2>1 DEF HInv, Forwarding, Forwarder
  <2>6. Catching' BY <1>1, <2>1, <2>2 DEF Catching, Sleeping
  <2>7. QED BY <2>4, <2>5, <2>6 DEF HInv
<1>4. CASE To("main", "early")
  <2>1. pc' = [t \in Thread |-> "early"] BY <1>4 DEF To, Ended
  <2>2. \A t \in Thread : pc'[t] = "early" BY <2>1
  <2>3. "main" \in Thread /\ "ctrlc" \in Thread /\ Forwarder \subseteq Thread
    BY DEF Thread, Forwarder
  <2>4. Holding' BY <2>2, <2>3 DEF Holding, Fits
  <2>5. Forwarding' BY <2>2, <2>3 DEF Forwarding, Ended
  <2>6. Catching' BY <1>1, <2>2, <2>3 DEF Catching, Ended
  <2>7. QED BY <2>4, <2>5, <2>6 DEF HInv
<1>5. QED BY <1>1, <1>3, <1>4

LEMMA InitHolds == Init => HInv
<1>1. SUFFICES ASSUME Init PROVE HInv OBVIOUS
<1>2. /\ pc = [t \in Thread |-> IF t = "main" THEN "start" ELSE "off"]
      /\ object = [o \in Object |-> "none"] /\ catches = FALSE
  BY <1>1 DEF Init
<1>3. Held = {} BY <1>2 DEF Held
<1>4. pc["main"] = "start" /\ \A t \in Thread \ {"main"} : pc[t] = "off" BY <1>2 DEF Thread
<1>5. "start" \in DOMAIN Owns(prog) /\ Owns(prog)["start"] = {}
  BY OfMostIs, OfSavedumpIs, OfFilterIs, OfFopenIs, OfTcptopIs, OfSendcapIs, OfMacIs,
     OfPacketIs, OfBridgeIs
  DEF Owns
<1>6. Holding BY <1>3, <1>4, <1>5 DEF Holding, Fits, Ended
<1>7. Forwarding BY <1>4 DEF Forwarding, Forwarder, Thread
<1>8. Catching BY <1>2, <1>4 DEF Catching, Thread
<1>9. QED BY <1>6, <1>7, <1>8 DEF HInv

-----------------------------------------------------------------------------
(* What is held: theorems. *)

\* Main holds at every label what the tables say, and other threads run only where
\* main has left the handles open.
THEOREM Ownership == Spec => []HInv
<1>1. ASSUME IInv, HInv, [Next]_vars PROVE HInv'
  <2>1. CASE \E t \in Thread : Acquire(t) BY <1>1, <2>1, AcquireHolds
  <2>2. CASE \E t \in Thread : InitializeCriticalSection(t) BY <1>1, <2>2, InitializeHolds
  <2>3. CASE \E t \in Thread : Release(t) BY <1>1, <2>3, ReleaseHolds
  <2>4. CASE \E t \in Thread : Use(t) BY <1>1, <2>4, UseHolds
  <2>5. CASE \E t \in Thread : Choice(t) BY <1>1, <2>5, ChoiceHolds
  <2>6. CASE \E t \in Thread : Decide(t) BY <1>1, <2>6, DecideHolds
  <2>7. CASE \E t \in Thread : CreateThread(t) BY <1>1, <2>7, CreateHolds
  <2>8. CASE \E t \in Thread : TerminateThread(t) BY <1>1, <2>8, TerminateHolds
  <2>9. CASE \E t \in Thread : EnterCriticalSection(t) BY <1>1, <2>9, EnterHolds
  <2>10. CASE \E t \in Thread : LeaveCriticalSection(t) BY <1>1, <2>10, LeaveHolds
  <2>11. CASE \E t \in Thread : Install(t) BY <1>1, <2>11, InstallHolds
  <2>12. CASE \E t \in Thread : Kill(t) BY <1>1, <2>12, KillHolds
  <2>13. CASE CtrlC BY <1>1, <2>13, CtrlCHolds
  <2>14. CASE UNCHANGED vars
    BY <1>1, <2>14 DEF vars, HInv, Holding, Held, Forwarding, Catching, Sleeping
  <2>15. QED
    BY <1>1, <2>1, <2>2, <2>3, <2>4, <2>5, <2>6, <2>7, <2>8, <2>9, <2>10, <2>11, <2>12,
       <2>13, <2>14
    DEF Next
<1>2. QED BY InitHolds, Invariance, <1>1, PTL DEF Spec

\* On no path does a program, or a thread of the bridge, use or give back what is not
\* held, but for the two that Careless lists.
THEOREM UseHeld == Spec => []UsesHeld
<1>1. ASSUME IInv, HInv PROVE UsesHeld
  <2>1. SUFFICES ASSUME NEW t \in Thread, Running(t), NEW o \in At(t).needs
                 PROVE  o \in Held \/ o \in CarelessOf(prog)
    BY DEF UsesHeld, Held, CarelessOf, Entry
  <2>2. CASE t = "main"
    <3>1. PICK S : /\ S \ CarelessOf(prog) \subseteq Held
                   /\ Flows(At("main"), S, Owns(prog), CarelessOf(prog), LeftOf(prog))
      BY <1>1, <2>1, <2>2, MainHolds DEF HInv
    <3>2. QED BY <2>1, <2>2, <3>1 DEF Flows
  <2>3. CASE t \in Forwarder
    <3>1. o \in {"in", "out", "section"}
      BY <2>1, <2>3, CodeIs, ForwarderNeeds DEF Running, At, Forwarder
    <3>2. pc[t] \notin Ended \cup {"off"}
      <4>1. pc[t] \in ForwarderLabels BY <2>1, <2>3, CodeIs, ForwarderGraph DEF Running, Forwarder
      <4>2. QED BY <4>1 DEF ForwarderLabels, Locked, Ended
    <3>3. prog = "UserBridge" /\ pc["main"] \in While(t)
      BY <1>1, <2>3, <3>2 DEF HInv, Forwarding
    <3>4. /\ pc["main"] \notin Ended
          /\ OfBridge[pc["main"]] = {"in", "out", "section"}
      BY <3>3, OfBridgeIs DEF While, Ended
    <3>5. Owns("UserBridge") = OfBridge /\ CarelessOf("UserBridge") = {"devs"}
      BY DEF Owns, CarelessOf, Entry, Careless
    <3>6. {"in", "out", "section"} \ {"devs"} \subseteq Held
      BY <1>1, <3>3, <3>4, <3>5 DEF HInv, Holding, Fits, Ended
    <3>7. QED BY <3>1, <3>6
  <2>4. CASE t = "ctrlc"
    <3>1. StopForwarders("wait").needs = {} /\ Goto("done").needs = {}
      BY DEF StopForwarders, Goto, Call, Node
    <3>2. QED BY <2>1, <2>4, <3>1, CodeIs DEF Running, At, ctrlc_handler
  <2>5. QED BY <2>2, <2>3, <2>4 DEF Thread, Forwarder
<1>2. QED BY <1>1, Invariance, Ownership, PTL

\* A program that reaches its end has given back all it acquired, except for what
\* Left lists.
THEOREM ReleaseAtEnd == Spec => []ReleasedAtEnd
<1>1. ASSUME HInv PROVE ReleasedAtEnd
  <2>1. SUFFICES ASSUME NEW o \in Object, pc["main"] = "done", o \in Held
                 PROVE  o \in LeftOf(prog)
    BY DEF ReleasedAtEnd, Held, LeftOf, Entry
  <2>2. Held \subseteq LeftOf(prog) BY <1>1, <2>1 DEF HInv, Holding, Fits, Ended
  <2>3. QED BY <2>1, <2>2
<1>2. QED BY <1>1, Ownership, PTL
===============================================================================
