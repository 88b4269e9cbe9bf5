------------------------------- MODULE Samples -------------------------------
(***************************************************************************)
(* The sample programs of WpdPack: what each acquires from WinPcap, uses   *)
(* and gives back, along every path through its main, and the threads of   *)
(* the user level bridge.  A program is its control flow graph, a function *)
(* from labels to nodes; the actions below run the nodes.  What it does    *)
(* with a packet is left out.                                              *)
(***************************************************************************)
EXTENDS Integers, Sequences

CONSTANT MaxDevices   \* bound on the adapters of the machine

ASSUME DevicesAssumption == MaxDevices \in Nat

VARIABLES
  prog,       \* the program that runs
  count,      \* the adapters there are; the length of alldevs
  inum,       \* the numbers the user has typed: inum1 and inum2
  object,     \* object[o]: "none" before it is acquired, "held", "gone"
  pc,         \* the label of each thread
  owner,      \* the owner of print_cs
  killed,     \* kill_forwaders
  catches     \* ctrlc_handler is installed

vars == <<prog, count, inum, object, pc, owner, killed, catches>>

Thread == {"main", "first", "second", "ctrlc"}
Forwarder == {"first", "second"}

\* The device list, the handles a program reads from and writes to, a dump file,
\* a file, a send queue, and the objects of packet.dll; the bridge's section.
Object == {"devs", "in", "out", "dump", "file", "queue", "adapter", "packet", "oid",
           "section"}

-----------------------------------------------------------------------------
(* Nodes. *)

Node(do, arg, needs, to) == [do |-> do, arg |-> arg, needs |-> needs, to |-> to]

\* A call that acquires an object, or reports a failure.
Try(o, needs, ok, failed) == Node("try", o, needs, <<ok, failed>>)
Drop(o, next) == Node("drop", o, {o}, <<next>>)

\* Calls and conditions with several outcomes.
Call(needs, next) == Node("call", "", needs, next)
Goto(label) == Call({}, <<label>>)
Usage(label) == Call({}, <<label, "early">>)

Ask(i, next) == Node("ask", i, {}, <<next>>)
Test(condition, yes, no) == Node("test", condition, {}, <<yes, no>>)

Start(t, ok, failed) == Node("start", t, {}, <<ok, failed>>)
Terminate(t, next) == Node("terminate", t, {}, <<next>>)
Initialise(next) == Node("init", "section", {}, <<next>>)
Signal(next) == Node("signal", "", {}, <<next>>)
Sleep == Node("sleep", "", {}, << >>)
Enter(next) == Node("enter", "", {"section"}, <<next>>)
Report(needs, next) == Node("print", "", needs, <<next>>)
Leave(next) == Node("leave", "", {"section"}, <<next>>)
StopForwarders(next) == Node("kill", "", {}, <<next>>)

\* The nodes of f, and those of g that f does not replace.
f @@ g == [x \in DOMAIN f \cup DOMAIN g |-> IF x \in DOMAIN f THEN f[x] ELSE g[x]]

-----------------------------------------------------------------------------
(* What programs have in common. *)

\* Get the device list, print it, let the user choose.
Choose ==
  [find   |-> Try("devs", {}, "empty", "early"),
   empty  |-> Test("empty", "early", "ask"),
   ask    |-> Ask(1, "range"),
   range  |-> Test("outside1", "giveUp", "openChosen"),
   giveUp |-> Drop("devs", "early")]

\* pcap_next_ex until it fails; an error is printed and ends the program.
ReadAll(last) ==
  [loop  |-> Call({"in"}, <<"loop", "error", last>>),
   error |-> Call({"in"}, <<"early">>),
   close |-> Drop("in", "done")]

\* pcap_loop.
LoopThen(last) ==
  [loop  |-> Call({"in"}, <<"loop", last>>),
   close |-> Drop("in", "done")]

\* The names of the adapters come as one string; the number is asked for until it
\* is not above the number of names.
ChooseName ==
  [names |-> Call({}, <<"ask", "early">>),
   ask   |-> Ask(1, "above"),
   above |-> Test("above1", "ask", "openChosen")]

-----------------------------------------------------------------------------
(* The programs of Examples-pcap. *)

readfile ==
  [start |-> Usage("open"), open |-> Try("in", {}, "loop", "early")] @@ LoopThen("close")

readfile_ex ==
  [start |-> Usage("open"),
   open  |-> Try("in", {}, "loop", "early"),
   error |-> Call({"in"}, <<"close">>)] @@ ReadAll("close")

sendpack ==
  [start |-> Usage("open"),
   open  |-> Try("in", {}, "send", "early"),
   send  |-> Call({"in"}, <<"close", "error">>),
   error |-> Call({"in"}, <<"early">>),
   close |-> Drop("in", "done")]

basic_dump ==
  [start      |-> Goto("find"),
   openChosen |-> Try("in", {"devs"}, "listen", "giveUp"),
   listen     |-> Drop("devs", "loop")] @@ Choose @@ LoopThen("close")

basic_dump_ex ==
  [start      |-> Goto("find"),
   openChosen |-> Try("in", {"devs"}, "listen", "giveUp"),
   listen     |-> Drop("devs", "loop")] @@ Choose @@ ReadAll("close")

savedump ==
  [start      |-> Usage("find"),
   openChosen |-> Try("in", {"devs"}, "create", "giveUp"),
   create     |-> Try("dump", {"in"}, "listen", "early"),
   listen     |-> Drop("devs", "loop"),
   loop       |-> Call({"in"}, <<"save", "close">>),
   save       |-> Call({"dump"}, <<"loop">>),
   close      |-> Drop("in", "done")] @@ Choose

\* The adapter is chosen or named on the command line.
pktdump_ex ==
  [start      |-> Call({}, <<"find", "open">>),
   openChosen |-> Try("in", {"devs"}, "loop", "early"),
   open       |-> Try("in", {}, "loop", "early")] @@ Choose @@ ReadAll("close")

\* usage() ends the program wherever it is called.
pcap_filter ==
  [start     |-> Usage("source"),
   source    |-> Usage("open"),
   open      |-> Try("in", {}, "filter", "early"),
   filter    |-> Call({}, <<"compile", "output">>),
   compile   |-> Call({"in"}, <<"set", "abandon">>),
   set       |-> Call({"in"}, <<"output", "abandon">>),
   output    |-> Usage("create"),
   create    |-> Try("dump", {"in"}, "loop", "abandon"),
   loop      |-> Call({"in"}, <<"loop", "save", "close">>),
   save      |-> Call({"dump"}, <<"loop">>),
   close     |-> Drop("in", "closeDump"),
   closeDump |-> Drop("dump", "done"),
   abandon   |-> Drop("in", "early")]

\* Mutant: the list is not freed.
iflistKeeping ==
  [start   |-> Try("devs", {}, "ifprint", "early"),
   ifprint |-> Call({"devs"}, <<"done">>)]

iflist ==
  [start   |-> Try("devs", {}, "ifprint", "early"),
   ifprint |-> Call({"devs"}, <<"free">>),
   free    |-> Drop("devs", "done")]

UDPdump ==
  [start      |-> Goto("find"),
   openChosen |-> Try("in", {"devs"}, "datalink", "giveUp"),
   datalink   |-> Call({"in"}, <<"netmask", "giveUp">>),
   netmask    |-> Call({"devs"}, <<"compile">>),
   compile    |-> Call({"in"}, <<"set", "giveUp">>),
   set        |-> Call({"in"}, <<"listen", "giveUp">>),
   listen     |-> Drop("devs", "loop")] @@ Choose @@ LoopThen("done")

-----------------------------------------------------------------------------
(* Those of Examples-remote.  Where they differ, they close less. *)

misc_sendpack == [send |-> Call({"in"}, <<"done", "error">>)] @@ sendpack
misc_basic_dump == LoopThen("done") @@ basic_dump
misc_basic_dump_ex == ReadAll("done") @@ basic_dump_ex
misc_savedump == [loop |-> Call({"in"}, <<"save", "done">>)] @@ savedump
remote_UDPdump == UDPdump

\* The name of the file is turned into a source string first.
misc_readfile ==
  [start  |-> Usage("source"),
   source |-> Call({}, <<"open", "early">>)] @@ LoopThen("done") @@ readfile

misc_readfile_ex ==
  [start  |-> Usage("source"),
   source |-> Call({}, <<"open", "early">>),
   error  |-> Call({"in"}, <<"done">>)] @@ ReadAll("done") @@ readfile_ex

remote_pktdump_ex == ReadAll("done") @@ pktdump_ex

\* Nothing is closed, whatever happens.
remote_pcap_filter ==
  [compile |-> Call({"in"}, <<"set", "early">>),
   set     |-> Call({"in"}, <<"output", "early">>),
   create  |-> Try("dump", {"in"}, "loop", "early"),
   loop    |-> Call({"in"}, <<"loop", "save", "done">>)] @@ pcap_filter

remote_iflist == [start |-> Goto("find"), find |-> iflist["start"]] @@ iflist

pcap_fopen ==
  [start     |-> Usage("paths"),
   paths     |-> Call({}, <<"tshark", "early">>),
   tshark    |-> Try("file", {}, "open", "early"),
   open      |-> Try("in", {"file"}, "loop", "early"),
   loop      |-> Call({"in"}, <<"loop", "close">>),
   close     |-> Drop("in", "closeFile"),
   closeFile |-> Drop("file", "done")]

smp_1 ==
  [start      |-> Goto("find"),
   openChosen |-> Try("in", {"devs"}, "loop", "giveUp")] @@ Choose @@ ReadAll("done")

\* The length of the file is the size of the queue; a queue that could not be
\* allocated is used all the same.
sendcap ==
  [start    |-> Usage("length"),
   length   |-> Try("file", {}, "measured", "early"),
   measured |-> Drop("file", "source"),
   source   |-> Call({}, <<"open", "early">>),
   open     |-> Try("in", {}, "openOut", "early"),
   openOut  |-> Try("out", {}, "datalink", "early"),
   datalink |-> Call({"in", "out"}, <<"alloc">>),
   alloc    |-> Try("queue", {}, "read", "read"),
   read     |-> Call({"in"}, <<"add", "corrupt", "transmit">>),
   add      |-> Call({"queue"}, <<"read", "transmit">>),
   corrupt  |-> Drop("queue", "early"),
   transmit |-> Call({"out", "queue"}, <<"destroy">>),
   destroy  |-> Drop("queue", "close"),
   close    |-> Drop("in", "closeOut"),
   closeOut |-> Drop("out", "done")]

tcptop ==
  [start   |-> Usage("open"),
   open    |-> Try("in", {}, "compile", "early"),
   compile |-> Call({"in"}, <<"set", "early">>),
   set     |-> Call({"in"}, <<"mode", "abandon">>),
   mode    |-> Call({"in"}, <<"loop", "abandon">>),
   abandon |-> Drop("in", "early")] @@ LoopThen("close")

-----------------------------------------------------------------------------
(* The programs that use packet.dll. *)

GetMacAddress ==
  [start      |-> Goto("names"),
   openChosen |-> Try("adapter", {}, "alloc", "early"),
   alloc      |-> Try("oid", {"adapter"}, "request", "abandon"),
   request    |-> Call({"adapter", "oid"}, <<"free">>),
   free       |-> Drop("oid", "close"),
   close      |-> Drop("adapter", "done"),
   abandon    |-> Drop("adapter", "early")] @@ ChooseName

TestPacketSend ==
  [start      |-> Call({}, <<"names", "open", "early">>),
   openChosen |-> Try("adapter", {}, "alloc", "early"),
   open       |-> Try("adapter", {}, "alloc", "early"),
   alloc      |-> Try("packet", {}, "fill", "early"),
   fill       |-> Call({"packet"}, <<"writes">>),
   writes     |-> Call({"adapter"}, <<"send">>),
   send       |-> Call({"adapter", "packet"}, <<"free", "early">>),
   free       |-> Drop("packet", "close"),
   close      |-> Drop("adapter", "done")] @@ ChooseName

TestPacketCapture ==
  [start      |-> Goto("names"),
   openChosen |-> Try("adapter", {}, "filter", "early"),
   filter     |-> Call({"adapter"}, <<"buffer">>),
   buffer     |-> Call({"adapter"}, <<"timeout", "early">>),
   timeout    |-> Call({"adapter"}, <<"alloc">>),
   alloc      |-> Try("packet", {}, "fill", "early"),
   fill       |-> Call({"packet"}, <<"key">>),
   key        |-> Call({}, <<"receive", "stats">>),
   receive    |-> Call({"adapter", "packet"}, <<"print", "early">>),
   print      |-> Call({"packet"}, <<"key">>),
   stats      |-> Call({"adapter"}, <<"free">>),
   free       |-> Drop("packet", "close"),
   close      |-> Drop("adapter", "done")] @@ ChooseName

-----------------------------------------------------------------------------
(* The user level bridge. *)

\* main up to the point where both adapters are open and filtered, each filter
\* compiled and set in turn.
OpenAdapters ==
  [start      |-> Goto("find"),
   ask        |-> Call({}, <<"first">>),
   first      |-> Ask(1, "range"),
   range      |-> Test("outside1", "giveUp", "second"),
   second     |-> Ask(2, "range2"),
   range2     |-> Test("outside2", "giveUp", "same"),
   same       |-> Test("same", "giveUp", "openChosen"),
   openChosen |-> Try("in", {"devs"}, "netmask1", "giveUp"),
   netmask1   |-> Call({"devs"}, <<"openSecond">>),
   openSecond |-> Try("out", {"devs"}, "netmask2", "giveUp"),
   netmask2   |-> Call({"devs"}, <<"compile1">>),
   compile1   |-> Call({"in"}, <<"set1", "abandon">>),
   set1       |-> Call({"in"}, <<"compile2", "abandon">>),
   compile2   |-> Call({"out"}, <<"set2", "abandon">>),
   set2       |-> Call({"out"}, <<"freeList", "abandon">>)] @@ Choose

\* Mutant: the first thread is not terminated before the handles are closed.
StartForwardersLeft ==
  [freeList    |-> Drop("devs", "section"),
   section     |-> Initialise("startFirst"),
   startFirst  |-> Start("first", "startSecond", "abandon"),
   startSecond |-> Start("second", "signal", "abandon"),
   abandon     |-> Drop("in", "closeOut"),
   closeOut    |-> Drop("out", "giveUp"),
   signal      |-> Signal("bridging"),
   bridging    |-> Call({"devs"}, <<"sleep">>),
   sleep       |-> Sleep]

\* The rest of main.  The list is freed a second time when a thread cannot be
\* created, and the last line printed takes the description from it.
StartForwarders ==
  [freeList    |-> Drop("devs", "section"),
   section     |-> Initialise("startFirst"),
   startFirst  |-> Start("first", "startSecond", "abandon"),
   startSecond |-> Start("second", "signal", "terminate"),
   terminate   |-> Terminate("first", "abandon"),
   abandon     |-> Drop("in", "closeOut"),
   closeOut    |-> Drop("out", "giveUp"),
   signal      |-> Signal("bridging"),
   bridging    |-> Call({"devs"}, <<"sleep">>),
   sleep       |-> Sleep]

UserBridge == StartForwarders @@ OpenAdapters

\* Mutant: the section is left before the message is printed.
CaptureAndForwardUnlocked(input, output) ==
  [start   |-> Test("killed", "enterEnd", "capture"),
   capture |-> Call({input}, <<"start", "enter", "enterEnd">>),
   enter   |-> Enter("leave"),
   leave   |-> Leave("print"),
   print   |-> Report({}, "send"),
   send    |-> Call({output}, <<"start", "start">>),
   enterEnd |-> Enter("printEnd"),
   printEnd |-> Report({}, "leaveEnd"),
   leaveEnd |-> Leave("returned")]

CaptureAndForwardThread(input, output) ==
  [start   |-> Test("killed", "enterEnd", "capture"),
   capture |-> Call({input}, <<"start", "enter", "enterErr">>),
   enter   |-> Enter("print"),
   print   |-> Report({}, "leave"),
   leave   |-> Leave("send"),
   send    |-> Call({output}, <<"start", "enterBad">>),
   enterBad |-> Enter("printBad"),
   printBad |-> Report({output}, "leaveBad"),
   leaveBad |-> Leave("start"),
   enterErr |-> Enter("printErr"),
   printErr |-> Report({input}, "leaveEnd"),
   enterEnd |-> Enter("printEnd"),
   printEnd |-> Report({}, "leaveEnd"),
   leaveEnd |-> Leave("returned")]

\* The handler runs on a thread of its own.  The wait ends when both threads have,
\* or after five seconds.
ctrlc_handler ==
  [start |-> StopForwarders("wait"),
   wait  |-> Goto("done")]

-----------------------------------------------------------------------------
(* Running them. *)

Program ==
  [readfile |-> readfile, readfile_ex |-> readfile_ex, sendpack |-> sendpack,
   basic_dump |-> basic_dump, basic_dump_ex |-> basic_dump_ex, savedump |-> savedump,
   pktdump_ex |-> pktdump_ex, pcap_filter |-> pcap_filter, iflist |-> iflist,
   UDPdump |-> UDPdump, misc_readfile |-> misc_readfile,
   misc_readfile_ex |-> misc_readfile_ex, misc_sendpack |-> misc_sendpack,
   misc_basic_dump |-> misc_basic_dump, misc_basic_dump_ex |-> misc_basic_dump_ex,
   misc_savedump |-> misc_savedump, remote_UDPdump |-> remote_UDPdump,
   remote_pktdump_ex |-> remote_pktdump_ex, remote_pcap_filter |-> remote_pcap_filter,
   remote_iflist |-> remote_iflist, pcap_fopen |-> pcap_fopen, smp_1 |-> smp_1,
   sendcap |-> sendcap, tcptop |-> tcptop, GetMacAddress |-> GetMacAddress,
   TestPacketSend |-> TestPacketSend, TestPacketCapture |-> TestPacketCapture,
   UserBridge |-> UserBridge]

PacketDll == {"GetMacAddress", "TestPacketSend", "TestPacketCapture"}

Code(t) ==
  CASE t = "main"   -> Program[prog]
    [] t = "first"  -> CaptureAndForwardThread("in", "out")
    [] t = "second" -> CaptureAndForwardThread("out", "in")
    [] t = "ctrlc"  -> ctrlc_handler

\* A thread that has not started or has ended is at no node.
Ended == {"done", "early"}
Running(t) == pc[t] \in DOMAIN Code(t)
At(t) == Code(t)[pc[t]]
Does(t, do) == Running(t) /\ At(t).do = do

Init ==
  /\ prog \in DOMAIN Program
  /\ count \in 0 .. MaxDevices
  /\ inum = <<0, 0>>
  /\ object = [o \in Object |-> "none"]
  /\ pc = [t \in Thread |-> IF t = "main" THEN "start" ELSE "off"]
  /\ owner = "nobody"
  /\ killed = FALSE
  /\ catches = FALSE

\* The end of main, and exit, end every thread.
To(t, label) ==
  pc' = IF label \in Ended THEN [u \in Thread |-> label] ELSE [pc EXCEPT ![t] = label]

Acquire(t) ==
  /\ Does(t, "try")
  /\ \/ object' = [object EXCEPT ![At(t).arg] = "held"] /\ To(t, At(t).to[1])
     \/ object' = object /\ To(t, At(t).to[2])
  /\ UNCHANGED <<prog, count, inum, owner, killed, catches>>

InitializeCriticalSection(t) ==
  /\ Does(t, "init")
  /\ object' = [object EXCEPT !["section"] = "held"]
  /\ To(t, At(t).to[1])
  /\ UNCHANGED <<prog, count, inum, owner, killed, catches>>

Release(t) ==
  /\ Does(t, "drop")
  /\ object' = [object EXCEPT ![At(t).arg] = "gone"]
  /\ To(t, At(t).to[1])
  /\ UNCHANGED <<prog, count, inum, owner, killed, catches>>

Use(t) ==
  /\ Does(t, "call") \/ Does(t, "print")
  /\ \E i \in DOMAIN At(t).to : To(t, At(t).to[i])
  /\ UNCHANGED <<prog, count, inum, object, owner, killed, catches>>

\* Any number, or none: then the variable keeps what was in it.
Choice(t) ==
  /\ Does(t, "ask")
  /\ \E n \in -1 .. MaxDevices + 1 : inum' = [inum EXCEPT ![At(t).arg] = n]
  /\ To(t, At(t).to[1])
  /\ UNCHANGED <<prog, count, object, owner, killed, catches>>

\* Mutant: the last number there is can be exceeded by one.
OutsideByOne(n) == n < 1 \/ n > count + 1

Outside(n) == n < 1 \/ n > count

Holds(condition) ==
  CASE condition = "empty"    -> count = 0
    [] condition = "outside1" -> Outside(inum[1])
    [] condition = "outside2" -> Outside(inum[2])
    [] condition = "same"     -> inum[1] = inum[2]
    [] condition = "above1"   -> inum[1] > count
    [] condition = "killed"   -> killed

Decide(t) ==
  /\ Does(t, "test")
  /\ To(t, At(t).to[IF Holds(At(t).arg) THEN 1 ELSE 2])
  /\ UNCHANGED <<prog, count, inum, object, owner, killed, catches>>

\* Mutant: the new thread starts where the old one goes on.
CreateThreadForking(t) ==
  /\ Does(t, "start")
  /\ \/ pc' = [pc EXCEPT ![t] = At(t).to[1], ![At(t).arg] = At(t).to[1]]
     \/ To(t, At(t).to[2])
  /\ UNCHANGED <<prog, count, inum, object, owner, killed, catches>>

CreateThread(t) ==
  /\ Does(t, "start")
  /\ \/ pc' = [pc EXCEPT ![t] = At(t).to[1], ![At(t).arg] = "start"]
     \/ To(t, At(t).to[2])
  /\ UNCHANGED <<prog, count, inum, object, owner, killed, catches>>

\* A section that the thread owns is never left.
TerminateThread(t) ==
  /\ Does(t, "terminate")
  /\ pc' = [pc EXCEPT ![t] = At(t).to[1], ![At(t).arg] = "off"]
  /\ UNCHANGED <<prog, count, inum, object, owner, killed, catches>>

EnterCriticalSection(t) ==
  /\ Does(t, "enter")
  /\ owner = "nobody"
  /\ owner' = t
  /\ To(t, At(t).to[1])
  /\ UNCHANGED <<prog, count, inum, object, killed, catches>>

LeaveCriticalSection(t) ==
  /\ Does(t, "leave")
  /\ owner' = "nobody"
  /\ To(t, At(t).to[1])
  /\ UNCHANGED <<prog, count, inum, object, killed, catches>>

Install(t) ==
  /\ Does(t, "signal")
  /\ catches' = TRUE
  /\ To(t, At(t).to[1])
  /\ UNCHANGED <<prog, count, inum, object, owner, killed>>

Kill(t) ==
  /\ Does(t, "kill")
  /\ killed' = TRUE
  /\ To(t, At(t).to[1])
  /\ UNCHANGED <<prog, count, inum, object, owner, catches>>

\* Ctrl-C starts the handler and puts the default back, which ends the program
\* where it stands.
CtrlC ==
  /\ pc["main"] \notin Ended
  /\ IF catches THEN pc' = [pc EXCEPT !["ctrlc"] = "start"] ELSE To("main", "early")
  /\ catches' = FALSE
  /\ UNCHANGED <<prog, count, inum, object, owner, killed>>

Next ==
  \/ \E t \in Thread :
       \/ Acquire(t) \/ InitializeCriticalSection(t) \/ Release(t) \/ Use(t)
       \/ Choice(t) \/ Decide(t)
       \/ CreateThread(t) \/ TerminateThread(t)
       \/ EnterCriticalSection(t) \/ LeaveCriticalSection(t)
       \/ Install(t) \/ Kill(t)
  \/ CtrlC

Spec == Init /\ [][Next]_vars

-----------------------------------------------------------------------------
(* Correctness. *)

\* Every variable has its type, and every thread that runs is at a node.
TypeOK ==
  /\ prog \in DOMAIN Program
  /\ count \in 0 .. MaxDevices
  /\ inum \in [1 .. 2 -> -1 .. MaxDevices + 1]
  /\ object \in [Object -> {"none", "held", "gone"}]
  /\ \A t \in Thread : Running(t) \/ pc[t] \in Ended \cup {"off", "returned"}
  /\ owner \in Forwarder \cup {"nobody"}
  /\ killed \in BOOLEAN /\ catches \in BOOLEAN

\* What a program passes to WinPcap when it does not hold it.
Careless ==
  [UserBridge |-> {"devs"}, sendcap |-> {"queue"}]

\* On no path does a program use, or give back, what it has not acquired or has
\* given back before, also when the two threads of the bridge use the handles that
\* main closes.  There are two exceptions: the bridge uses its device list after
\* freeing it (UserBridge.c:323, :346, :359), sendcap a queue that it could not
\* allocate (sendcap.c:122).
UsesHeld ==
  \A t \in Thread : Running(t) =>
    \A o \in At(t).needs :
      \/ object[o] = "held"
      \/ prog \in DOMAIN Careless /\ o \in Careless[prog]

\* What programs still hold when they end normally.
Left ==
  [pktdump_ex |-> {"devs"}, savedump |-> {"dump"}, UDPdump |-> {"in"},
   misc_readfile |-> {"in"}, misc_readfile_ex |-> {"in"}, misc_sendpack |-> {"in"},
   misc_basic_dump |-> {"in"}, misc_basic_dump_ex |-> {"in"},
   misc_savedump |-> {"in", "dump"}, remote_UDPdump |-> {"in"},
   remote_pktdump_ex |-> {"devs", "in"}, remote_pcap_filter |-> {"in", "dump"},
   smp_1 |-> {"devs", "in"}, UserBridge |-> {"in", "out", "section"}]

\* A program that reaches its end has given back all it acquired, except for what
\* Left lists: savedump's dump file, the handles of most programs of
\* Examples-remote, and the device list of the three that never free it.
ReleasedAtEnd ==
  \A o \in Object : pc["main"] = "done" /\ object[o] = "held" =>
    prog \in DOMAIN Left /\ o \in Left[prog]

\* The adapter that is opened by number is one of the list, and the bridge opens
\* two different ones; the programs of packet.dll only see to it that the number
\* is not too large.
SelectedExists ==
  /\ pc["main"] = "openChosen" =>
       inum[1] <= count /\ (inum[1] >= 1 \/ prog \in PacketDll)
  /\ pc["main"] = "openSecond" => inum[2] \in (1 .. count) \ {inum[1]}

\* The two forwarders do not print at the same time.
PrintsApart == ~(Does("first", "print") /\ Does("second", "print"))
=============================================================================
