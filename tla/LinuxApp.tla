------------------------------ MODULE LinuxApp ------------------------------
(***************************************************************************)
(* The life of linux_app: main starts the egress manager and the services    *)
(* in turn, waits for a signal, and stops them again.  Each service has a    *)
(* receiving thread that shares a file descriptor with the thread that       *)
(* stops it: a device thread (CAN, RS485) opens its device again and again,  *)
(* a UDP or TCP thread uses the socket that its start call made.             *)
(***************************************************************************)
EXTENDS EgressManager, FiniteSets

CONSTANTS
    Devices, Udp, Tcp,  \* the services, by kind
    ModuleOf,           \* the module of the status file a service belongs to
    StartOrder, StopOrder,
    Unguarded,          \* services started although a signal has come
    Fds,                \* descriptors left to the process, the lowest is used
    None

Services == Devices \cup Udp \cup Tcp
Modules == {ModuleOf[s] : s \in Services}

Among(s, order) == \E k \in DOMAIN order : order[k] = s

\* No service is started twice, every one that is started is stopped, and a device
\* is all there is of its module.
ASSUME LinuxAppAssumption ==
    /\ Devices \cap (Udp \cup Tcp) = {} /\ Udp \cap Tcp = {}
    /\ ModuleOf \in [Services -> Modules]
    /\ \A s \in Devices : \A t \in Services \ {s} : ModuleOf[t] /= ModuleOf[s]
    /\ StartOrder \in Seq(Services) /\ StopOrder \in Seq(Services)
    /\ \A j, k \in DOMAIN StartOrder : StartOrder[j] = StartOrder[k] => j = k
    /\ \A k \in DOMAIN StartOrder : Among(StartOrder[k], StopOrder)
    /\ Fds \subseteq Nat /\ None \notin Fds \cup Services

VARIABLES
    main, todo,    \* where main is, the services it has to start or stop
    started,       \* the services it has started
    g_should_stop, exit_code,
    ipc,           \* the region is mapped
    pc,            \* the receiving threads
    stop_requested,\* of a device; a UDP or TCP server's running, negated
    fd,            \* the descriptor in the shared state of a service
    local,         \* the descriptor in a local variable of its thread
    main_fd,       \* the descriptor main has taken from a service
    file,          \* the service that holds a descriptor open
    up             \* modules whose status says that they run

threadVars == <<pc, local, up>>
mainVars2 == <<main, todo, started, exit_code, ipc, main_fd>>
vars == <<egressVars, mainVars2, threadVars, g_should_stop, stop_requested, fd, file>>

Servers == Udp \cup Tcp
Free == {f \in Fds : file[f] = None}
Lowest(S) == CHOOSE f \in S : \A g \in S : f <= g
Siblings(s) == {t \in Services \ {s} : ModuleOf[t] = ModuleOf[s]}

Init ==
    /\ EgressInit
    /\ main = "config" /\ todo = <<>> /\ started = {}
    /\ g_should_stop = FALSE /\ exit_code = "success" /\ ipc = FALSE
    /\ pc = [s \in Services |-> "none"]
    /\ stop_requested = [s \in Services |-> s \in Servers]
    /\ fd = [s \in Services |-> None]
    /\ local = [s \in Services |-> None]
    /\ main_fd = None
    /\ file = [f \in Fds |-> None]
    /\ up = {}

-----------------------------------------------------------------------------
(* The device threads. *)

Step(s, from, to) ==
    /\ pc[s] = from
    /\ pc' = [pc EXCEPT ![s] = to]
    /\ UNCHANGED <<egressVars, mainVars2, g_should_stop, stop_requested>>

Begin(s) ==
    /\ Step(s, "begin", "check")
    /\ up' = up \cup {ModuleOf[s]}
    /\ UNCHANGED <<fd, local, file>>

DeviceCheck(s) ==
    /\ Step(s, "check", IF stop_requested[s] THEN "leave" ELSE "open")
    /\ UNCHANGED <<fd, local, file, up>>

\* The interface or the device is not there: retry after a pause.
OpenFails(s) ==
    /\ Step(s, "open", "check")
    /\ fd' = [fd EXCEPT ![s] = None]
    /\ UNCHANGED <<local, file, up>>

Open(s) ==
    /\ Free /= {}
    /\ Step(s, "open", "share")
    /\ file' = [file EXCEPT ![Lowest(Free)] = s]
    /\ local' = [local EXCEPT ![s] = Lowest(Free)]
    /\ UNCHANGED <<fd, up>>

SetSocketState(s) ==
    /\ Step(s, "share", "receive")
    /\ fd' = [fd EXCEPT ![s] = local[s]]
    /\ UNCHANGED <<local, file, up>>

\* Data and timeouts leave the thread where it is, in its inner loop.
ReceiveStops(s) ==
    /\ stop_requested[s]
    /\ Step(s, "receive", "take")
    /\ UNCHANGED <<fd, local, file, up>>

\* The device has gone, or the bus is off.
Offline(s) ==
    /\ Step(s, "receive", "take")
    /\ UNCHANGED <<fd, local, file, up>>

\* Mutant: the descriptor that is taken stays in the shared state.
TakenKeeps(s) == UNCHANGED fd

\* take_socket_fd, under the lock: whoever takes the descriptor closes it.
Taken(s) == fd' = [fd EXCEPT ![s] = None]

TakeSocketFd(s) ==
    /\ Step(s, "take", "close")
    /\ local' = [local EXCEPT ![s] = fd[s]]
    /\ Taken(s)
    /\ UNCHANGED <<file, up>>

Closed(f) == file' = [g \in Fds |-> IF g = f THEN None ELSE file[g]]

DeviceClose(s) ==
    /\ Step(s, "close", "check")
    /\ Closed(local[s])
    /\ local' = [local EXCEPT ![s] = None]
    /\ UNCHANGED <<fd, up>>

DeviceLeave(s) ==
    /\ Step(s, "leave", "done")
    /\ up' = up \ {ModuleOf[s]}
    /\ UNCHANGED <<fd, local, file>>

-----------------------------------------------------------------------------
(* The UDP and TCP threads; stop_requested is the negation of running. *)

MarkRunning(s) ==
    /\ Step(s, "begin", "check")
    /\ up' = up \cup {ModuleOf[s]}
    /\ UNCHANGED <<fd, local, file>>

\* Whatever recvfrom returns, the flag is looked at again.
UdpStops(s) ==
    /\ s \in Udp /\ stop_requested[s]
    /\ Step(s, "check", "leave")
    /\ UNCHANGED <<fd, local, file, up>>

TcpCheck(s) ==
    /\ s \in Tcp
    /\ Step(s, "check", IF stop_requested[s] THEN "leave" ELSE "accept")
    /\ UNCHANGED <<fd, local, file, up>>

AcceptFails(s) ==
    /\ Step(s, "accept", "check")
    /\ UNCHANGED <<fd, local, file, up>>

\* Only the listening socket gives clients.
Accept(s) ==
    /\ Free /= {}
    /\ Step(s, "accept", "client")
    /\ file[fd[s]] = s
    /\ file' = [file EXCEPT ![Lowest(Free)] = s]
    /\ local' = [local EXCEPT ![s] = Lowest(Free)]
    /\ UNCHANGED <<fd, up>>

\* Bytes and timeouts leave the thread where it is, with its client.
ClientStops(s) ==
    /\ stop_requested[s]
    /\ Step(s, "client", "hangup")
    /\ UNCHANGED <<fd, local, file, up>>

\* The end of the stream, an error, or bytes that were turned down.
ClientEnds(s) ==
    /\ Step(s, "client", "hangup")
    /\ UNCHANGED <<fd, local, file, up>>

ClientClose(s) ==
    /\ s \in Tcp
    /\ Step(s, "hangup", "check")
    /\ Closed(local[s])
    /\ local' = [local EXCEPT ![s] = None]
    /\ UNCHANGED <<fd, up>>

\* Mutant: a sibling is enough, whether it runs or not.
StaysUpWithSibling(s) == Siblings(s) /= {}

\* The last service of a module to end marks it as stopped.
StaysUp(s) == \E t \in Siblings(s) : ~stop_requested[t]

ServerLeave(s) ==
    /\ Step(s, "leave", "done")
    /\ up' = IF StaysUp(s) THEN up ELSE up \ {ModuleOf[s]}
    /\ UNCHANGED <<fd, local, file>>

-----------------------------------------------------------------------------
(* main: start. *)

serviceVars == <<threadVars, stop_requested, fd, file>>

Fails == exit_code' = "failure"

ConfigRejected ==
    /\ main = "config"
    /\ main' = "exit" /\ Fails
    /\ UNCHANGED <<egressVars, todo, started, ipc, main_fd, serviceVars, g_should_stop>>

ConfigAccepted ==
    /\ main = "config"
    /\ main' = "map"
    /\ UNCHANGED <<egressVars, todo, started, exit_code, ipc, main_fd, serviceVars, g_should_stop>>

MapRegion ==
    /\ main = "map"
    /\ \/ main' = "format" /\ ipc' = TRUE /\ UNCHANGED exit_code
       \/ main' = "exit" /\ Fails /\ UNCHANGED ipc
    /\ UNCHANGED <<egressVars, todo, started, main_fd, serviceVars, g_should_stop>>

FormatRegion ==
    /\ main = "format"
    /\ \/ main' = "egress" /\ CallStart /\ UNCHANGED <<ipc, exit_code>>
       \/ main' = "exit" /\ ipc' = FALSE /\ Fails /\ UNCHANGED egressVars
    /\ UNCHANGED <<todo, started, main_fd, serviceVars, g_should_stop>>

\* The start call has undone itself.
EgressFails ==
    /\ main = "egress" /\ e_call = "stopped"
    /\ main' = "exit" /\ ipc' = FALSE /\ Fails
    /\ UNCHANGED <<egressVars, todo, started, main_fd, serviceVars, g_should_stop>>

EgressStarted ==
    /\ main = "egress" /\ e_call = "started"
    /\ main' = "start" /\ todo' = StartOrder
    /\ UNCHANGED <<egressVars, started, exit_code, ipc, main_fd, serviceVars, g_should_stop>>

Starting(s) ==
    /\ main = "start" /\ todo /= <<>> /\ s = Head(todo)
    /\ todo' = Tail(todo)
    /\ UNCHANGED <<egressVars, main, ipc, main_fd, local, up>>

StartSkipped(s) ==
    /\ Starting(s)
    /\ g_should_stop /\ s \notin Unguarded
    /\ UNCHANGED <<started, exit_code, g_should_stop, pc, stop_requested, fd, file>>

Guarded(s) == ~g_should_stop \/ s \in Unguarded

StartFails(s) ==
    /\ Starting(s) /\ Guarded(s)
    /\ g_should_stop' = TRUE /\ Fails
    /\ fd' = [fd EXCEPT ![s] = None]
    /\ UNCHANGED <<started, pc, file>>

\* Its thread cannot be created.
DeviceStartFails(s) ==
    /\ s \in Devices /\ StartFails(s)
    /\ stop_requested' = [stop_requested EXCEPT ![s] = FALSE]

\* Its socket cannot be made or bound, or there is no thread for it: the socket
\* is closed again.
ServerStartFails(s) ==
    /\ s \in Servers /\ StartFails(s)
    /\ stop_requested' = [stop_requested EXCEPT ![s] = TRUE]

Started(s) ==
    /\ Starting(s) /\ Guarded(s)
    /\ started' = started \cup {s}
    /\ stop_requested' = [stop_requested EXCEPT ![s] = FALSE]
    /\ pc' = [pc EXCEPT ![s] = "begin"]
    /\ UNCHANGED <<exit_code, g_should_stop>>

StartDevice(s) ==
    /\ s \in Devices /\ Started(s)
    /\ fd' = [fd EXCEPT ![s] = None]
    /\ UNCHANGED file

StartWithSocket(s) ==
    /\ Free /= {} /\ Started(s)
    /\ fd' = [fd EXCEPT ![s] = Lowest(Free)]
    /\ file' = [file EXCEPT ![Lowest(Free)] = s]

StartUdp(s) == s \in Udp /\ StartWithSocket(s)
StartTcp(s) == s \in Tcp /\ StartWithSocket(s)

AllStarted ==
    /\ main = "start" /\ todo = <<>>
    /\ main' = "loop"
    /\ UNCHANGED <<egressVars, todo, started, exit_code, ipc, main_fd, serviceVars, g_should_stop>>

\* SIGINT or SIGTERM, once the handlers are there.
Signal ==
    /\ main \notin {"config", "exit"} /\ ~g_should_stop
    /\ g_should_stop' = TRUE
    /\ UNCHANGED <<egressVars, mainVars2, serviceVars>>

-----------------------------------------------------------------------------
(* main: stop. *)

LoopEnds ==
    /\ main = "loop" /\ g_should_stop
    /\ main' = "egressStop" /\ CallStop
    /\ UNCHANGED <<todo, started, exit_code, ipc, main_fd, serviceVars, g_should_stop>>

EgressStopped ==
    /\ main = "egressStop" /\ e_call = "stopped"
    /\ main' = "stop" /\ todo' = StopOrder
    /\ UNCHANGED <<egressVars, started, exit_code, ipc, main_fd, serviceVars, g_should_stop>>

StopSkipped(s) ==
    /\ main = "stop" /\ todo /= <<>> /\ s = Head(todo) /\ s \notin started
    /\ todo' = Tail(todo)
    /\ UNCHANGED <<egressVars, main, started, exit_code, ipc, main_fd, serviceVars, g_should_stop>>

StopFlag(s) ==
    /\ main = "stop" /\ todo /= <<>> /\ s = Head(todo) /\ s \in started
    /\ stop_requested' = [stop_requested EXCEPT ![s] = TRUE]
    /\ main' = "take"
    /\ UNCHANGED <<egressVars, todo, started, exit_code, ipc, main_fd, threadVars, fd, file, g_should_stop>>

\* A server's descriptor is only read; nobody else closes it.
StopTake(s) ==
    /\ main = "take" /\ s = Head(todo)
    /\ main_fd' = fd[s]
    /\ IF s \in Devices THEN Taken(s) ELSE UNCHANGED fd
    /\ main' = "close"
    /\ UNCHANGED <<egressVars, todo, started, exit_code, ipc, threadVars, stop_requested, file, g_should_stop>>

StopClose(s) ==
    /\ main = "close" /\ s = Head(todo)
    /\ Closed(main_fd) /\ main_fd' = None
    /\ main' = "join"
    /\ UNCHANGED <<egressVars, todo, started, exit_code, ipc, threadVars, stop_requested, fd, g_should_stop>>

\* Mutant: the thread is not waited for.
StopJoinNoWait(s) ==
    /\ main = "join" /\ s = Head(todo)
    /\ fd' = IF s \in Devices THEN fd ELSE [fd EXCEPT ![s] = None]
    /\ todo' = Tail(todo) /\ main' = "stop"
    /\ UNCHANGED <<egressVars, started, exit_code, ipc, main_fd, threadVars, stop_requested, file, g_should_stop>>

StopJoin(s) ==
    /\ main = "join" /\ s = Head(todo) /\ pc[s] = "done"
    /\ pc' = [pc EXCEPT ![s] = "none"]
    /\ fd' = IF s \in Devices THEN fd ELSE [fd EXCEPT ![s] = None]
    /\ todo' = Tail(todo) /\ main' = "stop"
    /\ UNCHANGED <<egressVars, started, exit_code, ipc, main_fd, local, up, stop_requested, file, g_should_stop>>

\* The last status is written; the destroy call finds no thread to stop.
Exit ==
    /\ main = "stop" /\ todo = <<>>
    /\ main' = "exit" /\ ipc' = FALSE
    /\ UNCHANGED <<egressVars, todo, started, exit_code, main_fd, serviceVars, g_should_stop>>

-----------------------------------------------------------------------------
Device(s) ==
    \/ Begin(s) \/ DeviceCheck(s) \/ OpenFails(s) \/ Open(s) \/ SetSocketState(s)
    \/ ReceiveStops(s) \/ TakeSocketFd(s) \/ DeviceClose(s) \/ DeviceLeave(s)
Server(s) ==
    \/ MarkRunning(s) \/ UdpStops(s) \/ TcpCheck(s) \/ AcceptFails(s) \/ Accept(s)
    \/ ClientStops(s) \/ ClientClose(s) \/ ServerLeave(s)
Main ==
    \/ ConfigRejected \/ ConfigAccepted \/ MapRegion \/ FormatRegion
    \/ EgressFails \/ EgressStarted \/ AllStarted
    \/ \E s \in {todo[k] : k \in DOMAIN todo \cap {1}} :
          \/ StartSkipped(s) \/ DeviceStartFails(s) \/ ServerStartFails(s)
          \/ StartDevice(s) \/ StartUdp(s) \/ StartTcp(s)
          \/ StopSkipped(s) \/ StopFlag(s) \/ StopTake(s) \/ StopClose(s) \/ StopJoin(s)
    \/ LoopEnds \/ EgressStopped \/ Exit

appVars == <<mainVars2, serviceVars, g_should_stop>>
Call == EgressCall /\ UNCHANGED appVars
Worker(i) == WorkerStep(i) /\ UNCHANGED appVars
Manager == ManagerStep /\ UNCHANGED appVars
Formatted == main \notin {"config", "map", "format", "exit"}
Environment ==
    \/ /\ \E i \in Workers : WorkerSpurious(i) \/ (Formatted /\ RtosEnqueues(i))
       /\ UNCHANGED appVars
    \/ \E s \in Devices : Offline(s)
    \/ \E s \in Tcp : ClientEnds(s)
Terminated == main = "exit" /\ UNCHANGED vars

Next ==
    \/ \E s \in Devices : Device(s)
    \/ \E s \in Servers : Server(s)
    \/ Main \/ Call \/ Manager \/ Environment \/ Signal \/ Terminated
    \/ \E i \in Workers : Worker(i)

Spec == Init /\ [][Next]_vars

\* Every thread runs; no call blocks for ever, for sockets have timeouts.
Fairness ==
    /\ \A s \in Devices : WF_vars(Device(s))
    /\ \A s \in Servers : WF_vars(Server(s))
    /\ WF_vars(Main) /\ WF_vars(Call) /\ WF_vars(Manager)
    /\ \A i \in Workers : WF_vars(Worker(i))

LiveSpec == Spec /\ Fairness

-----------------------------------------------------------------------------
TypeOK ==
    /\ EgressTypeOK
    /\ main \in {"config", "map", "format", "egress", "start", "loop", "egressStop",
                 "stop", "take", "close", "join", "exit"}
    /\ todo \in Seq(Services) /\ started \subseteq Services
    /\ g_should_stop \in BOOLEAN /\ ipc \in BOOLEAN
    /\ exit_code \in {"success", "failure"}
    /\ pc \in [Services -> {"none", "begin", "check", "open", "share", "receive",
                "take", "close", "accept", "client", "hangup", "leave", "done"}]
    /\ stop_requested \in [Services -> BOOLEAN]
    /\ fd \in [Services -> Fds \cup {None}] /\ local \in [Services -> Fds \cup {None}]
    /\ main_fd \in Fds \cup {None}
    /\ file \in [Fds -> Services \cup {None}]
    /\ up \subseteq Modules

\* No thread is left that could touch the region once it is unmapped, whichever
\* start failed and whenever the signal came (main's cleanup).
NobodyLeft == ~ipc => EgressThreadsGone /\ \A s \in Services : pc[s] \in {"none", "done"}

\* The descriptor a device shares with its sender and its stop call is open and
\* its own, and no thread closes a descriptor that is not open or that is
\* another's by now, although either side may close it (take_socket_fd).
DescriptorsKept ==
    /\ TypeOK
    /\ \A s \in Devices : fd[s] /= None => file[fd[s]] = s
    /\ \A s \in Services : pc[s] \in {"close", "hangup"} /\ local[s] /= None => file[local[s]] = s
    /\ main = "close" /\ main_fd /= None => file[main_fd] = Head(todo)

\* When linux_app ends every descriptor is closed, and the last status it wrote
\* shows no module that runs.
NothingStaysOpen == main = "exit" => up = {} /\ Free = Fds

\* After a signal or a failed start linux_app ends.
Stops == g_should_stop ~> main = "exit"

\* A descriptor in a TX ring is sent, unless linux_app is told to stop or could
\* not start.
RingsDrained ==
    \A i \in Workers : work[i] > 0 ~> work[i] = 0 \/ g_should_stop \/ main = "exit"

-----------------------------------------------------------------------------
(* The inductive invariant. *)

Halted == \A s \in Services : pc[s] = "none"

\* Where main is says which threads there can be.
MainInv ==
    /\ ipc = (main \notin {"config", "map", "exit"})
    /\ main \in {"config", "map", "format", "egress"} => started = {}
    /\ main \in {"config", "map", "format", "egress", "exit"} => Halted
    /\ main \in {"config", "map", "format"} => e_call = "none"
    /\ main \in {"stop", "take", "close", "join"} => e_call = "stopped"
    /\ main = "exit" => e_call \in {"none", "stopped"}
    /\ main \in {"take", "close", "join"} => todo /= <<>>
    /\ main_fd /= None => main = "close"

\* What is still to be started has not been, and what runs is still to be stopped.
TodoInv ==
    /\ \A s \in started : Among(s, StopOrder)
    /\ \A s \in Services : pc[s] /= "none" => s \in started
    /\ main = "start" =>
          /\ \A j, k \in DOMAIN todo : todo[j] = todo[k] => j = k
          /\ \A k \in DOMAIN todo : todo[k] \notin started /\ Among(todo[k], StopOrder)
    /\ main \in {"stop", "take", "close", "join"} =>
          \A s \in Services : pc[s] /= "none" => Among(s, todo)

DevicePCs == {"none", "begin", "check", "open", "share", "receive", "take", "close",
              "leave", "done"}
UdpPCs == {"none", "begin", "check", "leave", "done"}
TcpPCs == UdpPCs \cup {"accept", "client", "hangup"}

\* A device shares its descriptor while its thread receives, a server as long as
\* it has a thread; a server that has not been told to stop has one that runs.
ThreadInv ==
    /\ \A s \in Devices : /\ pc[s] \in DevicePCs
                          /\ fd[s] /= None => pc[s] \in {"receive", "take"}
    /\ \A s \in Udp : pc[s] \in UdpPCs
    /\ \A s \in Tcp : pc[s] \in TcpPCs
    /\ \A s \in Servers : /\ pc[s] = "none" => fd[s] = None
                          /\ ~stop_requested[s] => pc[s] \notin {"none", "leave", "done"}

\* Who holds a descriptor: the thread in its local variable, both sides in the
\* shared state, or main, which has taken it to close it.
Local(s, f) == pc[s] \in {"share", "close", "client", "hangup"} /\ local[s] = f
Closing(s) == main \in {"close", "join"} /\ s = Head(todo)
Shared(s, f) == fd[s] = f /\ (s \in Servers => ~Closing(s))
OfMain(s, f) == main = "close" /\ s = Head(todo) /\ main_fd = f

\* A descriptor that is open is held, and by one of the three.
HeldInv ==
    \A s \in Services, f \in Fds :
        /\ file[f] = s <=> Local(s, f) \/ Shared(s, f) \/ OfMain(s, f)
        /\ ~(Local(s, f) /\ Shared(s, f))
        /\ ~(Local(s, f) /\ OfMain(s, f))
        /\ ~(Shared(s, f) /\ OfMain(s, f))

UpInv == \A m \in up : \E s \in Services : ModuleOf[s] = m /\ pc[s] \notin {"none", "done"}

AppInv == TypeOK /\ CallInv /\ MainInv /\ TodoInv /\ ThreadInv /\ HeldInv /\ UpInv
=============================================================================
