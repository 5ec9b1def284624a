--------------------------- MODULE LinuxAppProofs ---------------------------
(***************************************************************************)
(* The life of linux_app, for any services, any order of start and stop, any  *)
(* number of descriptors and any workers: no thread outlives the region, no   *)
(* descriptor is closed by two, and nothing is open at the end.               *)
(***************************************************************************)
EXTENDS LinuxApp, FiniteSetTheorems, WellFoundedInduction, TLAPS

LEMMA LeastNatural ==
    ASSUME NEW S \in SUBSET Nat, S /= {}
    PROVE  \E n \in S : \A m \in S : n <= m
<1> DEFINE Below(n) == {m \in S : m < n}
           T == {Below(n) : n \in S}
<1>1. ASSUME NEW n \in S PROVE IsFiniteSet(Below(n)) /\ Below(n) \in SUBSET Nat
  <2>1. n \in Nat /\ \A s \in Nat : s < n => s <= n
    OBVIOUS
  <2>2. \A s \in Below(n) : s \in S /\ s < n
    OBVIOUS
  <2> HIDE DEF Below
  <2>3. Below(n) \in SUBSET Nat /\ \A s \in Below(n) : s <= n
    BY <2>1, <2>2
  <2> QED BY <2>1, <2>3, FS_BoundedSetOfNaturals
<1>2. T \subseteq FiniteSubsetsOf(Nat) /\ T /= {}
  BY <1>1 DEF FiniteSubsetsOf
<1>3. PICK B \in T : \A A \in T : ~(<<A, B>> \in StrictSubsetOrdering(Nat))
  <2> HIDE DEF T
  <2> QED BY <1>2, FS_StrictSubsetOrderingWellFounded, WFMin
<1>4. PICK n \in S : B = Below(n)
  OBVIOUS
<1>5. ASSUME NEW m \in S, m < n PROVE FALSE
  <2>1. Below(m) \in T /\ Below(m) \subseteq B /\ m \in B /\ m \notin Below(m)
    <3>1. m \in Nat /\ n \in Nat /\ m < n
      BY <1>5
    <3>2. \A k \in Nat : k < m => k < n
      BY <3>1
    <3>3. \A k : k \in Below(m) <=> k \in S /\ k < m
      OBVIOUS
    <3>4. \A k : k \in B <=> k \in S /\ k < n
      BY <1>4
    <3>5. Below(m) \in T
      OBVIOUS
    <3>6. ~(m < m)
      BY <3>1
    <3> HIDE DEF Below, T
    <3> QED BY <3>1, <3>2, <3>3, <3>4, <3>5, <3>6
  <2>2. Below(m) \in SUBSET Nat /\ B \in SUBSET Nat
    BY <1>4
  <2>3. <<Below(m), B>> \in StrictSubsetOrdering(Nat)
    BY <2>1, <2>2 DEF StrictSubsetOrdering
  <2> QED BY <1>3, <2>1, <2>3
<1> QED BY <1>5

\* The lowest descriptor that is left is one that nobody holds.
LEMMA LowestFree ==
    ASSUME Free /= {}
    PROVE  Lowest(Free) \in Fds /\ file[Lowest(Free)] = None
<1>1. Free \in SUBSET Nat
  BY LinuxAppAssumption DEF Free
<1>2. \E f \in Free : \A g \in Free : f <= g
  BY <1>1, LeastNatural
<1>3. Lowest(Free) \in Free
  BY <1>2 DEF Lowest
<1> QED BY <1>3 DEF Free

-----------------------------------------------------------------------------
(* The threads of the egress manager and the calls that create and join them. *)

Gone == {"none", "done"}

LEMMA WorkerFacts ==
    /\ N \in Nat
    /\ \A k \in 1 .. N : WorkerOrder[k] \in Workers
    /\ \A i \in Workers : \E k \in 1 .. N : i = WorkerOrder[k]
    /\ WorkDepth \in Nat /\ Budget \in Nat /\ Budget > 0
<1> QED BY EgressAssumption DEF N, Workers

EgressInv == EgressTypeOK /\ CallInv

\* Threads that are gone do not come back.
LEMMA GoneStays ==
    ASSUME CallInv, UNCHANGED mainVars,
           m_pc \in Gone => m_pc' \in Gone,
           \A i \in Workers : w_pc[i] \in Gone => w_pc'[i] \in Gone
    PROVE  CallInv'
<1>1. \A k \in 1 .. N : WorkerOrder[k] \in Workers
  BY WorkerFacts
<1> QED BY <1>1 DEF CallInv, EgressThreadsGone, mainVars, Gone

LEMMA WorkerSteps ==
    ASSUME EgressInv, NEW i \in Workers,
           WorkerStep(i) \/ WorkerSpurious(i) \/ RtosEnqueues(i)
    PROVE  EgressInv' /\ UNCHANGED mainVars
<1> USE DEF EgressInv
<1>1. UNCHANGED mainVars /\ UNCHANGED mgrVars
  BY DEF WorkerStep, WorkerTest, WorkerTake, WorkerDrained, WorkerSpurious, RtosEnqueues
<1>2. ASSUME WorkerTest(i) PROVE EgressTypeOK'
  <2>1. /\ w_pc \in [Workers -> {"none", "test", "wait", "drain", "done"}]
        /\ w_wake \in [Workers -> BOOLEAN] /\ left \in [Workers -> 0 .. Budget]
    BY DEF EgressTypeOK
  <2>2. /\ w_pc' \in [Workers -> {"none", "test", "wait", "drain", "done"}]
        /\ w_wake' \in [Workers -> BOOLEAN] /\ left' \in [Workers -> 0 .. Budget]
    <3>1. CASE ~w_wake[i] /\ ~w_stop[i]
      BY <1>2, <2>1, <3>1 DEF WorkerTest
    <3>2. CASE ~(~w_wake[i] /\ ~w_stop[i])
      <4>1. 0 \in 0 .. Budget /\ Budget \in 0 .. Budget
        BY WorkerFacts
      <4>2. (IF w_stop[i] THEN 0 ELSE Budget) \in 0 .. Budget
        BY <4>1
      <4>3. (IF w_stop[i] THEN "done" ELSE "drain") \in {"done", "drain"}
        OBVIOUS
      <4> QED BY <1>2, <2>1, <3>2, <4>2, <4>3 DEF WorkerTest
    <3> QED BY <3>1, <3>2
  <2>3. w_stop' = w_stop /\ work' = work
    BY <1>2 DEF WorkerTest
  <2> QED BY <1>1, <2>2, <2>3 DEF EgressTypeOK, mainVars, mgrVars
<1>3. ASSUME WorkerTake(i) PROVE EgressTypeOK'
  BY <1>3, WorkerFacts DEF WorkerTake, EgressTypeOK, mainVars, mgrVars
<1>4. ASSUME WorkerDrained(i) PROVE EgressTypeOK'
  BY <1>4, WorkerFacts DEF WorkerDrained, EgressTypeOK, mainVars, mgrVars
<1>5. ASSUME WorkerSpurious(i) PROVE EgressTypeOK'
  BY <1>5 DEF WorkerSpurious, EgressTypeOK, mainVars, mgrVars
<1>6. ASSUME RtosEnqueues(i) PROVE EgressTypeOK'
  BY <1>6, WorkerFacts DEF RtosEnqueues, EgressTypeOK, mainVars, mgrVars, wkVars
<1>7. \A j \in Workers : w_pc[j] \in Gone => w_pc'[j] \in Gone
  BY DEF WorkerStep, WorkerTest, WorkerTake, WorkerDrained, WorkerSpurious, RtosEnqueues,
         wkVars, EgressTypeOK, Gone
<1>8. CallInv'
  BY <1>1, <1>7, GoneStays DEF mgrVars
<1> QED BY <1>1, <1>2, <1>3, <1>4, <1>5, <1>6, <1>8 DEF WorkerStep

LEMMA ManagerSteps ==
    ASSUME EgressInv, ManagerStep
    PROVE  EgressInv' /\ UNCHANGED mainVars
<1> USE DEF EgressInv
<1>1. UNCHANGED mainVars
  BY DEF ManagerStep, ManagerScan, ManagerWake, ManagerWaits, ManagerLeaves
<1>2. ASSUME ManagerScan PROVE EgressTypeOK'
  BY <1>2 DEF ManagerScan, EgressTypeOK, mainVars, wkVars
<1>3. ASSUME ManagerWake PROVE EgressTypeOK'
  <2>1. m_next \in 1 .. N /\ WorkerOrder[m_next] \in Workers
    BY <1>3, WorkerFacts DEF ManagerWake, EgressTypeOK
  <2>2. PICK i \in Workers : i = WorkerOrder[m_next]
    BY <2>1
  <2>3. /\ w_pc \in [Workers -> {"none", "test", "wait", "drain", "done"}]
        /\ w_wake \in [Workers -> BOOLEAN]
    BY DEF EgressTypeOK
  <2>4. /\ w_pc' \in [Workers -> {"none", "test", "wait", "drain", "done"}]
        /\ w_wake' \in [Workers -> BOOLEAN]
    <3>1. CASE UNCHANGED <<w_wake, w_pc>>
      BY <2>3, <3>1
    <3>2. CASE WakeWorker(i)
      BY <2>3, <3>2 DEF WakeWorker, Signalled
    <3> QED BY <1>3, <2>2, <3>1, <3>2 DEF ManagerWake
  <2>5. m_next' \in 1 .. N + 1 /\ m_bits' \subseteq Workers
    BY <1>3, <2>1, WorkerFacts DEF ManagerWake, EgressTypeOK
  <2>6. UNCHANGED <<mainVars, m_pc, m_stop, w_stop, left, work>>
    BY <1>3 DEF ManagerWake
  <2> QED BY <2>4, <2>5, <2>6 DEF EgressTypeOK, mainVars
<1>4. ASSUME ManagerWaits \/ ManagerLeaves PROVE EgressTypeOK'
  BY <1>4, WorkerFacts DEF ManagerWaits, ManagerLeaves, EgressTypeOK, mainVars, wkVars
<1>5. m_pc \in Gone => m_pc' \in Gone
  BY DEF ManagerStep, ManagerScan, ManagerWake, ManagerWaits, ManagerLeaves, Gone
<1>6. \A j \in Workers : w_pc[j] \in Gone => w_pc'[j] \in Gone
  BY DEF ManagerStep, ManagerScan, ManagerWake, ManagerWaits, ManagerLeaves,
         WakeWorker, Signalled, wkVars, EgressTypeOK, Gone
<1>7. CallInv'
  BY <1>1, <1>5, <1>6, GoneStays
<1> QED BY <1>2, <1>3, <1>4, <1>1, <1>7 DEF ManagerStep

LEMMA CallSteps ==
    ASSUME EgressInv, EgressCall
    PROVE  EgressInv' /\ e_call \in {"create", "stop", "join"}
<1> USE DEF EgressInv
<1>1. CASE Create
  <2>1. e_call = "create" /\ e_next > 0 /\ e_next \in 0 .. N + 1
    BY <1>1 DEF Create, CallInv, EgressTypeOK
  <2>2. CASE e_next <= N
    <3>1. PICK i \in Workers : i = WorkerOrder[e_next]
      BY <2>1, <2>2, WorkerFacts
    <3>2. /\ w_stop' = [w_stop EXCEPT ![i] = FALSE]
          /\ w_wake' = [w_wake EXCEPT ![i] = FALSE]
          /\ w_pc' = [w_pc EXCEPT ![i] = "test"]
          /\ e_next' = e_next + 1
          /\ UNCHANGED <<e_call, m_pc, m_stop, m_bits, m_next, left, work>>
      BY <1>1, <2>2, <3>1 DEF Create
    <3>3. e_next' \in 0 .. N + 1 /\ e_next' > 0
      BY <2>1, <2>2, <3>2, WorkerFacts
    <3>4. EgressTypeOK'
      BY <3>2, <3>3 DEF EgressTypeOK
    <3> QED BY <2>1, <3>2, <3>3, <3>4 DEF CallInv
  <2>3. CASE ~(e_next <= N)
    BY <1>1, <2>1, <2>3, WorkerFacts DEF Create, CallInv, EgressTypeOK
  <2> QED BY <2>1, <2>2, <2>3
<1>2. CASE CreateFails
  BY <1>2, WorkerFacts DEF CreateFails, CallInv, EgressTypeOK, mgrVars, wkVars
<1>3. CASE StopManager
  BY <1>3, WorkerFacts DEF StopManager, CallInv, EgressTypeOK, wkVars
<1>4. CASE StopWorker
  <2>1. WorkerOrder[e_next] \in Workers
    BY <1>4, WorkerFacts DEF StopWorker
  <2> QED BY <1>4, <2>1, WorkerFacts
          DEF StopWorker, WakeWorker, Signalled, CallInv, EgressTypeOK, mgrVars
<1>5. CASE StopTold
  BY <1>5, WorkerFacts DEF StopTold, CallInv, EgressTypeOK, mgrVars, wkVars
<1>6. CASE Join
  <2>1. e_call = "join" /\ e_next \in 0 .. N
    BY <1>6, WorkerFacts DEF Join, CallInv, EgressTypeOK
  <2>2. e_next > 0 => WorkerOrder[e_next] \in Workers
    BY <2>1, WorkerFacts
  <2>3. EgressTypeOK'
    BY <1>6, <2>1, <2>2, WorkerFacts DEF Join, EgressTypeOK
  <2>4. \A i \in Workers : w_pc[i] \in Gone => w_pc'[i] \in Gone
    BY <1>6 DEF Join, EgressTypeOK, Gone
  <2>5. m_pc' \in Gone
    BY <1>6, <2>1 DEF Join, CallInv, Gone
  <2>6. ASSUME NEW k \in 1 .. N, k <= e_next PROVE w_pc'[WorkerOrder[k]] \in Gone
    <3>1. WorkerOrder[k] \in Workers
      BY WorkerFacts
    <3>2. CASE k < e_next
      BY <2>1, <2>4, <3>1, <3>2 DEF CallInv, Gone
    <3>3. CASE k = e_next
      BY <1>6, <2>2, <3>1, <3>3 DEF Join, EgressTypeOK, Gone
    <3> QED BY <2>1, <2>6, <3>2, <3>3
  <2>7. CASE e_next = N
    <3>1. e_call' = "stopped"
      BY <1>6, <2>7 DEF Join
    <3>2. EgressThreadsGone'
      BY <2>5, <2>6, <2>7, WorkerFacts DEF EgressThreadsGone, Gone
    <3> QED BY <2>1, <2>3, <3>1, <3>2 DEF CallInv
  <2>8. CASE e_next /= N
    <3>1. e_call' = "join" /\ e_next' = e_next + 1
      BY <1>6, <2>1, <2>8 DEF Join
    <3>2. e_next' \in Nat /\ e_next' <= N
      BY <2>1, <2>8, <3>1, WorkerFacts
    <3>3. ASSUME NEW k \in 1 .. N, k < e_next' PROVE w_pc'[WorkerOrder[k]] \in Gone
      <4>1. k <= e_next
        BY <2>1, <3>1, <3>3
      <4> QED BY <2>6, <4>1
    <3>4. /\ ~(e_call' \in {"none", "stopped"})
          /\ e_call' /= "create"
      BY <3>1
    <3>5. m_pc' \in {"none", "done"}
      BY <2>5 DEF Gone
    <3>6. \A k \in 1 .. N : k < e_next' => w_pc'[WorkerOrder[k]] \in {"none", "done"}
      BY <3>3 DEF Gone
    <3>7. CallInv'
      BY <3>2, <3>4, <3>5, <3>6 DEF CallInv
    <3> QED BY <2>1, <2>3, <3>7
  <2> QED BY <2>7, <2>8
<1> QED BY <1>1, <1>2, <1>3, <1>4, <1>5, <1>6 DEF EgressCall

LEMMA EgressKept ==
    ASSUME EgressInv, UNCHANGED egressVars
    PROVE  EgressInv'
<1>1. UNCHANGED <<mainVars, m_pc, w_pc>>
  BY DEF egressVars, mgrVars, wkVars
<1>2. EgressTypeOK'
  BY DEF EgressInv, EgressTypeOK, egressVars, mainVars, mgrVars, wkVars
<1> QED BY <1>1, <1>2, GoneStays DEF EgressInv

LEMMA CallsTyped ==
    ASSUME EgressInv, CallStart \/ CallStop
    PROVE  EgressInv'
<1>1. /\ e_call' \in {"create", "stop"}
      /\ e_next' \in 0 .. N + 1
      /\ e_call' = "create" => e_next' > 0
  BY WorkerFacts DEF CallStart, CallStop
<1>2. CallInv'
  BY <1>1 DEF CallInv
<1>3. m_stop' \in BOOLEAN /\ UNCHANGED <<m_pc, m_bits, m_next, wkVars, work>>
  BY DEF CallStart, CallStop, EgressInv, EgressTypeOK, mgrVars
<1> QED BY <1>1, <1>2, <1>3 DEF EgressInv, EgressTypeOK, wkVars

-----------------------------------------------------------------------------
(* Where main is, what it has still to start or to stop, and the threads.     *)

Mains == {"config", "map", "format", "egress", "start", "loop", "egressStop",
          "stop", "take", "close", "join", "exit"}
PCs == {"none", "begin", "check", "open", "share", "receive", "take", "close",
        "accept", "client", "hangup", "leave", "done"}

AppTyped ==
    /\ main \in Mains
    /\ todo \in Seq(Services) /\ started \subseteq Services
    /\ g_should_stop \in BOOLEAN /\ ipc \in BOOLEAN
    /\ exit_code \in {"success", "failure"}
    /\ pc \in [Services -> PCs]
    /\ stop_requested \in [Services -> BOOLEAN]
    /\ fd \in [Services -> Fds \cup {None}] /\ local \in [Services -> Fds \cup {None}]
    /\ main_fd \in Fds \cup {None}
    /\ file \in [Fds -> Services \cup {None}]
    /\ up \subseteq Modules

OwnInv == AppTyped /\ MainInv /\ TodoInv /\ ThreadInv /\ HeldInv /\ UpInv

LEMMA AppInvParts ==
    /\ AppInv <=> EgressInv /\ OwnInv
    /\ AppInv' <=> EgressInv' /\ OwnInv'
<1> QED BY DEF AppInv, TypeOK, EgressInv, OwnInv, AppTyped, Mains, PCs

LEMMA ServiceFacts ==
    /\ Devices \subseteq Services /\ Udp \subseteq Services /\ Tcp \subseteq Services
    /\ Servers \subseteq Services
    /\ \A s \in Services : s \in Devices <=> s \notin Servers
    /\ \A s \in Services : s \in Servers => (s \in Udp <=> s \notin Tcp)
    /\ \A s \in Services : ModuleOf[s] \in Modules
    /\ \A s \in Devices : \A t \in Services : ModuleOf[t] = ModuleOf[s] => t = s
    /\ None \notin Fds /\ None \notin Services
<1> QED BY LinuxAppAssumption DEF Services, Servers, Modules

LEMMA HeadFacts ==
    ASSUME todo \in Seq(Services), todo /= <<>>
    PROVE  /\ Head(todo) \in Services /\ Head(todo) = todo[1] /\ 1 \in DOMAIN todo
           /\ Tail(todo) \in Seq(Services)
           /\ \A k \in DOMAIN Tail(todo) :
                 k + 1 \in DOMAIN todo /\ Tail(todo)[k] = todo[k + 1] /\ k + 1 /= 1
           /\ \A s : Among(s, todo) => s = Head(todo) \/ Among(s, Tail(todo))
<1>1. /\ Head(todo) \in Services /\ Head(todo) = todo[1] /\ 1 \in DOMAIN todo
      /\ Tail(todo) \in Seq(Services)
  OBVIOUS
<1>2. \A k \in DOMAIN Tail(todo) :
         k + 1 \in DOMAIN todo /\ Tail(todo)[k] = todo[k + 1] /\ k + 1 /= 1
  OBVIOUS
<1>3. ASSUME NEW s, Among(s, todo), s /= Head(todo) PROVE Among(s, Tail(todo))
  <2>1. PICK k \in DOMAIN todo : todo[k] = s
    BY <1>3 DEF Among
  <2>2. k - 1 \in DOMAIN Tail(todo) /\ Tail(todo)[k - 1] = s
    BY <1>1, <1>3, <2>1
  <2> QED BY <2>2 DEF Among
<1> QED BY <1>1, <1>2, <1>3

\* A step of a thread, which neither begins nor ends with none.
LEMMA ThreadKeepsMain ==
    ASSUME AppTyped, MainInv, TodoInv, NEW s \in Services, NEW from \in PCs \ {"none"},
           NEW to \in PCs \ {"none"}, Step(s, from, to)
    PROVE  /\ pc' \in [Services -> PCs] /\ MainInv' /\ TodoInv'
           /\ UNCHANGED <<main, todo, started, exit_code, ipc, main_fd>>
           /\ UNCHANGED <<egressVars, g_should_stop, stop_requested>>
           /\ pc[s] = from /\ pc'[s] = to
           /\ \A t \in Services \ {s} : pc'[t] = pc[t]
<1>1. /\ pc' = [pc EXCEPT ![s] = to] /\ pc[s] = from
      /\ UNCHANGED <<main, todo, started, exit_code, ipc, main_fd, e_call>>
      /\ UNCHANGED <<egressVars, g_should_stop, stop_requested>>
  BY DEF Step, mainVars2, egressVars, mainVars
<1>2. /\ pc' \in [Services -> PCs] /\ pc'[s] = to
      /\ \A t \in Services \ {s} : pc'[t] = pc[t]
  BY <1>1 DEF AppTyped
<1>3. \A t \in Services : pc'[t] = "none" <=> pc[t] = "none"
  BY <1>1, <1>2
<1>4. MainInv'
  BY <1>1, <1>3 DEF MainInv, Halted
<1>5. TodoInv'
  BY <1>1, <1>3 DEF TodoInv, Among
<1> QED BY <1>1, <1>2, <1>4, <1>5

\* A step of the egress manager.
LEMMA EgressKeepsOwn ==
    ASSUME OwnInv, UNCHANGED appVars,
           e_call' = e_call \/ e_call \in {"create", "stop", "join"}
    PROVE  OwnInv'
<1>1. /\ UNCHANGED <<main, todo, started, exit_code, ipc, main_fd, g_should_stop>>
      /\ UNCHANGED <<pc, local, up, stop_requested, fd, file>>
  BY DEF appVars, mainVars2, serviceVars, threadVars
<1>2. AppTyped'
  BY <1>1 DEF OwnInv, AppTyped
<1>3. MainInv'
  BY <1>1 DEF OwnInv, MainInv, Halted
<1>4. TodoInv'
  BY <1>1 DEF OwnInv, TodoInv, Among
<1>5. ThreadInv'
  BY <1>1 DEF OwnInv, ThreadInv
<1>6. HeldInv'
  BY <1>1 DEF OwnInv, HeldInv, Local, Shared, OfMain, Closing
<1>7. UpInv'
  BY <1>1 DEF OwnInv, UpInv
<1> QED BY <1>2, <1>3, <1>4, <1>5, <1>6, <1>7 DEF OwnInv

-----------------------------------------------------------------------------
(* Who holds a descriptor.                                                   *)

Same(t, f) == /\ Local(t, f)' <=> Local(t, f)
              /\ Shared(t, f)' <=> Shared(t, f)
              /\ OfMain(t, f)' <=> OfMain(t, f)

LEMMA HeldSame ==
    ASSUME HeldInv, UNCHANGED file, \A t \in Services, f \in Fds : Same(t, f)
    PROVE  HeldInv'
<1> QED BY DEF HeldInv, Same

\* The descriptor is handed on, and nothing else changes.
LEMMA HeldMoved ==
    ASSUME HeldInv, UNCHANGED file, NEW s \in Services,
           \A t \in Services, f \in Fds : t /= s => Same(t, f),
           \A f \in Fds :
              /\ (Local(s, f) \/ Shared(s, f) \/ OfMain(s, f))
                    <=> (Local(s, f)' \/ Shared(s, f)' \/ OfMain(s, f)')
              /\ ~(Local(s, f)' /\ Shared(s, f)')
              /\ ~(Local(s, f)' /\ OfMain(s, f)')
              /\ ~(Shared(s, f)' /\ OfMain(s, f)')
    PROVE  HeldInv'
<1> SUFFICES ASSUME NEW t \in Services, NEW f \in Fds
             PROVE  /\ file'[f] = t <=> Local(t, f)' \/ Shared(t, f)' \/ OfMain(t, f)'
                    /\ ~(Local(t, f)' /\ Shared(t, f)')
                    /\ ~(Local(t, f)' /\ OfMain(t, f)')
                    /\ ~(Shared(t, f)' /\ OfMain(t, f)')
  BY DEF HeldInv
<1>1. CASE t = s
  BY <1>1 DEF HeldInv
<1>2. CASE t /= s
  BY <1>2 DEF HeldInv, Same
<1> QED BY <1>1, <1>2

LEMMA HeldOpened ==
    ASSUME AppTyped, HeldInv, NEW s \in Services, NEW f0 \in Fds, file[f0] = None,
           file' = [file EXCEPT ![f0] = s],
           \A t \in Services, f \in Fds :
              IF t = s /\ f = f0 THEN (Local(t, f)' <=> ~Shared(t, f)') /\ ~OfMain(t, f)'
              ELSE Same(t, f)
    PROVE  HeldInv' /\ file' \in [Fds -> Services \cup {None}]
<1> SUFFICES ASSUME NEW t \in Services, NEW f \in Fds
             PROVE  /\ file'[f] = t <=> Local(t, f)' \/ Shared(t, f)' \/ OfMain(t, f)'
                    /\ ~(Local(t, f)' /\ Shared(t, f)')
                    /\ ~(Local(t, f)' /\ OfMain(t, f)')
                    /\ ~(Shared(t, f)' /\ OfMain(t, f)')
  BY DEF HeldInv, AppTyped
<1>1. file'[f] = IF f = f0 THEN s ELSE file[f]
  BY DEF AppTyped
<1>2. CASE t = s /\ f = f0
  BY <1>1, <1>2
<1>3. CASE ~(t = s /\ f = f0)
  <2>1. file'[f] = t <=> file[f] = t
    BY <1>1, <1>3, ServiceFacts
  <2> QED BY <1>3, <2>1 DEF HeldInv, Same
<1> QED BY <1>2, <1>3

LEMMA HeldClosed ==
    ASSUME AppTyped, HeldInv, NEW s \in Services, NEW f0 \in Fds, file[f0] = s,
           Closed(f0),
           \A t \in Services, f \in Fds :
              IF t = s /\ f = f0 THEN ~Local(t, f)' /\ ~Shared(t, f)' /\ ~OfMain(t, f)'
              ELSE Same(t, f)
    PROVE  HeldInv' /\ file' \in [Fds -> Services \cup {None}]
<1>1. file' = [g \in Fds |-> IF g = f0 THEN None ELSE file[g]]
  BY DEF Closed
<1> SUFFICES ASSUME NEW t \in Services, NEW f \in Fds
             PROVE  /\ file'[f] = t <=> Local(t, f)' \/ Shared(t, f)' \/ OfMain(t, f)'
                    /\ ~(Local(t, f)' /\ Shared(t, f)')
                    /\ ~(Local(t, f)' /\ OfMain(t, f)')
                    /\ ~(Shared(t, f)' /\ OfMain(t, f)')
  BY <1>1 DEF HeldInv, AppTyped
<1>2. file'[f] = IF f = f0 THEN None ELSE file[f]
  BY <1>1
<1>3. CASE t = s /\ f = f0
  BY <1>2, <1>3, ServiceFacts
<1>4. CASE ~(t = s /\ f = f0)
  <2>1. file'[f] = t <=> file[f] = t
    BY <1>2, <1>4, ServiceFacts
  <2> QED BY <1>4, <2>1 DEF HeldInv, Same
<1> QED BY <1>3, <1>4

LEMMA NothingClosed ==
    ASSUME AppTyped, Closed(None)
    PROVE  UNCHANGED file
<1>1. file' = [g \in Fds |-> IF g = None THEN None ELSE file[g]]
  BY DEF Closed
<1>2. \A g \in Fds : g /= None
  BY ServiceFacts
<1> QED BY <1>1, <1>2 DEF AppTyped

-----------------------------------------------------------------------------
(* The steps of the receiving threads.                                       *)

Holding == {"share", "close", "client", "hangup"}

\* Where a service may be, with its descriptor shared or not.
Allowed(s, to) ==
    /\ s \in Devices => to \in DevicePCs /\ (fd'[s] /= None => to \in {"receive", "take"})
    /\ s \in Udp => to \in UdpPCs
    /\ s \in Tcp => to \in TcpPCs
    /\ s \in Servers /\ ~stop_requested[s] => to \notin {"leave", "done"}

LEMMA ThreadRest ==
    ASSUME OwnInv, NEW s \in Services, NEW from \in PCs \ {"none"},
           NEW to \in PCs \ {"none"}, Step(s, from, to), Allowed(s, to),
           fd' \in [Services -> Fds \cup {None}], local' \in [Services -> Fds \cup {None}],
           file' \in [Fds -> Services \cup {None}], up' \subseteq Modules,
           \A t \in Services \ {s} : fd'[t] = fd[t]
    PROVE  AppTyped' /\ MainInv' /\ TodoInv' /\ ThreadInv'
<1>1. /\ pc' \in [Services -> PCs] /\ MainInv' /\ TodoInv'
      /\ UNCHANGED <<main, todo, started, exit_code, ipc, main_fd>>
      /\ UNCHANGED <<egressVars, g_should_stop, stop_requested>>
      /\ pc'[s] = to
      /\ \A t \in Services \ {s} : pc'[t] = pc[t]
  BY ThreadKeepsMain DEF OwnInv
<1>2. AppTyped'
  BY <1>1 DEF OwnInv, AppTyped
<1>3. ASSUME NEW t \in Services
      PROVE  /\ t \in Devices => /\ pc'[t] \in DevicePCs
                                 /\ fd'[t] /= None => pc'[t] \in {"receive", "take"}
             /\ t \in Udp => pc'[t] \in UdpPCs
             /\ t \in Tcp => pc'[t] \in TcpPCs
             /\ t \in Servers =>
                   /\ pc'[t] = "none" => fd'[t] = None
                   /\ ~stop_requested'[t] => pc'[t] \notin {"none", "leave", "done"}
  <2>1. CASE t = s
    BY <1>1, <2>1 DEF Allowed
  <2>2. CASE t /= s
    BY <1>1, <2>2 DEF OwnInv, ThreadInv
  <2> QED BY <2>1, <2>2
<1>4. ThreadInv'
  BY <1>3, ServiceFacts DEF ThreadInv
<1> QED BY <1>1, <1>2, <1>4

LEMMA ClaimsOfOthers ==
    ASSUME OwnInv, NEW s \in Services, NEW from \in PCs \ {"none"},
           NEW to \in PCs \ {"none"}, Step(s, from, to),
           \A t \in Services \ {s} : fd'[t] = fd[t] /\ local'[t] = local[t]
    PROVE  /\ \A t \in Services, f \in Fds : t /= s => Same(t, f)
           /\ \A f \in Fds :
                 /\ Local(s, f)' <=> to \in Holding /\ local'[s] = f
                 /\ Local(s, f) <=> from \in Holding /\ local[s] = f
                 /\ Shared(s, f)' <=> fd'[s] = f /\ (s \in Servers => ~Closing(s))
                 /\ OfMain(s, f)' <=> OfMain(s, f)
<1>1. /\ UNCHANGED <<main, todo, main_fd>>
      /\ pc[s] = from /\ pc'[s] = to
      /\ \A t \in Services \ {s} : pc'[t] = pc[t]
  BY ThreadKeepsMain DEF OwnInv
<1>2. \A t : Closing(t)' <=> Closing(t)
  BY <1>1 DEF Closing
<1> QED BY <1>1, <1>2 DEF Same, Local, Shared, OfMain, Holding

LEMMA UpKept ==
    ASSUME OwnInv, NEW s \in Services, NEW from \in PCs \ {"none"},
           NEW to \in PCs \ {"none", "done"}, Step(s, from, to),
           up' = up \/ up' = up \cup {ModuleOf[s]}
    PROVE  UpInv' /\ up' \subseteq Modules
<1>1. /\ pc'[s] = to
      /\ \A t \in Services \ {s} : pc'[t] = pc[t]
  BY ThreadKeepsMain DEF OwnInv
<1>2. \A t \in Services : pc[t] \notin {"none", "done"} => pc'[t] \notin {"none", "done"}
  BY <1>1
<1>3. up' \subseteq Modules
  BY ServiceFacts DEF OwnInv, AppTyped
<1>4. ASSUME NEW m \in up'
      PROVE  \E t \in Services : ModuleOf[t] = m /\ pc'[t] \notin {"none", "done"}
  <2>1. CASE m \in up
    BY <1>2, <2>1 DEF OwnInv, UpInv
  <2>2. CASE m = ModuleOf[s]
    BY <1>1, <2>2
  <2> QED BY <2>1, <2>2
<1> QED BY <1>3, <1>4 DEF UpInv

\* A step that leaves the descriptors where they are.
LEMMA ThreadMoves ==
    ASSUME OwnInv, NEW s \in Services, NEW from \in PCs \ {"none"},
           NEW to \in PCs \ {"none", "done"}, Step(s, from, to), Allowed(s, to),
           UNCHANGED <<fd, local, file>>, from \in Holding <=> to \in Holding,
           up' = up \/ up' = up \cup {ModuleOf[s]}
    PROVE  OwnInv'
<1>1. /\ fd' \in [Services -> Fds \cup {None}] /\ local' \in [Services -> Fds \cup {None}]
      /\ file' \in [Fds -> Services \cup {None}]
  BY DEF OwnInv, AppTyped
<1>2. UpInv' /\ up' \subseteq Modules
  BY UpKept
<1>3. AppTyped' /\ MainInv' /\ TodoInv' /\ ThreadInv'
  BY <1>1, <1>2, ThreadRest
<1>4. \A t \in Services, f \in Fds : Same(t, f)
  BY ClaimsOfOthers DEF Same, Shared
<1>5. HeldInv'
  BY <1>4, HeldSame DEF OwnInv
<1> QED BY <1>2, <1>3, <1>5 DEF OwnInv

\* A descriptor is opened into the local variable.
LEMMA ThreadOpens ==
    ASSUME OwnInv, NEW s \in Services, NEW from \in PCs \ ({"none"} \cup Holding),
           NEW to \in Holding, Step(s, from, to), Allowed(s, to),
           Free /= {}, UNCHANGED <<fd, up>>,
           file' = [file EXCEPT ![Lowest(Free)] = s],
           local' = [local EXCEPT ![s] = Lowest(Free)]
    PROVE  OwnInv'
<1>1. PICK f0 \in Fds : f0 = Lowest(Free) /\ file[f0] = None
  BY LowestFree
<1>2. /\ file' = [file EXCEPT ![f0] = s] /\ local' = [local EXCEPT ![s] = f0]
      /\ local' \in [Services -> Fds \cup {None}]
      /\ file' \in [Fds -> Services \cup {None}]
      /\ local'[s] = f0 /\ \A t \in Services \ {s} : local'[t] = local[t]
  BY <1>1 DEF OwnInv, AppTyped
<1>3. to \in PCs \ {"none", "done"}
  BY DEF PCs, Holding
<1>4. UpInv' /\ up' \subseteq Modules
  BY <1>3, UpKept
<1>5. AppTyped' /\ MainInv' /\ TodoInv' /\ ThreadInv'
  BY <1>2, <1>3, <1>4, ThreadRest DEF OwnInv, AppTyped
<1>6. /\ \A t \in Services, f \in Fds : t /= s => Same(t, f)
      /\ \A f \in Fds : /\ Local(s, f)' <=> local'[s] = f
                        /\ ~Local(s, f)
                        /\ Shared(s, f)' <=> Shared(s, f)
                        /\ OfMain(s, f)' <=> OfMain(s, f)
  BY <1>2, <1>3, ClaimsOfOthers DEF Shared
<1>7. ~Shared(s, f0) /\ ~OfMain(s, f0)
  <2>1. file[f0] /= s
    BY <1>1, ServiceFacts
  <2> QED BY <2>1 DEF OwnInv, HeldInv
<1>8. ASSUME NEW t \in Services, NEW f \in Fds
      PROVE  IF t = s /\ f = f0 THEN (Local(t, f)' <=> ~Shared(t, f)') /\ ~OfMain(t, f)'
             ELSE Same(t, f)
  <2>1. CASE t = s /\ f = f0
    BY <1>2, <1>6, <1>7, <2>1
  <2>2. CASE t = s /\ f /= f0
    BY <1>2, <1>6, <2>2 DEF Same
  <2>3. CASE t /= s
    BY <1>6, <2>3
  <2> QED BY <2>1, <2>2, <2>3
<1>9. HeldInv'
  BY <1>1, <1>2, <1>8, HeldOpened DEF OwnInv
<1> QED BY <1>4, <1>5, <1>9 DEF OwnInv

\* The descriptor of the local variable, if there is one, is closed.
LEMMA ThreadCloses ==
    ASSUME OwnInv, NEW s \in Services, NEW from \in Holding,
           NEW to \in PCs \ ({"none", "done"} \cup Holding), Step(s, from, to),
           Allowed(s, to), UNCHANGED <<fd, up>>,
           Closed(local[s]), local' = [local EXCEPT ![s] = None]
    PROVE  OwnInv'
<1>1. /\ local' \in [Services -> Fds \cup {None}]
      /\ local'[s] = None /\ \A t \in Services \ {s} : local'[t] = local[t]
      /\ local[s] \in Fds \cup {None}
  BY DEF OwnInv, AppTyped
<1>2. from \in PCs \ {"none"}
  BY DEF PCs, Holding
<1>3. UpInv' /\ up' \subseteq Modules
  BY <1>2, UpKept
<1>4. /\ \A t \in Services, f \in Fds : t /= s => Same(t, f)
      /\ \A f \in Fds : /\ ~Local(s, f)'
                        /\ Local(s, f) <=> local[s] = f
                        /\ Shared(s, f)' <=> Shared(s, f)
                        /\ OfMain(s, f)' <=> OfMain(s, f)
  BY <1>1, <1>2, ClaimsOfOthers DEF Shared
<1>5. HeldInv' /\ file' \in [Fds -> Services \cup {None}]
  <2>1. CASE local[s] = None
    <3>1. UNCHANGED file
      BY <2>1, NothingClosed DEF OwnInv
    <3>2. \A t \in Services, f \in Fds : Same(t, f)
      BY <1>4, <2>1, ServiceFacts DEF Same
    <3> QED BY <3>1, <3>2, HeldSame DEF OwnInv, AppTyped
  <2>2. CASE local[s] /= None
    <3>1. PICK f0 \in Fds : f0 = local[s]
      BY <1>1, <2>2
    <3>2. file[f0] = s /\ ~Shared(s, f0) /\ ~OfMain(s, f0)
      BY <1>4, <3>1 DEF OwnInv, HeldInv
    <3>3. \A t \in Services, f \in Fds :
             IF t = s /\ f = f0 THEN ~Local(t, f)' /\ ~Shared(t, f)' /\ ~OfMain(t, f)'
             ELSE Same(t, f)
      BY <1>4, <3>1, <3>2 DEF Same
    <3> QED BY <3>1, <3>2, <3>3, HeldClosed DEF OwnInv
  <2> QED BY <2>1, <2>2
<1>6. AppTyped' /\ MainInv' /\ TodoInv' /\ ThreadInv'
  BY <1>1, <1>2, <1>3, <1>5, ThreadRest DEF OwnInv, AppTyped
<1> QED BY <1>3, <1>5, <1>6 DEF OwnInv

LEMMA ShareStep ==
    ASSUME OwnInv, NEW s \in Devices, SetSocketState(s)
    PROVE  OwnInv'
<1>1. /\ Step(s, "share", "receive") /\ fd' = [fd EXCEPT ![s] = local[s]]
      /\ UNCHANGED <<local, file, up>>
  BY DEF SetSocketState
<1>2. pc[s] = "share" /\ s \in Services /\ s \notin Servers
  BY <1>1, ServiceFacts DEF Step
<1>3. /\ fd' \in [Services -> Fds \cup {None}] /\ fd'[s] = local[s]
      /\ \A t \in Services \ {s} : fd'[t] = fd[t]
      /\ local' \in [Services -> Fds \cup {None}]
      /\ file' \in [Fds -> Services \cup {None}] /\ up' \subseteq Modules
  BY <1>1, <1>2 DEF OwnInv, AppTyped
<1>4. "share" \in PCs \ {"none"} /\ "receive" \in PCs \ {"none", "done"}
      /\ "share" \in Holding /\ "receive" \notin Holding
  BY DEF PCs, Holding
<1>5. Allowed(s, "receive")
  BY <1>2, ServiceFacts DEF Allowed, DevicePCs, Servers
<1>6. AppTyped' /\ MainInv' /\ TodoInv' /\ ThreadInv'
  BY <1>1, <1>2, <1>3, <1>4, <1>5, ThreadRest
<1>7. UpInv'
  BY <1>1, <1>2, <1>4, UpKept
<1>8. fd[s] = None
  BY <1>2 DEF OwnInv, ThreadInv
<1>9. /\ \A t \in Services, f \in Fds : t /= s => Same(t, f)
      /\ \A f \in Fds : /\ ~Local(s, f)'
                        /\ Local(s, f) <=> local[s] = f
                        /\ Shared(s, f)' <=> local[s] = f
                        /\ ~Shared(s, f)
                        /\ OfMain(s, f)' <=> OfMain(s, f)
  <2>1. \A f \in Fds : ~Shared(s, f)
    BY <1>8, ServiceFacts DEF Shared
  <2> QED BY <1>1, <1>2, <1>3, <1>4, <2>1, ClaimsOfOthers
<1>10. HeldInv'
  <2>1. \A f \in Fds :
           /\ (Local(s, f) \/ Shared(s, f) \/ OfMain(s, f))
                 <=> (Local(s, f)' \/ Shared(s, f)' \/ OfMain(s, f)')
           /\ ~(Local(s, f)' /\ Shared(s, f)')
           /\ ~(Local(s, f)' /\ OfMain(s, f)')
           /\ ~(Shared(s, f)' /\ OfMain(s, f)')
    BY <1>2, <1>9 DEF OwnInv, HeldInv
  <2> QED BY <1>1, <1>2, <1>9, <2>1, HeldMoved DEF OwnInv
<1> QED BY <1>6, <1>7, <1>10 DEF OwnInv

LEMMA TakeStep ==
    ASSUME OwnInv, NEW s \in Devices, TakeSocketFd(s)
    PROVE  OwnInv'
<1>1. /\ Step(s, "take", "close") /\ local' = [local EXCEPT ![s] = fd[s]]
      /\ fd' = [fd EXCEPT ![s] = None] /\ UNCHANGED <<file, up>>
  BY DEF TakeSocketFd, Taken
<1>2. pc[s] = "take" /\ s \in Services /\ s \notin Servers
  BY <1>1, ServiceFacts DEF Step
<1>3. /\ fd' \in [Services -> Fds \cup {None}] /\ fd'[s] = None
      /\ \A t \in Services \ {s} : fd'[t] = fd[t] /\ local'[t] = local[t]
      /\ local' \in [Services -> Fds \cup {None}] /\ local'[s] = fd[s]
      /\ file' \in [Fds -> Services \cup {None}] /\ up' \subseteq Modules
  BY <1>1, <1>2 DEF OwnInv, AppTyped
<1>4. "take" \in PCs \ {"none"} /\ "close" \in PCs \ {"none", "done"}
      /\ "close" \in Holding /\ "take" \notin Holding
  BY DEF PCs, Holding
<1>5. Allowed(s, "close")
  BY <1>2, <1>3, ServiceFacts DEF Allowed, DevicePCs, Servers
<1>6. AppTyped' /\ MainInv' /\ TodoInv' /\ ThreadInv'
  BY <1>1, <1>2, <1>3, <1>4, <1>5, ThreadRest
<1>7. UpInv'
  BY <1>1, <1>2, <1>4, UpKept
<1>8. /\ \A t \in Services, f \in Fds : t /= s => Same(t, f)
      /\ \A f \in Fds : /\ Local(s, f)' <=> fd[s] = f
                        /\ ~Local(s, f)
                        /\ ~Shared(s, f)'
                        /\ Shared(s, f) <=> fd[s] = f
                        /\ OfMain(s, f)' <=> OfMain(s, f)
  <2>1. \A f \in Fds : Shared(s, f) <=> fd[s] = f
    BY <1>2 DEF Shared
  <2>2. \A f \in Fds : f /= None
    BY ServiceFacts
  <2> QED BY <1>1, <1>2, <1>3, <1>4, <2>1, <2>2, ClaimsOfOthers
<1>9. HeldInv'
  <2>1. \A f \in Fds :
           /\ (Local(s, f) \/ Shared(s, f) \/ OfMain(s, f))
                 <=> (Local(s, f)' \/ Shared(s, f)' \/ OfMain(s, f)')
           /\ ~(Local(s, f)' /\ Shared(s, f)')
           /\ ~(Local(s, f)' /\ OfMain(s, f)')
           /\ ~(Shared(s, f)' /\ OfMain(s, f)')
    BY <1>2, <1>8 DEF OwnInv, HeldInv
  <2> QED BY <1>1, <1>2, <1>8, <2>1, HeldMoved DEF OwnInv
<1> QED BY <1>6, <1>7, <1>9 DEF OwnInv

\* The thread ends: the module stays up only for a service that still runs.
LEMMA LeaveStep ==
    ASSUME OwnInv, NEW s \in Services,
           \/ s \in Devices /\ DeviceLeave(s)
           \/ s \in Servers /\ ServerLeave(s)
    PROVE  OwnInv'
<1>1. Step(s, "leave", "done") /\ UNCHANGED <<fd, local, file>>
  BY DEF DeviceLeave, ServerLeave
<1>2. pc[s] = "leave"
  BY <1>1 DEF Step
<1>3. "leave" \in PCs \ {"none"} /\ "done" \in PCs \ {"none"}
      /\ "leave" \notin Holding /\ "done" \notin Holding
  BY DEF PCs, Holding
<1>4. /\ fd' \in [Services -> Fds \cup {None}] /\ local' \in [Services -> Fds \cup {None}]
      /\ file' \in [Fds -> Services \cup {None}] /\ up' \subseteq Modules
      /\ up' = up \/ up' = up \ {ModuleOf[s]}
  BY <1>1 DEF DeviceLeave, ServerLeave, OwnInv, AppTyped
<1>5. Allowed(s, "done")
  <2>1. s \in Devices => fd[s] = None
    BY <1>2 DEF OwnInv, ThreadInv
  <2>2. s \in Servers => stop_requested[s]
    BY <1>2 DEF OwnInv, ThreadInv
  <2> QED BY <1>1, <2>1, <2>2 DEF Allowed, DevicePCs, UdpPCs, TcpPCs
<1>6. AppTyped' /\ MainInv' /\ TodoInv' /\ ThreadInv'
  BY <1>1, <1>3, <1>4, <1>5, ThreadRest
<1>7. \A t \in Services, f \in Fds : Same(t, f)
  BY <1>1, <1>3, ClaimsOfOthers DEF Same, Shared
<1>8. HeldInv'
  BY <1>1, <1>7, HeldSame DEF OwnInv
<1>9. \A t \in Services \ {s} : pc'[t] = pc[t]
  BY <1>1, <1>3, ThreadKeepsMain DEF OwnInv
<1>10. ASSUME NEW m \in up'
       PROVE  \E t \in Services : ModuleOf[t] = m /\ pc'[t] \notin {"none", "done"}
  <2>1. PICK t \in Services : ModuleOf[t] = m /\ pc[t] \notin {"none", "done"}
    BY <1>4, <1>10 DEF OwnInv, UpInv
  <2>2. CASE t /= s
    BY <1>9, <2>1, <2>2
  <2>3. CASE t = s
    <3>1. up' = up /\ m = ModuleOf[s]
      BY <1>4, <1>10, <2>1, <2>3
    <3>2. s \in Servers /\ StaysUp(s)
      BY <2>1, <2>3, <3>1, <1>10, ServiceFacts DEF DeviceLeave, ServerLeave
    <3>3. PICK r \in Siblings(s) : ~stop_requested[r]
      BY <3>2 DEF StaysUp
    <3>4. r \in Services /\ r /= s /\ ModuleOf[r] = m
      BY <3>1, <3>3 DEF Siblings
    <3>5. r \in Servers
      BY <3>1, <3>2, <3>4, ServiceFacts
    <3>6. pc[r] \notin {"none", "done"}
      BY <3>3, <3>5 DEF OwnInv, ThreadInv
    <3> QED BY <1>9, <3>4, <3>6
  <2> QED BY <2>2, <2>3
<1>11. UpInv'
  BY <1>10 DEF UpInv
<1> QED BY <1>6, <1>8, <1>11 DEF OwnInv

LEMMA DeviceSteps ==
    ASSUME OwnInv, NEW s \in Devices, Device(s) \/ Offline(s)
    PROVE  OwnInv' /\ UNCHANGED egressVars
<1> DEFINE Quiet(from, to) == Step(s, from, to) /\ UNCHANGED <<fd, local, file>>
<1>1. UNCHANGED egressVars
  BY DEF Device, Offline, Begin, DeviceCheck, OpenFails, Open, SetSocketState,
         ReceiveStops, TakeSocketFd, DeviceClose, DeviceLeave, Step
<1> SUFFICES OwnInv'
  BY <1>1
<1>2. s \in Services /\ s \notin Servers /\ s \notin Udp /\ s \notin Tcp
  BY ServiceFacts DEF Servers
<1>3. ASSUME NEW from \in DevicePCs, NEW to \in DevicePCs, Quiet(from, to),
             from \notin {"none"} \cup Holding, to \notin {"none", "done"} \cup Holding,
             from \in {"receive", "take"} => to \in {"receive", "take"},
             up' = up \/ up' = up \cup {ModuleOf[s]}
      PROVE  OwnInv'
  <2>1. from \in PCs \ {"none"} /\ to \in PCs \ {"none", "done"}
    BY <1>3 DEF PCs, DevicePCs
  <2>2. pc[s] = from
    BY <1>3 DEF Step
  <2>3. Allowed(s, to)
    BY <1>2, <1>3, <2>2 DEF Allowed, OwnInv, ThreadInv
  <2> QED BY <1>2, <1>3, <2>1, <2>3, ThreadMoves
<1>4. CASE Begin(s)
  <2>1. Quiet("begin", "check") /\ up' = up \cup {ModuleOf[s]}
    BY <1>4 DEF Begin
  <2> HIDE DEF Quiet
  <2> QED BY <1>3, <2>1 DEF DevicePCs, Holding
<1>5. CASE DeviceCheck(s)
  <2>1. Quiet("check", IF stop_requested[s] THEN "leave" ELSE "open") /\ up' = up
    BY <1>5 DEF DeviceCheck
  <2> HIDE DEF Quiet
  <2> QED BY <1>3, <2>1 DEF DevicePCs, Holding
<1>6. CASE OpenFails(s)
  <2>1. pc[s] = "open"
    BY <1>6 DEF OpenFails, Step
  <2>2. fd[s] = None
    BY <2>1 DEF OwnInv, ThreadInv
  <2>3. fd' = fd
    BY <1>6, <2>2 DEF OpenFails, OwnInv, AppTyped
  <2>4. Quiet("open", "check") /\ up' = up
    BY <1>6, <2>3 DEF OpenFails
  <2> HIDE DEF Quiet
  <2> QED BY <1>3, <2>4 DEF DevicePCs, Holding
<1>7. CASE Open(s)
  <2>1. "open" \in PCs \ ({"none"} \cup Holding) /\ "share" \in Holding
        /\ "share" \in DevicePCs
    BY DEF PCs, Holding, DevicePCs
  <2>2. /\ Step(s, "open", "share") /\ Free /= {} /\ UNCHANGED <<fd, up>>
        /\ file' = [file EXCEPT ![Lowest(Free)] = s]
        /\ local' = [local EXCEPT ![s] = Lowest(Free)]
    BY <1>7 DEF Open
  <2>3. fd[s] = None
    BY <2>2 DEF Step, OwnInv, ThreadInv
  <2>4. Allowed(s, "share")
    BY <1>2, <2>1, <2>2, <2>3 DEF Allowed
  <2> QED BY <1>2, <2>1, <2>2, <2>4, ThreadOpens
<1>8. CASE ReceiveStops(s) \/ Offline(s)
  <2>1. Quiet("receive", "take") /\ up' = up
    BY <1>8 DEF ReceiveStops, Offline
  <2> HIDE DEF Quiet
  <2> QED BY <1>3, <2>1 DEF DevicePCs, Holding
<1>9. CASE DeviceClose(s)
  <2>1. "close" \in Holding /\ "check" \in PCs \ ({"none", "done"} \cup Holding)
        /\ "check" \in DevicePCs
    BY DEF PCs, Holding, DevicePCs
  <2>2. /\ Step(s, "close", "check") /\ UNCHANGED <<fd, up>>
        /\ Closed(local[s]) /\ local' = [local EXCEPT ![s] = None]
    BY <1>9 DEF DeviceClose
  <2>3. fd[s] = None
    BY <2>2 DEF Step, OwnInv, ThreadInv
  <2>4. Allowed(s, "check")
    BY <1>2, <2>1, <2>2, <2>3 DEF Allowed
  <2> QED BY <1>2, <2>1, <2>2, <2>4, ThreadCloses
<1> QED BY <1>2, <1>4, <1>5, <1>6, <1>7, <1>8, <1>9,
           ShareStep, TakeStep, LeaveStep DEF Device

LEMMA ServerSteps ==
    ASSUME OwnInv, NEW s \in Servers, Server(s) \/ (s \in Tcp /\ ClientEnds(s))
    PROVE  OwnInv' /\ UNCHANGED egressVars
<1> DEFINE Quiet(from, to) == Step(s, from, to) /\ UNCHANGED <<fd, local, file>>
<1>1. UNCHANGED egressVars
  BY DEF Server, MarkRunning, UdpStops, TcpCheck, AcceptFails, Accept, ClientStops,
         ClientEnds, ClientClose, ServerLeave, Step
<1> SUFFICES OwnInv'
  BY <1>1
<1>2. s \in Services /\ s \notin Devices
  BY ServiceFacts
<1>3. ASSUME NEW from \in TcpPCs, NEW to \in TcpPCs, Quiet(from, to),
             from /= "none", to \notin {"none", "done"},
             from \in Holding <=> to \in Holding,
             s \in Udp => to \in UdpPCs,
             to = "leave" => stop_requested[s],
             up' = up \/ up' = up \cup {ModuleOf[s]}
      PROVE  OwnInv'
  <2>1. from \in PCs \ {"none"} /\ to \in PCs \ {"none", "done"}
    BY <1>3 DEF PCs, TcpPCs, UdpPCs
  <2>2. Allowed(s, to)
    BY <1>2, <1>3 DEF Allowed
  <2> QED BY <1>2, <1>3, <2>1, <2>2, ThreadMoves
<1>4. CASE MarkRunning(s)
  <2>1. Quiet("begin", "check") /\ up' = up \cup {ModuleOf[s]}
    BY <1>4 DEF MarkRunning
  <2> HIDE DEF Quiet
  <2> QED BY <1>3, <2>1 DEF TcpPCs, UdpPCs, Holding
<1>5. CASE UdpStops(s)
  <2>1. Quiet("check", "leave") /\ up' = up /\ stop_requested[s]
    BY <1>5 DEF UdpStops
  <2> HIDE DEF Quiet
  <2> QED BY <1>3, <2>1 DEF TcpPCs, UdpPCs, Holding
<1>6. CASE TcpCheck(s)
  <2>1. s \notin Udp
    BY <1>2, <1>6, ServiceFacts DEF TcpCheck
  <2>2. /\ Quiet("check", IF stop_requested[s] THEN "leave" ELSE "accept")
        /\ up' = up
    BY <1>6 DEF TcpCheck
  <2> HIDE DEF Quiet
  <2> QED BY <1>3, <2>1, <2>2 DEF TcpPCs, UdpPCs, Holding
<1>7. ASSUME NEW q \in {"accept", "client", "hangup"}, pc[s] = q PROVE s \notin Udp
  BY <1>7 DEF OwnInv, ThreadInv, UdpPCs
<1>8. CASE AcceptFails(s)
  <2>1. Quiet("accept", "check") /\ up' = up /\ pc[s] = "accept"
    BY <1>8 DEF AcceptFails, Step
  <2> HIDE DEF Quiet
  <2> QED BY <1>3, <1>7, <2>1 DEF TcpPCs, UdpPCs, Holding
<1>9. CASE Accept(s)
  <2>1. "accept" \in PCs \ ({"none"} \cup Holding) /\ "client" \in Holding
        /\ "client" \in TcpPCs
    BY DEF PCs, Holding, TcpPCs
  <2>2. /\ Step(s, "accept", "client") /\ Free /= {} /\ UNCHANGED <<fd, up>>
        /\ file' = [file EXCEPT ![Lowest(Free)] = s]
        /\ local' = [local EXCEPT ![s] = Lowest(Free)]
    BY <1>9 DEF Accept
  <2>3. pc[s] = "accept"
    BY <2>2 DEF Step
  <2>4. Allowed(s, "client")
    BY <1>2, <1>7, <2>1, <2>3 DEF Allowed
  <2> QED BY <1>2, <2>1, <2>2, <2>4, ThreadOpens
<1>10. CASE ClientStops(s) \/ ClientEnds(s)
  <2>1. Quiet("client", "hangup") /\ up' = up /\ pc[s] = "client"
    BY <1>10 DEF ClientStops, ClientEnds, Step
  <2> HIDE DEF Quiet
  <2> QED BY <1>3, <1>7, <2>1 DEF TcpPCs, UdpPCs, Holding
<1>11. CASE ClientClose(s)
  <2>1. "hangup" \in Holding /\ "check" \in PCs \ ({"none", "done"} \cup Holding)
        /\ "check" \in TcpPCs
    BY DEF PCs, Holding, TcpPCs, UdpPCs
  <2>2. /\ Step(s, "hangup", "check") /\ UNCHANGED <<fd, up>>
        /\ Closed(local[s]) /\ local' = [local EXCEPT ![s] = None]
    BY <1>11 DEF ClientClose
  <2>3. pc[s] = "hangup"
    BY <2>2 DEF Step
  <2>4. Allowed(s, "check")
    BY <1>2, <1>7, <2>1, <2>3 DEF Allowed
  <2> QED BY <1>2, <2>1, <2>2, <2>4, ThreadCloses
<1>12. CASE ServerLeave(s)
  BY <1>2, <1>12, LeaveStep
<1> QED BY <1>2, <1>4, <1>5, <1>6, <1>8, <1>9, <1>10, <1>11, <1>12 DEF Server

-----------------------------------------------------------------------------
(* The steps of main that touch no service.                                  *)

Stopping == {"take", "close", "join"}

LEMMA MainMoves ==
    ASSUME OwnInv, UNCHANGED <<serviceVars, main_fd>>,
           main \notin Stopping, main' \in Mains \ Stopping, MainInv', TodoInv',
           todo' \in Seq(Services), started' \subseteq Services,
           g_should_stop' \in BOOLEAN, ipc' \in BOOLEAN,
           exit_code' \in {"success", "failure"}
    PROVE  OwnInv'
<1>1. UNCHANGED <<pc, local, up, stop_requested, fd, file, main_fd>>
  BY DEF serviceVars, threadVars
<1>2. AppTyped'
  BY <1>1 DEF OwnInv, AppTyped
<1>3. ThreadInv'
  BY <1>1 DEF OwnInv, ThreadInv
<1>4. \A t : ~Closing(t) /\ ~Closing(t)'
  BY DEF Closing, Stopping
<1>5. \A t \in Services, f \in Fds : Same(t, f)
  BY <1>1, <1>4 DEF Same, Local, Shared, OfMain, Stopping
<1>6. HeldInv'
  BY <1>1, <1>5, HeldSame DEF OwnInv
<1>7. UpInv'
  BY <1>1 DEF OwnInv, UpInv
<1> QED BY <1>2, <1>3, <1>6, <1>7 DEF OwnInv

\* Before the services are started.
LEMMA EarlySteps ==
    ASSUME AppInv,
           ConfigRejected \/ ConfigAccepted \/ MapRegion \/ FormatRegion \/ EgressFails
    PROVE  AppInv'
<1> USE AppInvParts
<1>1. EgressInv'
  BY CallsTyped, EgressKept
     DEF ConfigRejected, ConfigAccepted, MapRegion, FormatRegion, EgressFails
<1>2. /\ main \in {"config", "map", "format", "egress"}
      /\ main' \in {"map", "format", "egress", "exit"}
      /\ UNCHANGED <<todo, started, main_fd, serviceVars, g_should_stop>>
      /\ ipc' \in BOOLEAN /\ exit_code' \in {"success", "failure"}
      /\ ipc' = (main' \notin {"config", "map", "exit"})
      /\ main' \in {"map", "format"} => e_call' = "none"
      /\ main' = "exit" => e_call' \in {"none", "stopped"}
  BY DEF ConfigRejected, ConfigAccepted, MapRegion, FormatRegion, EgressFails, Fails,
         OwnInv, AppTyped, MainInv, egressVars, mainVars
<1>3. UNCHANGED <<pc, main_fd>> /\ Halted /\ started = {} /\ main_fd = None
  BY <1>2 DEF OwnInv, MainInv, serviceVars, threadVars
<1>4. MainInv'
  BY <1>2, <1>3 DEF MainInv, Halted
<1>5. TodoInv'
  BY <1>2, <1>3 DEF TodoInv, Halted
<1>6. main \notin Stopping /\ main' \in Mains \ Stopping
  BY <1>2 DEF Mains, Stopping
<1>7. OwnInv'
  BY <1>2, <1>4, <1>5, <1>6, MainMoves DEF OwnInv, AppTyped
<1> QED BY <1>1, <1>7

\* From the start of the services to their stop.
LEMMA MiddleSteps ==
    ASSUME AppInv, EgressStarted \/ AllStarted \/ LoopEnds \/ EgressStopped \/ Exit \/ Signal
    PROVE  AppInv'
<1> USE AppInvParts
<1>1. EgressInv'
  BY CallsTyped, EgressKept
     DEF EgressStarted, AllStarted, LoopEnds, EgressStopped, Exit, Signal
<1>2. /\ UNCHANGED <<started, main_fd, serviceVars, exit_code>>
      /\ UNCHANGED <<pc, main_fd>>
      /\ g_should_stop' \in BOOLEAN
  BY DEF EgressStarted, AllStarted, LoopEnds, EgressStopped, Exit, Signal, mainVars2,
         serviceVars, threadVars, OwnInv, AppTyped
<1>3. ASSUME main \notin Stopping, main' \in Mains \ Stopping, MainInv', TodoInv',
             todo' \in Seq(Services), ipc' \in BOOLEAN
      PROVE  OwnInv'
  BY <1>2, <1>3, MainMoves DEF OwnInv, AppTyped
<1>4. CASE EgressStarted
  <2>1. /\ main = "egress" /\ main' = "start" /\ todo' = StartOrder
        /\ ipc' = ipc /\ started = {} /\ Halted
    BY <1>4 DEF EgressStarted, OwnInv, MainInv
  <2>2. MainInv'
    BY <1>2, <2>1 DEF OwnInv, MainInv
  <2>3. TodoInv'
    BY <1>2, <2>1, LinuxAppAssumption DEF TodoInv, Halted
  <2> QED BY <1>1, <1>3, <2>1, <2>2, <2>3, LinuxAppAssumption
          DEF Mains, Stopping, OwnInv, AppTyped
<1>5. CASE AllStarted \/ LoopEnds
  <2>1. /\ main \in {"start", "loop"} /\ main' \in {"loop", "egressStop"}
        /\ ipc' = ipc /\ todo' = todo
    BY <1>5 DEF AllStarted, LoopEnds
  <2>2. MainInv'
    BY <1>2, <2>1 DEF OwnInv, MainInv
  <2>3. TodoInv'
    BY <1>2, <2>1 DEF OwnInv, TodoInv
  <2> QED BY <1>1, <1>3, <2>1, <2>2, <2>3 DEF Mains, Stopping, OwnInv, AppTyped
<1>6. CASE EgressStopped
  <2>1. /\ main = "egressStop" /\ main' = "stop" /\ todo' = StopOrder
        /\ ipc' = ipc /\ e_call' = "stopped"
    BY <1>6 DEF EgressStopped, egressVars, mainVars
  <2>2. MainInv'
    BY <1>2, <2>1 DEF OwnInv, MainInv
  <2>3. TodoInv'
    BY <1>2, <2>1 DEF OwnInv, TodoInv, Among
  <2> QED BY <1>1, <1>3, <2>1, <2>2, <2>3, LinuxAppAssumption
          DEF Mains, Stopping, OwnInv, AppTyped
<1>7. CASE Exit
  <2>1. /\ main = "stop" /\ main' = "exit" /\ todo = <<>> /\ todo' = todo
        /\ ipc' = FALSE /\ e_call' = e_call /\ e_call = "stopped"
    BY <1>7 DEF Exit, egressVars, mainVars, OwnInv, MainInv
  <2>2. Halted
    BY <2>1 DEF OwnInv, TodoInv, Among, Halted
  <2>3. MainInv'
    BY <1>2, <2>1, <2>2 DEF OwnInv, MainInv, Halted
  <2>4. TodoInv'
    BY <1>2, <2>1 DEF OwnInv, TodoInv
  <2> QED BY <1>1, <1>3, <2>1, <2>3, <2>4 DEF Mains, Stopping, OwnInv, AppTyped
<1>8. CASE Signal
  <2>1. /\ UNCHANGED <<egressVars, mainVars2, serviceVars>>
        /\ UNCHANGED <<main, todo, started, ipc, e_call>>
        /\ g_should_stop' = TRUE
    BY <1>8 DEF Signal, mainVars2, egressVars, mainVars
  <2>2. MainInv'
    BY <1>2, <2>1 DEF OwnInv, MainInv, Halted
  <2>3. TodoInv'
    BY <1>2, <2>1 DEF OwnInv, TodoInv, Among
  <2>4. UNCHANGED <<pc, local, up, stop_requested, fd, file, exit_code, main_fd>>
    BY <2>1 DEF mainVars2, serviceVars, threadVars
  <2>5. AppTyped' /\ ThreadInv' /\ UpInv'
    BY <2>1, <2>4 DEF OwnInv, AppTyped, ThreadInv, UpInv
  <2>6. HeldInv'
    BY <2>1, <2>4 DEF OwnInv, HeldInv, Local, Shared, OfMain, Closing
  <2> QED BY <1>1, <2>2, <2>3, <2>5, <2>6 DEF OwnInv
<1> QED BY <1>4, <1>5, <1>6, <1>7, <1>8

-----------------------------------------------------------------------------
(* main starts a service.                                                    *)

First(s) == todo /= <<>> /\ s = Head(todo) /\ s \in Services

\* The next service to be started has no thread and no descriptor.
LEMMA StartingFacts ==
    ASSUME OwnInv, NEW s, Starting(s), started' = started \/ started' = started \cup {s}
    PROVE  /\ First(s) /\ main = "start" /\ s \notin started
           /\ pc[s] = "none" /\ fd[s] = None
           /\ \A f \in Fds : file[f] /= s
           /\ UNCHANGED <<main, ipc, main_fd, local, up, egressVars>>
           /\ todo' \in Seq(Services) /\ started' \subseteq Services
           /\ MainInv => main_fd = None
           /\ \A k \in DOMAIN todo' : todo'[k] /= s
           /\ /\ \A j, k \in DOMAIN todo' : todo'[j] = todo'[k] => j = k
              /\ \A k \in DOMAIN todo' : todo'[k] \notin started'
                                         /\ Among(todo'[k], StopOrder)
              /\ \A t \in started' : Among(t, StopOrder)
<1>1. /\ First(s) /\ main = "start" /\ todo \in Seq(Services)
      /\ todo' = Tail(todo)
      /\ UNCHANGED <<main, ipc, main_fd, local, up, egressVars>>
  BY HeadFacts DEF Starting, First, OwnInv, AppTyped
<1>2. /\ todo' \in Seq(Services) /\ 1 \in DOMAIN todo /\ s = todo[1]
      /\ \A k \in DOMAIN todo' : k + 1 \in DOMAIN todo /\ todo'[k] = todo[k + 1] /\ k + 1 /= 1
  BY <1>1, HeadFacts DEF First
<1>3. /\ \A j, k \in DOMAIN todo : todo[j] = todo[k] => j = k
      /\ \A k \in DOMAIN todo : todo[k] \notin started /\ Among(todo[k], StopOrder)
      /\ \A t \in started : Among(t, StopOrder)
      /\ \A t \in Services : pc[t] /= "none" => t \in started
  BY <1>1 DEF OwnInv, TodoInv
<1>4. s \notin started /\ pc[s] = "none" /\ started' \subseteq Services
  BY <1>1, <1>2, <1>3 DEF First, OwnInv, AppTyped
<1>5. fd[s] = None
  BY <1>1, <1>4, ServiceFacts DEF First, OwnInv, ThreadInv
<1>6. \A f \in Fds : ~Local(s, f) /\ ~Shared(s, f) /\ ~OfMain(s, f)
  BY <1>1, <1>4, <1>5, ServiceFacts DEF Local, Shared, OfMain
<1>7. \A f \in Fds : file[f] /= s
  BY <1>1, <1>6 DEF First, OwnInv, HeldInv
<1>8. \A k \in DOMAIN todo' : todo'[k] /= s
  BY <1>2, <1>3
<1>9. \A j, k \in DOMAIN todo' : todo'[j] = todo'[k] => j = k
  <2> SUFFICES ASSUME NEW j \in DOMAIN todo', NEW k \in DOMAIN todo', todo'[j] = todo'[k]
               PROVE  j = k
    OBVIOUS
  <2>1. j + 1 = k + 1
    BY <1>2, <1>3
  <2>2. j \in Nat /\ k \in Nat
    BY <1>2
  <2> QED BY <2>1, <2>2
<1>10. main_fd /= None => main = "close"
  BY DEF OwnInv, MainInv
<1> QED BY <1>1, <1>2, <1>3, <1>4, <1>5, <1>7, <1>8, <1>9, <1>10

\* The parts of the invariant that no start disturbs.
LEMMA StartRest ==
    ASSUME OwnInv, NEW s, Starting(s), started' = started \/ started' = started \cup {s},
           pc' = pc \/ (pc' = [pc EXCEPT ![s] = "begin"] /\ s \in started')
    PROVE  /\ MainInv' /\ TodoInv' /\ UpInv' /\ pc' \in [Services -> PCs]
           /\ main' = main /\ main = "start"
<1>1. /\ First(s) /\ main' = "start" /\ main = "start" /\ main_fd' = None
      /\ ipc' = ipc /\ e_call' = e_call /\ up' = up
      /\ \A j, k \in DOMAIN todo' : todo'[j] = todo'[k] => j = k
      /\ \A k \in DOMAIN todo' : todo'[k] \notin started' /\ Among(todo'[k], StopOrder)
      /\ \A t \in started' : Among(t, StopOrder)
  BY StartingFacts DEF OwnInv, egressVars, mainVars
<1>2. /\ pc' \in [Services -> PCs]
      /\ \A t \in Services : pc'[t] = IF t = s /\ pc' /= pc THEN "begin" ELSE pc[t]
  BY <1>1 DEF First, OwnInv, AppTyped, PCs
<1>3. MainInv'
  BY <1>1 DEF OwnInv, MainInv
<1>4. TodoInv'
  BY <1>1, <1>2 DEF OwnInv, TodoInv
<1>5. \A t \in Services : pc[t] \notin {"none", "done"} => pc'[t] \notin {"none", "done"}
  BY <1>2
<1>6. UpInv'
  BY <1>1, <1>5 DEF OwnInv, UpInv
<1> QED BY <1>1, <1>2, <1>3, <1>4, <1>6

LEMMA StartSkippedStep ==
    ASSUME OwnInv, NEW s, StartSkipped(s)
    PROVE  OwnInv'
<1>1. /\ Starting(s) /\ started' = started /\ pc' = pc
      /\ UNCHANGED <<exit_code, g_should_stop, stop_requested, fd, file>>
  BY DEF StartSkipped
<1>2. /\ UNCHANGED <<main, ipc, main_fd, local, up>> /\ main = "start"
      /\ todo' \in Seq(Services) /\ started' \subseteq Services
  BY <1>1, StartingFacts
<1>3. MainInv' /\ TodoInv'
  BY <1>1, StartRest
<1> QED BY <1>1, <1>2, <1>3, MainMoves
        DEF OwnInv, AppTyped, Stopping, serviceVars, threadVars

\* A start that fails leaves no thread and no descriptor.
LEMMA StartFailsStep ==
    ASSUME OwnInv, NEW s, DeviceStartFails(s) \/ ServerStartFails(s)
    PROVE  OwnInv'
<1>1. /\ Starting(s) /\ started' = started /\ pc' = pc
      /\ UNCHANGED file /\ fd' = [fd EXCEPT ![s] = None]
      /\ g_should_stop' = TRUE /\ exit_code' = "failure"
      /\ \/ s \in Devices /\ stop_requested' = [stop_requested EXCEPT ![s] = FALSE]
         \/ s \in Servers /\ stop_requested' = [stop_requested EXCEPT ![s] = TRUE]
  BY DEF DeviceStartFails, ServerStartFails, StartFails, Fails
<1>2. /\ UNCHANGED <<main, ipc, main_fd, local, up>> /\ main = "start"
      /\ todo' \in Seq(Services) /\ started' \subseteq Services
      /\ First(s) /\ fd[s] = None
  BY <1>1, StartingFacts
<1>3. MainInv' /\ TodoInv' /\ UpInv'
  BY <1>1, StartRest
<1>4. fd' = fd
  BY <1>1, <1>2 DEF First, OwnInv, AppTyped
<1>5. /\ stop_requested' \in [Services -> BOOLEAN]
      /\ \A t \in Servers : ~stop_requested'[t] => ~stop_requested[t]
  BY <1>1, <1>2, ServiceFacts DEF First, OwnInv, AppTyped
<1>6. AppTyped'
  BY <1>1, <1>2, <1>4, <1>5 DEF OwnInv, AppTyped
<1>7. ThreadInv'
  BY <1>1, <1>4, <1>5 DEF OwnInv, ThreadInv
<1>8. \A t \in Services, f \in Fds : Same(t, f)
  BY <1>1, <1>2, <1>4 DEF Same, Local, Shared, OfMain, Closing
<1>9. HeldInv'
  BY <1>1, <1>8, HeldSame DEF OwnInv
<1> QED BY <1>3, <1>6, <1>7, <1>9 DEF OwnInv

LEMMA StartedStep ==
    ASSUME OwnInv, NEW s, StartDevice(s) \/ StartUdp(s) \/ StartTcp(s)
    PROVE  OwnInv'
<1>1. /\ Starting(s) /\ started' = started \cup {s}
      /\ pc' = [pc EXCEPT ![s] = "begin"]
      /\ stop_requested' = [stop_requested EXCEPT ![s] = FALSE]
      /\ UNCHANGED <<exit_code, g_should_stop>>
  BY DEF StartDevice, StartUdp, StartTcp, StartWithSocket, Started
<1>2. /\ UNCHANGED <<main, ipc, main_fd, local, up>> /\ main = "start"
      /\ todo' \in Seq(Services) /\ started' \subseteq Services
      /\ s \in Services /\ fd[s] = None /\ pc[s] = "none"
  BY <1>1, StartingFacts DEF First
<1>3. MainInv' /\ TodoInv' /\ UpInv' /\ pc' \in [Services -> PCs]
  BY <1>1, StartRest
<1>4. /\ pc'[s] = "begin" /\ stop_requested' \in [Services -> BOOLEAN]
      /\ \A t \in Services : t /= s => /\ pc'[t] = pc[t]
                                       /\ stop_requested'[t] = stop_requested[t]
  BY <1>1, <1>2 DEF OwnInv, AppTyped
<1>5. ASSUME fd' \in [Services -> Fds \cup {None}],
             \A t \in Services : t /= s => fd'[t] = fd[t],
             s \in Devices => fd'[s] = None,
             HeldInv', file' \in [Fds -> Services \cup {None}]
      PROVE  OwnInv'
  <2>1. AppTyped'
    BY <1>1, <1>2, <1>3, <1>4, <1>5 DEF OwnInv, AppTyped
  <2>2. ASSUME NEW t \in Services
        PROVE  /\ t \in Devices => /\ pc'[t] \in DevicePCs
                                   /\ fd'[t] /= None => pc'[t] \in {"receive", "take"}
               /\ t \in Udp => pc'[t] \in UdpPCs
               /\ t \in Tcp => pc'[t] \in TcpPCs
               /\ t \in Servers =>
                     /\ pc'[t] = "none" => fd'[t] = None
                     /\ ~stop_requested'[t] => pc'[t] \notin {"none", "leave", "done"}
    <3>1. CASE t = s
      BY <1>4, <1>5, <3>1 DEF DevicePCs, UdpPCs, TcpPCs
    <3>2. CASE t /= s
      BY <1>4, <1>5, <3>2 DEF OwnInv, ThreadInv
    <3> QED BY <3>1, <3>2
  <2>3. ThreadInv'
    BY <2>2, ServiceFacts DEF ThreadInv
  <2> QED BY <1>3, <1>5, <2>1, <2>3 DEF OwnInv
<1>6. \A t : ~Closing(t) /\ ~Closing(t)' /\ \A f \in Fds : ~OfMain(t, f) /\ ~OfMain(t, f)'
  BY <1>2 DEF Closing, OfMain
<1>7. CASE StartDevice(s)
  <2>1. fd' = [fd EXCEPT ![s] = None] /\ UNCHANGED file
    BY <1>7 DEF StartDevice
  <2>2. fd' = fd
    BY <1>2, <2>1 DEF OwnInv, AppTyped
  <2>3. \A t \in Services, f \in Fds : Same(t, f)
    <3>1. \A t \in Services : pc[t] \in Holding <=> pc'[t] \in Holding
      BY <1>2, <1>4 DEF Holding
    <3> QED BY <1>2, <1>6, <2>2, <3>1 DEF Same, Local, Shared, Holding
  <2>4. HeldInv'
    BY <2>1, <2>3, HeldSame DEF OwnInv
  <2> QED BY <1>2, <1>5, <2>1, <2>2, <2>4 DEF OwnInv, AppTyped
<1>8. CASE s \in Servers /\ StartWithSocket(s)
  <2>1. PICK f0 \in Fds : f0 = Lowest(Free) /\ file[f0] = None
    BY <1>8, LowestFree DEF StartWithSocket
  <2>2. /\ fd' = [fd EXCEPT ![s] = f0] /\ file' = [file EXCEPT ![f0] = s]
        /\ fd' \in [Services -> Fds \cup {None}] /\ fd'[s] = f0
        /\ \A t \in Services : t /= s => fd'[t] = fd[t]
    BY <1>2, <1>8, <2>1 DEF StartWithSocket, OwnInv, AppTyped
  <2>3. ASSUME NEW t \in Services, NEW f \in Fds
        PROVE  IF t = s /\ f = f0 THEN (Local(t, f)' <=> ~Shared(t, f)') /\ ~OfMain(t, f)'
               ELSE Same(t, f)
    <3>1. CASE t = s
      <4>1. ~Local(t, f) /\ ~Local(t, f)'
        BY <1>2, <1>4, <3>1 DEF Local
      <4>2. ~Shared(t, f) /\ (Shared(t, f)' <=> f = f0)
        BY <1>2, <1>6, <2>2, <3>1, ServiceFacts DEF Shared
      <4> QED BY <1>6, <3>1, <4>1, <4>2 DEF Same
    <3>2. CASE t /= s
      BY <1>2, <1>4, <1>6, <2>2, <3>2 DEF Same, Local, Shared
    <3> QED BY <3>1, <3>2
  <2>4. HeldInv' /\ file' \in [Fds -> Services \cup {None}]
    <3>1. AppTyped /\ HeldInv /\ file' = [file EXCEPT ![f0] = s]
      BY <2>2 DEF OwnInv
    <3> QED BY <1>2, <2>1, <2>3, <3>1, HeldOpened
  <2> QED BY <1>5, <1>8, <2>2, <2>4, ServiceFacts
<1> QED BY <1>7, <1>8 DEF StartUdp, StartTcp, Servers

-----------------------------------------------------------------------------
(* main stops a service.                                                     *)

LEMMA StopSkippedStep ==
    ASSUME OwnInv, NEW s, StopSkipped(s)
    PROVE  OwnInv'
<1>1. /\ main = "stop" /\ todo /= <<>> /\ s = Head(todo) /\ s \notin started
      /\ todo' = Tail(todo) /\ main' = "stop"
      /\ UNCHANGED <<started, exit_code, ipc, main_fd, serviceVars, g_should_stop>>
      /\ UNCHANGED <<pc, e_call>>
  BY DEF StopSkipped, serviceVars, threadVars, egressVars, mainVars
<1>2. /\ todo' \in Seq(Services)
      /\ \A t : Among(t, todo) => t = s \/ Among(t, todo')
  BY <1>1, HeadFacts DEF OwnInv, AppTyped
<1>3. MainInv'
  BY <1>1 DEF OwnInv, MainInv
<1>4. TodoInv'
  <2>1. \A t \in Services : pc'[t] /= "none" => Among(t, todo')
    BY <1>1, <1>2 DEF OwnInv, TodoInv
  <2>2. \A t \in Services : pc'[t] /= "none" => Among(t, todo)'
    BY <2>1 DEF Among
  <2> QED BY <1>1, <2>2 DEF OwnInv, TodoInv
<1> QED BY <1>1, <1>2, <1>3, <1>4, MainMoves DEF OwnInv, AppTyped, Stopping, Mains

\* What the steps of a stop have in common.
LEMMA StopRest ==
    ASSUME OwnInv, NEW s, s = Head(todo), main \in {"stop", "take", "close", "join"},
           todo /= <<>>, main' \in {"take", "close", "join"},
           UNCHANGED <<egressVars, todo, started, exit_code, ipc, pc, local, up,
                       g_should_stop>>,
           main_fd' \in Fds \cup {None}, main_fd' /= None => main' = "close",
           fd' \in [Services -> Fds \cup {None}], file' \in [Fds -> Services \cup {None}],
           stop_requested' \in [Services -> BOOLEAN],
           \A t \in Services : fd'[t] = None \/ fd'[t] = fd[t],
           \A t \in Services : stop_requested[t] => stop_requested'[t]
    PROVE  AppTyped' /\ MainInv' /\ TodoInv' /\ ThreadInv' /\ UpInv' /\ s \in Services
<1>1. e_call' = e_call
  BY DEF egressVars, mainVars
<1>2. AppTyped' /\ s \in Services
  BY HeadFacts DEF OwnInv, AppTyped, Mains
<1>3. MainInv'
  BY <1>1 DEF OwnInv, MainInv
<1>4. TodoInv'
  BY DEF OwnInv, TodoInv, Among
<1>5. ThreadInv'
  BY ServiceFacts DEF OwnInv, ThreadInv
<1>6. UpInv'
  BY DEF OwnInv, UpInv
<1> QED BY <1>2, <1>3, <1>4, <1>5, <1>6

LEMMA StopFlagStep ==
    ASSUME OwnInv, NEW s, StopFlag(s)
    PROVE  OwnInv'
<1>1. /\ main = "stop" /\ todo /= <<>> /\ s = Head(todo) /\ main' = "take"
      /\ stop_requested' = [stop_requested EXCEPT ![s] = TRUE]
      /\ UNCHANGED <<egressVars, todo, started, exit_code, ipc, main_fd, pc, local, up,
                     fd, file, g_should_stop>>
  BY DEF StopFlag, threadVars
<1>2. /\ main_fd' = None
      /\ stop_requested' \in [Services -> BOOLEAN]
      /\ \A t \in Services : stop_requested[t] => stop_requested'[t]
  BY <1>1 DEF OwnInv, AppTyped, MainInv
<1>3. AppTyped' /\ MainInv' /\ TodoInv' /\ ThreadInv' /\ UpInv'
  BY <1>1, <1>2, StopRest DEF OwnInv, AppTyped
<1>4. \A t \in Services, f \in Fds : Same(t, f)
  BY <1>1 DEF Same, Local, Shared, OfMain, Closing
<1>5. HeldInv'
  BY <1>1, <1>4, HeldSame DEF OwnInv
<1> QED BY <1>3, <1>5 DEF OwnInv

LEMMA StopTakeStep ==
    ASSUME OwnInv, NEW s, StopTake(s)
    PROVE  OwnInv'
<1>1. /\ main = "take" /\ s = Head(todo) /\ main' = "close" /\ main_fd' = fd[s]
      /\ IF s \in Devices THEN fd' = [fd EXCEPT ![s] = None] ELSE fd' = fd
      /\ UNCHANGED <<egressVars, todo, started, exit_code, ipc, pc, local, up,
                     stop_requested, file, g_should_stop>>
  BY DEF StopTake, Taken, threadVars
<1>2. todo /= <<>> /\ s \in Services
  BY <1>1, HeadFacts DEF OwnInv, MainInv, AppTyped
<1>3. /\ main_fd' \in Fds \cup {None}
      /\ fd' \in [Services -> Fds \cup {None}]
      /\ \A t \in Services : fd'[t] = None \/ fd'[t] = fd[t]
      /\ \A t \in Services : t /= s => fd'[t] = fd[t]
      /\ s \in Devices => fd'[s] = None
  BY <1>1, <1>2 DEF OwnInv, AppTyped
<1>4. AppTyped' /\ MainInv' /\ TodoInv' /\ ThreadInv' /\ UpInv'
  BY <1>1, <1>2, <1>3, StopRest DEF OwnInv, AppTyped
<1>5. \A t \in Services, f \in Fds : t /= s => Same(t, f)
  BY <1>1, <1>3 DEF Same, Local, Shared, OfMain, Closing
<1>6. ASSUME NEW f \in Fds
      PROVE  /\ Local(s, f)' <=> Local(s, f)
             /\ Shared(s, f) <=> fd[s] = f
             /\ ~OfMain(s, f)
             /\ ~Shared(s, f)'
             /\ OfMain(s, f)' <=> fd[s] = f
  <2>1. ~Closing(s) /\ Closing(s)'
    BY <1>1 DEF Closing
  <2>2. ~Shared(s, f)'
    BY <1>2, <1>3, <2>1, ServiceFacts DEF Shared
  <2> QED BY <1>1, <2>1, <2>2 DEF Local, Shared, OfMain
<1>7. \A f \in Fds :
         /\ (Local(s, f) \/ Shared(s, f) \/ OfMain(s, f))
               <=> (Local(s, f)' \/ Shared(s, f)' \/ OfMain(s, f)')
         /\ ~(Local(s, f)' /\ Shared(s, f)')
         /\ ~(Local(s, f)' /\ OfMain(s, f)')
         /\ ~(Shared(s, f)' /\ OfMain(s, f)')
  BY <1>2, <1>6 DEF OwnInv, HeldInv
<1>8. HeldInv'
  BY <1>1, <1>2, <1>5, <1>7, HeldMoved DEF OwnInv
<1> QED BY <1>4, <1>8 DEF OwnInv

LEMMA StopCloseStep ==
    ASSUME OwnInv, NEW s, StopClose(s)
    PROVE  OwnInv'
<1>1. /\ main = "close" /\ s = Head(todo) /\ main' = "join" /\ main_fd' = None
      /\ Closed(main_fd)
      /\ UNCHANGED <<egressVars, todo, started, exit_code, ipc, pc, local, up,
                     stop_requested, fd, g_should_stop>>
  BY DEF StopClose, threadVars
<1>2. todo /= <<>> /\ s \in Services /\ main_fd \in Fds \cup {None}
  BY <1>1, HeadFacts DEF OwnInv, MainInv, AppTyped
<1>3. \A t \in Services, f \in Fds :
         /\ Local(t, f)' <=> Local(t, f)
         /\ Shared(t, f)' <=> Shared(t, f)
         /\ ~OfMain(t, f)'
         /\ OfMain(t, f) <=> t = s /\ main_fd = f
  BY <1>1 DEF Local, Shared, OfMain, Closing
<1>4. HeldInv' /\ file' \in [Fds -> Services \cup {None}]
  <2>1. CASE main_fd = None
    <3>1. UNCHANGED file
      BY <1>1, <2>1, NothingClosed DEF OwnInv
    <3>2. \A t \in Services, f \in Fds : Same(t, f)
      BY <1>3, <2>1, ServiceFacts DEF Same
    <3> QED BY <3>1, <3>2, HeldSame DEF OwnInv, AppTyped
  <2>2. CASE main_fd /= None
    <3>1. PICK f0 \in Fds : f0 = main_fd
      BY <1>2, <2>2
    <3>2. file[f0] = s /\ ~Shared(s, f0) /\ ~Local(s, f0)
      BY <1>2, <1>3, <3>1 DEF OwnInv, HeldInv
    <3>3. \A t \in Services, f \in Fds :
             IF t = s /\ f = f0 THEN ~Local(t, f)' /\ ~Shared(t, f)' /\ ~OfMain(t, f)'
             ELSE Same(t, f)
      BY <1>3, <3>1, <3>2 DEF Same
    <3> QED BY <1>1, <1>2, <3>1, <3>2, <3>3, HeldClosed DEF OwnInv
  <2> QED BY <2>1, <2>2
<1>5. AppTyped' /\ MainInv' /\ TodoInv' /\ ThreadInv' /\ UpInv'
  BY <1>1, <1>2, <1>4, StopRest DEF OwnInv, AppTyped
<1> QED BY <1>4, <1>5 DEF OwnInv

LEMMA StopJoinStep ==
    ASSUME OwnInv, NEW s, StopJoin(s)
    PROVE  OwnInv'
<1>1. /\ main = "join" /\ s = Head(todo) /\ pc[s] = "done" /\ main' = "stop"
      /\ pc' = [pc EXCEPT ![s] = "none"]
      /\ fd' = IF s \in Devices THEN fd ELSE [fd EXCEPT ![s] = None]
      /\ todo' = Tail(todo)
      /\ UNCHANGED <<egressVars, started, exit_code, ipc, main_fd, local, up,
                     stop_requested, file, g_should_stop>>
  BY DEF StopJoin
<1>2. todo /= <<>> /\ s \in Services /\ main_fd = None /\ todo' \in Seq(Services)
      /\ \A t : Among(t, todo) => t = s \/ Among(t, todo')
  BY <1>1, HeadFacts DEF OwnInv, MainInv, AppTyped
<1>3. fd'[s] = None
  BY <1>1, <1>2, ServiceFacts DEF OwnInv, AppTyped, ThreadInv
<1>4. /\ pc' \in [Services -> PCs] /\ pc'[s] = "none"
      /\ fd' \in [Services -> Fds \cup {None}]
      /\ \A t \in Services : t /= s => pc'[t] = pc[t] /\ fd'[t] = fd[t]
  BY <1>1, <1>2 DEF OwnInv, AppTyped, PCs
<1>5. AppTyped'
  BY <1>1, <1>2, <1>4 DEF OwnInv, AppTyped, Mains
<1>6. MainInv'
  <2>1. e_call' = e_call
    BY <1>1 DEF egressVars, mainVars
  <2> QED BY <1>1, <1>2, <2>1 DEF OwnInv, MainInv
<1>7. TodoInv'
  <2>1. \A t \in Services : pc'[t] /= "none" => Among(t, todo)'
    BY <1>1, <1>2, <1>4 DEF OwnInv, TodoInv, Among
  <2>2. \A t \in Services : pc'[t] /= "none" => t \in started
    BY <1>4 DEF OwnInv, TodoInv
  <2> QED BY <1>1, <2>1, <2>2 DEF OwnInv, TodoInv
<1>8. ThreadInv'
  <2>1. s \in Servers => stop_requested[s]
    BY <1>1 DEF OwnInv, ThreadInv
  <2>2. ASSUME NEW t \in Services
        PROVE  /\ t \in Devices => /\ pc'[t] \in DevicePCs
                                   /\ fd'[t] /= None => pc'[t] \in {"receive", "take"}
               /\ t \in Udp => pc'[t] \in UdpPCs
               /\ t \in Tcp => pc'[t] \in TcpPCs
               /\ t \in Servers =>
                     /\ pc'[t] = "none" => fd'[t] = None
                     /\ ~stop_requested'[t] => pc'[t] \notin {"none", "leave", "done"}
    <3>1. CASE t = s
      BY <1>1, <1>3, <1>4, <2>1, <3>1 DEF DevicePCs, UdpPCs, TcpPCs
    <3>2. CASE t /= s
      BY <1>1, <1>4, <3>2 DEF OwnInv, ThreadInv
    <3> QED BY <3>1, <3>2
  <2> QED BY <2>2, ServiceFacts DEF ThreadInv
<1>9. UpInv'
  BY <1>1, <1>4 DEF OwnInv, UpInv
<1>10. ASSUME NEW t \in Services, NEW f \in Fds PROVE Same(t, f)
  <2>1. ~OfMain(t, f) /\ ~OfMain(t, f)'
    BY <1>1 DEF OfMain
  <2>2. CASE t = s
    <3>1. ~Local(t, f) /\ ~Local(t, f)'
      BY <1>1, <1>4, <2>2 DEF Local
    <3>2. ~Shared(t, f)'
      BY <1>3, <2>2, ServiceFacts DEF Shared
    <3>3. ~Shared(t, f)
      <4>1. CASE s \in Servers
        BY <1>1, <2>2, <4>1 DEF Shared, Closing
      <4>2. CASE s \in Devices
        BY <1>1, <1>3, <2>2, <4>2, ServiceFacts DEF Shared
      <4> QED BY <1>2, <4>1, <4>2, ServiceFacts
    <3> QED BY <2>1, <3>1, <3>2, <3>3 DEF Same
  <2>3. CASE t /= s
    BY <1>1, <1>4, <2>1, <2>3 DEF Same, Local, Shared, Closing
  <2> QED BY <2>2, <2>3
<1>11. HeldInv'
  BY <1>1, <1>10, HeldSame DEF OwnInv
<1> QED BY <1>5, <1>6, <1>7, <1>8, <1>9, <1>11 DEF OwnInv

-----------------------------------------------------------------------------
(* The theorems.                                                             *)

LEMMA MainSteps ==
    ASSUME AppInv, Main
    PROVE  AppInv'
<1>1. CASE \E s \in {todo[k] : k \in DOMAIN todo \cap {1}} :
              \/ StartSkipped(s) \/ DeviceStartFails(s) \/ ServerStartFails(s)
              \/ StartDevice(s) \/ StartUdp(s) \/ StartTcp(s)
              \/ StopSkipped(s) \/ StopFlag(s) \/ StopTake(s) \/ StopClose(s) \/ StopJoin(s)
  <2>1. PICK s : \/ StartSkipped(s) \/ DeviceStartFails(s) \/ ServerStartFails(s)
                 \/ StartDevice(s) \/ StartUdp(s) \/ StartTcp(s)
                 \/ StopSkipped(s) \/ StopFlag(s) \/ StopTake(s) \/ StopClose(s) \/ StopJoin(s)
    BY <1>1
  <2>2. UNCHANGED egressVars
    BY <2>1 DEF StartSkipped, DeviceStartFails, ServerStartFails, StartFails, StartDevice,
                StartUdp, StartTcp, StartWithSocket, Started, Starting, StopSkipped,
                StopFlag, StopTake, StopClose, StopJoin
  <2>3. OwnInv'
    BY <2>1, AppInvParts, StartSkippedStep, StartFailsStep, StartedStep, StopSkippedStep,
       StopFlagStep, StopTakeStep, StopCloseStep, StopJoinStep
  <2> QED BY <2>2, <2>3, AppInvParts, EgressKept
<1> QED BY <1>1, EarlySteps, MiddleSteps DEF Main

LEMMA AppStep == AppInv /\ [Next]_vars => AppInv'
<1> SUFFICES ASSUME AppInv, [Next]_vars PROVE AppInv'
  OBVIOUS
<1> USE AppInvParts
<1>1. ASSUME NEW s \in Devices, Device(s) \/ Offline(s) PROVE AppInv'
  BY <1>1, DeviceSteps, EgressKept
<1>2. ASSUME NEW s \in Servers, Server(s) \/ (s \in Tcp /\ ClientEnds(s)) PROVE AppInv'
  BY <1>2, ServerSteps, EgressKept
<1>3. ASSUME EgressInv', UNCHANGED appVars,
             e_call' = e_call \/ e_call \in {"create", "stop", "join"}
      PROVE  AppInv'
  BY <1>3, EgressKeepsOwn
<1>4. CASE Call
  BY <1>3, <1>4, CallSteps DEF Call
<1>5. CASE Manager
  BY <1>3, <1>5, ManagerSteps DEF Manager, mainVars
<1>6. ASSUME NEW i \in Workers, WorkerStep(i) \/ WorkerSpurious(i) \/ RtosEnqueues(i),
             UNCHANGED appVars
      PROVE  AppInv'
  BY <1>3, <1>6, WorkerSteps DEF mainVars
<1>7. CASE Environment
  BY <1>1, <1>2, <1>6, <1>7 DEF Environment, Servers
<1>8. CASE UNCHANGED vars
  <2>1. UNCHANGED egressVars /\ UNCHANGED appVars
    BY <1>8 DEF vars, appVars, mainVars2, serviceVars, threadVars
  <2>2. e_call' = e_call
    BY <2>1 DEF egressVars, mainVars
  <2> QED BY <1>3, <2>1, <2>2, EgressKept
<1> QED BY <1>1, <1>2, <1>4, <1>5, <1>6, <1>7, <1>8, MainSteps, MiddleSteps
        DEF Next, Worker, Terminated

LEMMA AppInit == Init => AppInv
<1> SUFFICES ASSUME Init PROVE EgressInv /\ OwnInv
  BY AppInvParts
<1>1. EgressInv
  <2>1. 0 \in 0 .. N + 1 /\ 1 \in 1 .. N + 1 /\ 0 \in 0 .. Budget /\ 0 \in 0 .. WorkDepth
    BY WorkerFacts
  <2>2. EgressTypeOK
    BY <2>1 DEF Init, EgressInit, EgressTypeOK
  <2>3. CallInv
    BY DEF Init, EgressInit, CallInv, EgressThreadsGone
  <2> QED BY <2>2, <2>3 DEF EgressInv
<1>2. AppTyped
  <2>1. <<>> \in Seq(Services) /\ "none" \in PCs /\ "config" \in Mains
    BY DEF PCs, Mains
  <2>2. stop_requested \in [Services -> BOOLEAN]
    <3>1. stop_requested = [s \in Services |-> s \in Servers]
      BY DEF Init
    <3>2. ASSUME NEW s \in Services PROVE (s \in Servers) \in BOOLEAN
      OBVIOUS
    <3> QED BY <3>1, <3>2, Zenon
  <2> QED BY <2>1, <2>2 DEF Init, AppTyped
<1>3. \A t : ~Closing(t) /\ \A f \in Fds : ~OfMain(t, f)
  BY DEF Init, Closing, OfMain
<1>4. MainInv /\ TodoInv /\ UpInv
  BY DEF Init, EgressInit, MainInv, TodoInv, UpInv, Halted
<1>5. ThreadInv
  BY ServiceFacts DEF Init, ThreadInv, DevicePCs, UdpPCs, TcpPCs
<1>6. HeldInv
  BY <1>3, ServiceFacts DEF Init, HeldInv, Local, Shared
<1> QED BY <1>1, <1>2, <1>4, <1>5, <1>6 DEF OwnInv

\* The inductive invariant of linux_app.
THEOREM AppInvariant == Spec => []AppInv
<1> QED BY AppInit, AppStep, PTL DEF Spec

\* No thread outlives the mapping of the region, whichever start failed and
\* whenever the signal came (main.c: the stop calls before linux_shm_ipc_unmap).
THEOREM AppNobodyLeft == Spec => []NobodyLeft
<1>1. AppInv => NobodyLeft
  <2> SUFFICES ASSUME AppInv, ~ipc
               PROVE  EgressThreadsGone /\ \A s \in Services : pc[s] \in {"none", "done"}
    BY DEF NobodyLeft
  <2>1. main \in {"config", "map", "exit"}
    BY DEF AppInv, MainInv
  <2>2. e_call \in {"none", "stopped"} /\ Halted
    BY <2>1 DEF AppInv, MainInv
  <2> QED BY <2>2 DEF AppInv, CallInv, Halted
<1> QED BY <1>1, AppInvariant, PTL

\* Nobody closes a descriptor that is not open, or another's, although the thread
\* and the stop call of a service both may close it (take_socket_fd).
THEOREM AppDescriptorsKept == Spec => []DescriptorsKept
<1>1. AppInv => DescriptorsKept
  <2> SUFFICES ASSUME AppInv PROVE DescriptorsKept
    OBVIOUS
  <2>1. TypeOK /\ HeldInv /\ MainInv
    BY DEF AppInv
  <2>2. AppTyped
    BY AppInvParts DEF OwnInv
  <2>3. ASSUME NEW s \in Devices, fd[s] /= None PROVE file[fd[s]] = s
    <3>1. s \in Services /\ fd[s] \in Fds /\ Shared(s, fd[s])
      BY <2>2, <2>3, ServiceFacts DEF AppTyped, Shared
    <3> QED BY <2>1, <3>1 DEF HeldInv
  <2>4. ASSUME NEW s \in Services, pc[s] \in {"close", "hangup"}, local[s] /= None
        PROVE  file[local[s]] = s
    <3>1. local[s] \in Fds /\ Local(s, local[s])
      BY <2>2, <2>4 DEF AppTyped, Local
    <3> QED BY <2>1, <3>1 DEF HeldInv
  <2>5. ASSUME main = "close", main_fd /= None PROVE file[main_fd] = Head(todo)
    <3>1. Head(todo) \in Services /\ main_fd \in Fds
      BY <2>1, <2>2, <2>5, HeadFacts DEF AppTyped, MainInv
    <3>2. OfMain(Head(todo), main_fd)
      BY <2>5 DEF OfMain
    <3> QED BY <2>1, <3>1, <3>2 DEF HeldInv
  <2> QED BY <2>1, <2>3, <2>4, <2>5 DEF DescriptorsKept
<1> QED BY <1>1, AppInvariant, PTL

\* At the end every descriptor is closed and no module is left as running in the
\* status file, whichever of two services of a module was stopped first.
THEOREM AppNothingStaysOpen == Spec => []NothingStaysOpen
<1>1. AppInv => NothingStaysOpen
  <2> SUFFICES ASSUME AppInv, main = "exit" PROVE up = {} /\ Free = Fds
    BY DEF NothingStaysOpen
  <2>1. Halted
    BY DEF AppInv, MainInv
  <2>2. up = {}
    BY <2>1 DEF AppInv, UpInv, Halted
  <2>3. AppTyped
    BY AppInvParts DEF OwnInv
  <2>4. \A s \in Services : fd[s] = None
    BY <2>1, ServiceFacts DEF AppInv, ThreadInv, Halted
  <2>5. ASSUME NEW s \in Services, NEW f \in Fds PROVE file[f] /= s
    <3>1. ~Local(s, f) /\ ~Shared(s, f) /\ ~OfMain(s, f)
      BY <2>1, <2>4, ServiceFacts DEF Local, Shared, OfMain, Halted
    <3> QED BY <3>1 DEF AppInv, HeldInv
  <2>6. Free = Fds
    BY <2>3, <2>5 DEF Free, AppTyped
  <2> QED BY <2>2, <2>6
<1> QED BY <1>1, AppInvariant, PTL
=============================================================================
