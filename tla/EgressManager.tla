--------------------------- MODULE EgressManager ---------------------------
(***************************************************************************)
(* The threads of the egress manager: a worker per interface that sleeps on  *)
(* a condition variable, the manager that reads the pending bits and wakes   *)
(* the workers, and the start and stop calls of the main thread.  A worker   *)
(* that is awake empties its TX ring; of the ring only the number of its     *)
(* descriptors is kept (ShmRing has the rest: a ring that is not empty has   *)
(* its pending bit).                                                        *)
(***************************************************************************)
EXTENDS Naturals, Sequences

CONSTANTS
    WorkerOrder,   \* the interfaces as they are numbered
    WorkDepth,     \* descriptors a TX ring holds
    Budget         \* descriptors a worker sends before it looks at its flags

Workers == {WorkerOrder[k] : k \in DOMAIN WorkerOrder}
N == Len(WorkerOrder)

ASSUME EgressAssumption ==
    /\ WorkerOrder \in Seq(Workers)
    /\ WorkDepth \in Nat /\ Budget \in Nat \ {0}

VARIABLES
    e_call,        \* what the main thread does: create, stop or join threads
    e_next,        \* the thread it has come to: 0 is the manager
    m_pc, m_stop,  \* the manager thread and its stop_requested
    m_bits, m_next,\* the pending bits it has read and the bit it has come to
    w_pc, w_wake, w_stop, left,  \* the workers, their requests, their budget
    work           \* descriptors in the TX rings

mainVars == <<e_call, e_next>>
mgrVars == <<m_pc, m_stop, m_bits, m_next>>
wkVars == <<w_pc, w_wake, w_stop, left>>
egressVars == <<mainVars, mgrVars, wkVars, work>>

EgressInit ==
    /\ e_call = "none" /\ e_next = 0
    /\ m_pc = "none" /\ m_stop = FALSE /\ m_bits = {} /\ m_next = 1
    /\ w_pc = [i \in Workers |-> "none"]
    /\ w_wake = [i \in Workers |-> FALSE]
    /\ w_stop = [i \in Workers |-> FALSE]
    /\ left = [i \in Workers |-> 0]
    /\ work = [i \in Workers |-> 0]

-----------------------------------------------------------------------------
(* The worker thread. *)

\* pthread_cond_signal: whoever waits looks at the flags again.
Signalled(i) == w_pc' = [w_pc EXCEPT ![i] = IF @ = "wait" THEN "test" ELSE @]

\* Mutant: the signal is sent without the flag.
WakeWorkerNoFlag(i) == Signalled(i) /\ UNCHANGED w_wake

WakeWorker(i) ==
    /\ w_wake' = [w_wake EXCEPT ![i] = TRUE]
    /\ Signalled(i)

\* With the mutex held: wait, or take the request and leave or drain.
WorkerTest(i) ==
    /\ w_pc[i] = "test"
    /\ IF ~w_wake[i] /\ ~w_stop[i]
       THEN w_pc' = [w_pc EXCEPT ![i] = "wait"] /\ UNCHANGED <<w_wake, left>>
       ELSE /\ w_wake' = [w_wake EXCEPT ![i] = FALSE]
            /\ w_pc' = [w_pc EXCEPT ![i] = IF w_stop[i] THEN "done" ELSE "drain"]
            /\ left' = [left EXCEPT ![i] = IF w_stop[i] THEN 0 ELSE Budget]
    /\ UNCHANGED <<mainVars, mgrVars, w_stop, work>>

WorkerSpurious(i) ==
    /\ w_pc[i] = "wait"
    /\ w_pc' = [w_pc EXCEPT ![i] = "test"]
    /\ UNCHANGED <<mainVars, mgrVars, w_wake, w_stop, left, work>>

\* Mutant: the budget is not looked at.
WorkerTakeNoBudget(i) ==
    /\ w_pc[i] = "drain" /\ work[i] > 0
    /\ work' = [work EXCEPT ![i] = @ - 1]
    /\ left' = [left EXCEPT ![i] = @ - 1]
    /\ UNCHANGED <<mainVars, mgrVars, w_pc, w_wake, w_stop>>

\* A descriptor is taken, sent and released (LinuxIpc has the steps).
WorkerTake(i) ==
    /\ w_pc[i] = "drain" /\ left[i] > 0 /\ work[i] > 0
    /\ work' = [work EXCEPT ![i] = @ - 1]
    /\ left' = [left EXCEPT ![i] = @ - 1]
    /\ UNCHANGED <<mainVars, mgrVars, w_pc, w_wake, w_stop>>

WorkerDrained(i) ==
    /\ w_pc[i] = "drain"
    /\ left[i] = 0 \/ work[i] = 0
    /\ w_pc' = [w_pc EXCEPT ![i] = "test"]
    /\ left' = [left EXCEPT ![i] = 0]
    /\ UNCHANGED <<mainVars, mgrVars, w_wake, w_stop, work>>

\* The firmware fills the ring.
RtosEnqueues(i) ==
    /\ work[i] < WorkDepth
    /\ work' = [work EXCEPT ![i] = @ + 1]
    /\ UNCHANGED <<mainVars, mgrVars, wkVars>>

-----------------------------------------------------------------------------
(* The manager thread. *)

\* At first, and after each wait that a signal or the period has ended.
ManagerScan ==
    /\ m_pc = "scan" \/ (m_pc = "wait" /\ ~m_stop)
    /\ m_bits' = {i \in Workers : work[i] > 0}
    /\ m_pc' = "wake"
    /\ UNCHANGED <<mainVars, m_stop, m_next, wkVars, work>>

ManagerWake ==
    /\ m_pc = "wake" /\ m_next <= N
    /\ IF WorkerOrder[m_next] \in m_bits
       THEN WakeWorker(WorkerOrder[m_next])
       ELSE UNCHANGED <<w_wake, w_pc>>
    /\ m_next' = m_next + 1
    /\ m_bits' = m_bits \ {WorkerOrder[m_next]}
    /\ UNCHANGED <<mainVars, m_pc, m_stop, w_stop, left, work>>

\* The reclaim ring is drained (LinuxIpc); then the thread waits if it may.
ManagerWaits ==
    /\ m_pc = "wake" /\ m_next > N
    /\ m_pc' = IF m_stop THEN "done" ELSE "wait"
    /\ m_next' = 1
    /\ UNCHANGED <<mainVars, m_stop, m_bits, wkVars, work>>

ManagerLeaves ==
    /\ m_pc = "wait" /\ m_stop
    /\ m_pc' = "done"
    /\ UNCHANGED <<mainVars, m_stop, m_bits, m_next, wkVars, work>>

-----------------------------------------------------------------------------
(* The calls of the main thread. *)

CallStart ==
    /\ e_call' = "create" /\ e_next' = 1
    /\ m_stop' = FALSE
    /\ UNCHANGED <<m_pc, m_bits, m_next, wkVars, work>>

Create ==
    /\ e_call = "create"
    /\ IF e_next <= N
       THEN LET i == WorkerOrder[e_next] IN
            /\ w_stop' = [w_stop EXCEPT ![i] = FALSE]
            /\ w_wake' = [w_wake EXCEPT ![i] = FALSE]
            /\ w_pc' = [w_pc EXCEPT ![i] = "test"]
            /\ e_next' = e_next + 1
            /\ UNCHANGED <<e_call, m_pc>>
       ELSE /\ m_pc' = "scan"
            /\ e_call' = "started" /\ e_next' = 0
            /\ UNCHANGED <<w_stop, w_wake, w_pc>>
    /\ UNCHANGED <<m_stop, m_bits, m_next, left, work>>

\* A thread cannot be created: those there are, are stopped again.
CreateFails ==
    /\ e_call = "create"
    /\ e_call' = "stop" /\ e_next' = 0
    /\ UNCHANGED <<mgrVars, wkVars, work>>

CallStop ==
    /\ e_call' = "stop" /\ e_next' = 0
    /\ UNCHANGED <<mgrVars, wkVars, work>>

StopManager ==
    /\ e_call = "stop" /\ e_next = 0
    /\ m_stop' = TRUE
    /\ e_next' = 1
    /\ UNCHANGED <<e_call, m_pc, m_bits, m_next, wkVars, work>>

\* Mutant: the flags are set, but nobody is woken.
StopWorkerQuietly ==
    /\ e_call = "stop" /\ e_next \in 1 .. N
    /\ w_stop' = [w_stop EXCEPT ![WorkerOrder[e_next]] = TRUE]
    /\ w_wake' = [w_wake EXCEPT ![WorkerOrder[e_next]] = TRUE]
    /\ e_next' = e_next + 1
    /\ UNCHANGED <<e_call, mgrVars, w_pc, left, work>>

StopWorker ==
    /\ e_call = "stop" /\ e_next \in 1 .. N
    /\ w_stop' = [w_stop EXCEPT ![WorkerOrder[e_next]] = TRUE]
    /\ WakeWorker(WorkerOrder[e_next])
    /\ e_next' = e_next + 1
    /\ UNCHANGED <<e_call, mgrVars, left, work>>

StopTold ==
    /\ e_call = "stop" /\ e_next = N + 1
    /\ e_call' = "join" /\ e_next' = 0
    /\ UNCHANGED <<mgrVars, wkVars, work>>

\* Threads that were started are joined, the manager first.
Join ==
    /\ e_call = "join"
    /\ IF e_next = 0
       THEN /\ m_pc \in {"none", "done"} /\ m_pc' = "none"
            /\ UNCHANGED w_pc
       ELSE /\ w_pc[WorkerOrder[e_next]] \in {"none", "done"}
            /\ w_pc' = [w_pc EXCEPT ![WorkerOrder[e_next]] = "none"]
            /\ UNCHANGED m_pc
    /\ IF e_next = N
       THEN e_call' = "stopped" /\ e_next' = 0
       ELSE e_next' = e_next + 1 /\ UNCHANGED e_call
    /\ UNCHANGED <<m_stop, m_bits, m_next, w_wake, w_stop, left, work>>

-----------------------------------------------------------------------------
WorkerStep(i) == WorkerTest(i) \/ WorkerTake(i) \/ WorkerDrained(i)
ManagerStep == ManagerScan \/ ManagerWake \/ ManagerWaits \/ ManagerLeaves
EgressCall == Create \/ CreateFails \/ StopManager \/ StopWorker \/ StopTold \/ Join

EgressThreadsGone ==
    /\ m_pc \in {"none", "done"}
    /\ \A i \in Workers : w_pc[i] \in {"none", "done"}

EgressTypeOK ==
    /\ e_call \in {"none", "create", "started", "stop", "join", "stopped"}
    /\ e_next \in 0 .. N + 1
    /\ m_pc \in {"none", "scan", "wake", "wait", "done"}
    /\ m_stop \in BOOLEAN /\ m_bits \subseteq Workers /\ m_next \in 1 .. N + 1
    /\ w_pc \in [Workers -> {"none", "test", "wait", "drain", "done"}]
    /\ w_wake \in [Workers -> BOOLEAN] /\ w_stop \in [Workers -> BOOLEAN]
    /\ left \in [Workers -> 0 .. Budget]
    /\ work \in [Workers -> 0 .. WorkDepth]

\* The call of the main thread and the threads that are left.
CallInv ==
    /\ e_call \in {"none", "stopped"} => EgressThreadsGone
    /\ e_call = "create" => e_next > 0
    /\ e_call = "join" => /\ e_next <= N
                          /\ e_next > 0 => m_pc \in {"none", "done"}
                          /\ \A k \in 1 .. N :
                                k < e_next => w_pc[WorkerOrder[k]] \in {"none", "done"}
=============================================================================
