----------------------------- MODULE RtosTasks -----------------------------
(***************************************************************************)
(* The tasks of the firmware (rtos_tasks.c) as rtos_runtime_run_once runs    *)
(* them, with the router core between the RX rings and the TX and reclaim    *)
(* rings (rtos_router_core.c).                                              *)
(*                                                                          *)
(* Each access to a ring or to the region header is one step, so that Linux  *)
(* may act in between.  The local priority queue is a set here: which item   *)
(* it hands out, and which it evicts, is the subject of PriorityQueue.       *)
(* Budgets are abstracted: a loop may stop after any iteration but the       *)
(* first, for every budget is at least one.  The calls of the platform       *)
(* (cache maintenance, notification) succeed.  The module has no             *)
(* specification of its own; Gateway composes it with LinuxIpc.              *)
(***************************************************************************)
EXTENDS Region

CONSTANTS
    ScanOrder,      \* the interfaces by number: the order of the RX scan
    QueueCapacity,  \* RTOS_FIRMWARE_PRIORITY_QUEUE_CAPACITY
    RetryLimits,    \* k_retry_limit: the limits of the priorities
    Heartbeats,     \* whether the host reports Linux heartbeats at all
    NoDescriptor    \* an unused reference, or no item in hand

ASSUME RtosAssumption ==
    /\ ScanOrder \in [1 .. Cardinality(Interfaces) -> Interfaces]
    /\ \A i \in Interfaces : \E n \in DOMAIN ScanOrder : ScanOrder[n] = i
    /\ QueueCapacity \in Nat \ {0}
    /\ RetryLimits \subseteq Nat
    /\ RetryLimits /= {}
    /\ Heartbeats \in BOOLEAN
    /\ NoDescriptor \notin Descriptors

VARIABLES
    pc,              \* where rtos_runtime_run_once is
    periodic,        \* its trigger: the periodic tick, or a doorbell
    late,            \* past the scheduler: a recovery now ends the round
    port,            \* where the RX scan is in ScanOrder
    served,          \* the current loop has gone round at least once
    item,            \* the descriptor or queue item the current step handles
    tries,           \* TX attempts left for item
    refs,            \* context->frame_references
    queue,           \* context->router.queue
    frozen,          \* context->pending_reclaims
    state,           \* context->state
    recovery_pending, recovery_active,  \* context->monitor.recovery
    last_epoch,      \* context->last_linux_epoch
    router_epoch,    \* context->router.current_linux_epoch
    heartbeat        \* monitor.linux_heartbeat.state

recoveryVars == <<recovery_pending, recovery_active, last_epoch, router_epoch>>
run == <<periodic, late, recoveryVars, heartbeat>>
scan == <<port, served>>
local == <<item, tries>>
frameVars == <<refs, queue, frozen>>
rtosVars == <<pc, run, scan, local, frameVars, state>>

States == {"normal", "degraded", "reclaim_full", "reclaim_blocked", "recovery"}

PCs == {"idle", "preflight", "pre_monitor", "retry",
        "recover", "rec_retry", "rec_enter", "rec_queue", "rec_drop",
        "rec_orphans", "rec_finish",
        "drain", "ipc_retry", "rx", "submit", "evict",
        "schedule", "sched_retry", "queue", "tx", "drop",
        "heartbeat", "monitor"}

InUse == {f \in Frames : refs[f] /= NoDescriptor}
FrozenFrames == {frozen[k].frame : k \in DOMAIN frozen}
QueuedFrames == {x.frame : x \in queue}

RtosTypeOK ==
    /\ pc \in PCs
    /\ periodic \in BOOLEAN
    /\ late \in BOOLEAN
    /\ port \in DOMAIN ScanOrder
    /\ served \in BOOLEAN
    /\ item \in Descriptors \cup {NoDescriptor}
    /\ tries \in {0} \cup UNION {0 .. n : n \in RetryLimits}
    /\ refs \in [Frames -> Descriptors \cup {NoDescriptor}]
    /\ queue \subseteq Descriptors
    /\ frozen \in Seq(Descriptors)
    /\ state \in States
    /\ recovery_pending \in BOOLEAN
    /\ recovery_active \in BOOLEAN
    /\ last_epoch \in Epochs
    /\ router_epoch \in Epochs
    /\ heartbeat \in {"normal", "suspect", "lost"}

\* rtos_runtime_init on a formatted region: attach and context_init.
RtosInit ==
    /\ pc = "idle"
    /\ periodic = FALSE
    /\ late = FALSE
    /\ port = 1
    /\ served = FALSE
    /\ item = NoDescriptor
    /\ tries = 0
    /\ refs = [f \in Frames |-> NoDescriptor]
    /\ queue = {}
    /\ frozen = <<>>
    /\ state = "normal"
    /\ recovery_pending = FALSE
    /\ recovery_active = FALSE
    /\ last_epoch = linux_epoch
    /\ router_epoch = linux_epoch
    /\ heartbeat = "normal"

Goto(from, to) == pc = from /\ pc' = to

\* A test that changes nothing else.
Jump(from, to) ==
    /\ Goto(from, to)
    /\ UNCHANGED <<run, scan, local, frameVars, state, rings>>

\* The locals of a call end with it.
LocalsEnd == item' = NoDescriptor /\ tries' = 0

-----------------------------------------------------------------------------
(* The reclaim sink: hand the frame of item back with the metadata of its    *)
(* reference, or freeze it when the reclaim ring is full.                    *)

ReclaimRoom == region = "ready" /\ Len(reclaim) < ReclaimDepth
ReclaimFull == region = "ready" /\ Len(reclaim) >= ReclaimDepth

ClearRef(f) == refs' = [refs EXCEPT ![f] = NoDescriptor]

\* Mutant: the reclaim names the routed target instead of the one Linux wrote.
SinkWritesRouted(f) ==
    /\ refs[f] /= NoDescriptor
    /\ ReclaimRoom
    /\ reclaim' = Append(reclaim, [refs[f] EXCEPT !.target = item.target])
    /\ ClearRef(f)
    /\ UNCHANGED <<frozen, state>>

SinkWrites(f) ==
    /\ refs[f] /= NoDescriptor
    /\ ReclaimRoom
    /\ reclaim' = Append(reclaim, refs[f])
    /\ ClearRef(f)
    /\ UNCHANGED <<frozen, state>>

\* Mutant: the tasks go on as if nothing were frozen.
SinkFreezesQuietly(f) ==
    /\ refs[f] /= NoDescriptor
    /\ ReclaimFull
    /\ frozen' = IF f \in FrozenFrames THEN frozen ELSE Append(frozen, refs[f])
    /\ UNCHANGED <<reclaim, refs, state>>

\* store_pending_reclaim: a frame is frozen once.  There is a slot for every
\* frame, so there is always room.
SinkFreezes(f) ==
    /\ refs[f] /= NoDescriptor
    /\ ReclaimFull
    /\ frozen' = IF f \in FrozenFrames THEN frozen ELSE Append(frozen, refs[f])
    /\ state' = IF state = "recovery" THEN "reclaim_blocked" ELSE "reclaim_full"
    /\ UNCHANGED <<reclaim, refs>>

\* No reference, or no valid reclaim ring: the frame stays where it is.
SinkFails(f) ==
    /\ refs[f] = NoDescriptor \/ region /= "ready"
    /\ UNCHANGED <<reclaim, refs, frozen, state>>

SinkDone(f) == SinkWrites(f) \/ SinkFreezes(f)

-----------------------------------------------------------------------------
(* rtos_tasks_retry_pending_reclaims, called from four places: it goes on    *)
(* from pc = at to pc = next.                                               *)

\* Nothing is frozen any more: back to work, or to the recovery under way.
StateWhenThawed ==
    IF recovery_pending \/ recovery_active THEN "recovery" ELSE "normal"

\* Mutant: what has been written stays on the list.
RetryWritesKeeps(at, next) ==
    /\ Goto(at, next)
    /\ frozen /= <<>>
    /\ ReclaimRoom
    /\ reclaim' = Append(reclaim, Head(frozen))
    /\ ClearRef(Head(frozen).frame)
    /\ UNCHANGED <<frozen, state, queue, rx, tx>>

RetryWrites(at, next) ==
    /\ pc = at
    /\ frozen /= <<>>
    /\ ReclaimRoom
    /\ reclaim' = Append(reclaim, Head(frozen))
    /\ ClearRef(Head(frozen).frame)
    /\ frozen' = Tail(frozen)
    /\ \/ Tail(frozen) = <<>> /\ pc' = next /\ state' = StateWhenThawed
       \/ Tail(frozen) /= <<>> /\ pc' \in {at, next} /\ UNCHANGED state
    /\ UNCHANGED <<queue, rx, tx>>

\* Mutant: a budget of nothing, a call that stops before the first write.
RetryStopsAtOnce(at, next) ==
    /\ Goto(at, next)
    /\ state' = IF frozen = <<>> THEN StateWhenThawed ELSE state
    /\ UNCHANGED <<frameVars, rings>>

RetryStops(at, next) ==
    /\ Goto(at, next)
    /\ ~ReclaimRoom \/ frozen = <<>>
    /\ state' = IF frozen = <<>> THEN StateWhenThawed
                ELSE IF ~ReclaimFull THEN state
                ELSE IF state \in {"recovery", "reclaim_blocked"}
                THEN "reclaim_blocked" ELSE "reclaim_full"
    /\ UNCHANGED <<frameVars, rings>>

Retry(at, next) ==
    /\ RetryWrites(at, next) \/ RetryStops(at, next)
    /\ UNCHANGED <<run, scan, local>>

-----------------------------------------------------------------------------
(* rtos_runtime_run_once. *)

Start ==
    /\ Goto("idle", "preflight")
    /\ periodic' \in BOOLEAN
    /\ late' = FALSE
    /\ UNCHANGED <<scan, local, frameVars, state, recoveryVars, heartbeat, rings>>

\* preflight_before_rx_drain: a region that is not ours any more is looked at
\* by the error monitor before anything is taken from it.
Preflight ==
    /\ Jump("preflight", IF region = "zeroed" \/ linux_epoch /= last_epoch
                         THEN "pre_monitor" ELSE "retry")

\* rtos_error_monitor_task_run_once: an invalid region degrades, a new boot
\* epoch starts a recovery.
Monitor(at, next) ==
    /\ pc = at
    /\ \/ /\ region /= "ready"
          /\ recovery_pending' = TRUE
          /\ state' = "degraded"
          /\ UNCHANGED last_epoch
       \/ /\ region = "ready"
          /\ linux_epoch /= last_epoch
          /\ recovery_pending' = TRUE
          /\ state' = "recovery"
          /\ last_epoch' = linux_epoch
       \/ /\ region = "ready"
          /\ linux_epoch = last_epoch
          /\ UNCHANGED <<recovery_pending, state, last_epoch>>
    /\ pc' = IF at = "monitor" /\ state' /= "recovery" THEN "idle" ELSE next
    /\ UNCHANGED <<periodic, late, scan, local, frameVars, recovery_active,
                   router_epoch, heartbeat, rings>>

\* Blocked states write frozen reclaims first, a recovery cleans up first.
RetryFirst ==
    /\ pc = "retry"
    /\ state \in {"reclaim_full", "reclaim_blocked"}
    /\ Retry("retry", "recover")

SkipRetry ==
    /\ Jump("retry", "recover")
    /\ state \notin {"reclaim_full", "reclaim_blocked"}

AfterRecovery == IF late THEN "idle" ELSE "drain"

SkipRecovery ==
    /\ state /= "recovery"
    /\ Jump("recover", AfterRecovery)

-----------------------------------------------------------------------------
(* rtos_recovery_task_run_once: frozen reclaims, then the queue, then the    *)
(* references nothing else refers to; attach again when all are gone.       *)

RecoverStart ==
    /\ state = "recovery"
    /\ Goto("recover", IF frozen = <<>> THEN "rec_queue" ELSE "rec_retry")
    /\ recovery_active' = TRUE
    /\ recovery_pending' = (recovery_active /\ recovery_pending)
    /\ UNCHANGED <<periodic, late, scan, local, frameVars, state, last_epoch,
                   router_epoch, heartbeat, rings>>

\* Nothing is taken from the queue while a reclaim is frozen; the retries may
\* have used the budget up.
RecEnter ==
    /\ pc = "rec_enter"
    /\ pc' \in IF frozen = <<>> THEN {"rec_queue", "rec_finish"}
                                ELSE {"rec_finish"}
    /\ UNCHANGED <<run, scan, local, frameVars, state, rings>>

RecTakeItem ==
    /\ Goto("rec_queue", "rec_drop")
    /\ \E x \in queue : item' = x /\ queue' = queue \ {x}
    /\ UNCHANGED <<run, scan, tries, refs, frozen, state, rings>>

ToOrphans == IF queue = {} /\ frozen = <<>> THEN "rec_orphans" ELSE "rec_finish"

RecQueueEmpty ==
    /\ queue = {}
    /\ Jump("rec_queue", ToOrphans)

\* rtos_router_reclaim_queued: an item whose reclaim fails is off the queue
\* all the same.
RecDrop ==
    /\ pc = "rec_drop"
    /\ \/ SinkDone(item.frame) /\ pc' \in {"rec_queue", "rec_finish"}
       \/ SinkFails(item.frame) /\ pc' = ToOrphans
    /\ LocalsEnd
    /\ UNCHANGED <<run, scan, queue, rx, tx>>

Orphans == InUse \ FrozenFrames

RecOrphan ==
    /\ pc = "rec_orphans"
    /\ \E f \in Orphans : SinkDone(f)
    /\ pc' \in {"rec_orphans", "rec_finish"}
    /\ LocalsEnd
    /\ UNCHANGED <<run, scan, queue, rx, tx>>

RecOrphansDone ==
    /\ Jump("rec_orphans", "rec_finish")
    /\ Orphans = {} \/ region /= "ready"

RecBlocked ==
    /\ frozen /= <<>> \/ state = "reclaim_blocked"
    /\ state' = "reclaim_blocked"
    /\ UNCHANGED recoveryVars

RecUnfinished ==
    /\ frozen = <<>> /\ state /= "reclaim_blocked"
    /\ queue /= {} \/ Orphans /= {}
    /\ state' = "recovery"
    /\ UNCHANGED recoveryVars

RecClean ==
    /\ frozen = <<>> /\ state /= "reclaim_blocked"
    /\ queue = {} /\ Orphans = {}

RecAttachFails ==
    /\ RecClean
    /\ region /= "ready"
    /\ state' = "degraded"
    /\ UNCHANGED recoveryVars

\* Mutant: the router goes on with the epoch it had.
RecDoneOldRouter ==
    /\ RecClean
    /\ region = "ready"
    /\ state' = "normal"
    /\ recovery_pending' = FALSE
    /\ recovery_active' = FALSE
    /\ last_epoch' = linux_epoch
    /\ UNCHANGED router_epoch

RecDone ==
    /\ RecClean
    /\ region = "ready"
    /\ state' = "normal"
    /\ recovery_pending' = FALSE
    /\ recovery_active' = FALSE
    /\ last_epoch' = linux_epoch
    /\ router_epoch' = linux_epoch

RecFinish ==
    /\ Goto("rec_finish", AfterRecovery)
    /\ RecBlocked \/ RecUnfinished \/ RecAttachFails \/ RecDone
    /\ UNCHANGED <<periodic, late, scan, local, frameVars, heartbeat, rings>>

-----------------------------------------------------------------------------
(* rtos_ipc_event_task_run_once: only the normal state takes frames in.      *)

DrainEnter ==
    /\ Jump("drain",
            IF state = "normal" THEN "rx"
            ELSE IF state /= "reclaim_blocked" /\ frozen /= <<>>
                 THEN "ipc_retry"
            ELSE "schedule")

RxReadable ==
    /\ state = "normal"
    /\ region = "ready"
    /\ rx[ScanOrder[port]] /= <<>>

\* The oldest descriptor of the ring leaves it, to be routed, or, when the
\* tasks believe they have its frame already, to be dropped.
RxTake ==
    /\ pc = "rx"
    /\ RxReadable
    /\ LET i == ScanOrder[port]
           d == Head(rx[i])
       IN  /\ rx' = [rx EXCEPT ![i] = Tail(@)]
           /\ \/ /\ refs[d.frame] = NoDescriptor
                 /\ refs' = [refs EXCEPT ![d.frame] = d]
                 /\ item' = d
                 /\ pc' = "submit"
              \/ /\ refs[d.frame] /= NoDescriptor
                 /\ UNCHANGED <<refs, item, pc>>
    /\ served' = TRUE
    /\ UNCHANGED <<run, port, tries, queue, frozen, state, tx, reclaim>>

LoopEnds == port' = 1 /\ served' = FALSE

\* On to the next ring: this one is empty, or has had its budget, or is one a
\* doorbell run skips because its pending bit was clear.
RxNextRing ==
    /\ pc = "rx"
    /\ state = "normal"
    /\ RxReadable => served \/ ~periodic
    /\ \/ /\ port < Cardinality(Interfaces)
          /\ port' = port + 1
          /\ served' = FALSE
          /\ UNCHANGED pc
       \/ /\ port = Cardinality(Interfaces)
          /\ LoopEnds
          /\ pc' = "schedule"
    /\ UNCHANGED <<run, local, frameVars, state, rings>>

\* A reclaim was frozen: the rings not scanned yet have to wait.
RxBlocked ==
    /\ Goto("rx", "schedule")
    /\ state /= "normal"
    /\ LoopEnds
    /\ UNCHANGED <<run, local, frameVars, state, rings>>

\* Mutant: the epoch of the descriptor is not looked at.
SubmitQueuesAnyEpoch ==
    /\ Goto("submit", "rx")
    /\ Cardinality(queue) < QueueCapacity
    /\ \E t \in Targets : queue' = queue \cup {[item EXCEPT !.target = t]}
    /\ LocalsEnd
    /\ UNCHANGED <<run, scan, refs, frozen, state, rings>>

\* rtos_router_submit.  The route decides the target.
SubmitQueues ==
    /\ Goto("submit", "rx")
    /\ item.epoch = router_epoch
    /\ Cardinality(queue) < QueueCapacity
    /\ \E t \in Targets : queue' = queue \cup {[item EXCEPT !.target = t]}
    /\ LocalsEnd
    /\ UNCHANGED <<run, scan, refs, frozen, state, rings>>

\* A full queue evicts an item for one that is as important.
SubmitEvicts ==
    /\ Goto("submit", "evict")
    /\ item.epoch = router_epoch
    /\ Cardinality(queue) >= QueueCapacity
    /\ \E x \in queue, t \in Targets :
          /\ queue' = (queue \ {x}) \cup {[item EXCEPT !.target = t]}
          /\ item' = x
    /\ UNCHANGED <<run, scan, tries, refs, frozen, state, rings>>

\* Invalid, of another epoch, expired, a heartbeat, without a route, or less
\* important than a full queue: the input is reclaimed.
SubmitDrops ==
    /\ Goto("submit", "rx")
    /\ SinkDone(item.frame) \/ SinkFails(item.frame)
    /\ LocalsEnd
    /\ UNCHANGED <<run, scan, queue, rx, tx>>

\* Mutant: the evicted item is forgotten.
EvictForgets ==
    /\ Goto("evict", "rx")
    /\ LocalsEnd
    /\ UNCHANGED <<run, scan, frameVars, state, rings>>

EvictDrops ==
    /\ Goto("evict", "rx")
    /\ SinkDone(item.frame) \/ SinkFails(item.frame)
    /\ LocalsEnd
    /\ UNCHANGED <<run, scan, queue, rx, tx>>

-----------------------------------------------------------------------------
(* rtos_router_scheduler_task_run_once and rtos_router_schedule_once.        *)

ScheduleEnter ==
    /\ Jump("schedule",
            IF frozen /= <<>> THEN "sched_retry"
            ELSE IF state = "normal" THEN "queue" ELSE "heartbeat")

\* Mutant: the item is handed out and stays in the queue.
PickKeeps(x) ==
    /\ pc = "queue"
    /\ x \in queue
    /\ item' = x
    /\ tries' \in RetryLimits
    /\ pc' \in {"tx", "drop"}
    /\ served' = TRUE
    /\ UNCHANGED <<run, port, frameVars, state, rings>>

\* An expired item is dropped, any other is tried as often as its priority
\* allows.
Pick(x) ==
    /\ pc = "queue"
    /\ x \in queue
    /\ queue' = queue \ {x}
    /\ item' = x
    /\ tries' \in RetryLimits
    /\ pc' \in {"tx", "drop"}
    /\ served' = TRUE
    /\ UNCHANGED <<run, port, refs, frozen, state, rings>>

QueueLeave ==
    /\ Goto("queue", "heartbeat")
    /\ queue /= {} => served
    /\ LoopEnds
    /\ UNCHANGED <<run, local, frameVars, state, rings>>

TxRoom ==
    /\ refs[item.frame] /= NoDescriptor
    /\ region = "ready"
    /\ Len(tx[item.target]) < RingDepth

\* Mutant: the reference of a forwarded frame is kept.
TxWritesKeepsRef ==
    /\ pc = "tx"
    /\ TxRoom
    /\ tx' = [tx EXCEPT ![item.target] = Append(@, item)]
    /\ pc' = "queue"
    /\ LocalsEnd
    /\ UNCHANGED <<run, scan, frameVars, state, rx, reclaim>>

TxWrites ==
    /\ pc = "tx"
    /\ TxRoom
    /\ tx' = [tx EXCEPT ![item.target] = Append(@, item)]
    /\ ClearRef(item.frame)
    /\ pc' = "queue"
    /\ LocalsEnd
    /\ UNCHANGED <<run, scan, queue, frozen, state, rx, reclaim>>

\* Mutant: one attempt too many.
TxFailsOffByOne ==
    /\ pc = "tx"
    /\ ~TxRoom
    /\ \/ tries >= 0 /\ tries' = tries - 1 /\ UNCHANGED pc
       \/ tries < 0 /\ pc' = "drop" /\ UNCHANGED tries
    /\ UNCHANGED <<run, scan, item, frameVars, state, rings>>

TxFails ==
    /\ pc = "tx"
    /\ ~TxRoom
    /\ \/ tries > 0 /\ tries' = tries - 1 /\ UNCHANGED pc
       \/ tries = 0 /\ pc' = "drop" /\ UNCHANGED tries
    /\ UNCHANGED <<run, scan, item, frameVars, state, rings>>

\* An item whose reclaim fails is off the queue all the same.
ItemDrops ==
    /\ pc = "drop"
    /\ \/ SinkDone(item.frame) /\ pc' = "queue" /\ UNCHANGED scan
       \/ SinkFails(item.frame) /\ pc' = "heartbeat" /\ LoopEnds
    /\ LocalsEnd
    /\ UNCHANGED <<run, queue, rx, tx>>

-----------------------------------------------------------------------------
(* The periodic tasks. *)

\* Mutant: a recovery that is asked for is not started.
HeartbeatTaskNoRecovery ==
    /\ Goto("heartbeat", "monitor")
    /\ periodic
    /\ heartbeat' \in IF Heartbeats
                      THEN {heartbeat, "lost"} \cup
                           IF heartbeat = "normal" THEN {"suspect"} ELSE {}
                      ELSE {heartbeat}
    /\ state' = IF heartbeat' = "lost" /\ state = "normal" THEN "degraded"
                ELSE state
    /\ late' = TRUE
    /\ UNCHANGED <<periodic, scan, local, frameVars, recoveryVars, rings>>

\* rtos_heartbeat_task_run_once.  The age of the last Linux heartbeat decides.
HeartbeatTask ==
    /\ Goto("heartbeat", "monitor")
    /\ periodic
    /\ heartbeat' \in IF Heartbeats
                      THEN {heartbeat, "lost"} \cup
                           IF heartbeat = "normal" THEN {"suspect"} ELSE {}
                      ELSE {heartbeat}
    /\ state' = IF recovery_pending THEN "recovery"
                ELSE IF heartbeat' = "lost" /\ state = "normal" THEN "degraded"
                ELSE state
    /\ late' = TRUE
    /\ UNCHANGED <<periodic, scan, local, frameVars, recoveryVars, rings>>

EndDoorbellRun ==
    /\ Jump("heartbeat", "idle")
    /\ ~periodic

\* rtos_tasks_observe_linux_heartbeat, called between two runs: a heartbeat
\* that comes back asks for a recovery.
ObserveHeartbeat ==
    /\ pc = "idle"
    /\ heartbeat /= "normal"
    /\ heartbeat' = "normal"
    /\ recovery_pending' = TRUE
    /\ UNCHANGED <<pc, periodic, late, scan, local, frameVars, state, recovery_active,
                   last_epoch, router_epoch, rings>>

-----------------------------------------------------------------------------
\* A run of rtos_runtime_run_once, short of the choice of a queue item.
Run ==
    \/ Preflight \/ Monitor("pre_monitor", "retry")
    \/ RetryFirst \/ SkipRetry \/ SkipRecovery
    \/ RecoverStart \/ Retry("rec_retry", "rec_enter") \/ RecEnter
    \/ RecTakeItem \/ RecQueueEmpty \/ RecDrop
    \/ RecOrphan \/ RecOrphansDone \/ RecFinish
    \/ DrainEnter \/ Retry("ipc_retry", "schedule")
    \/ RxTake \/ RxNextRing \/ RxBlocked
    \/ SubmitQueues \/ SubmitEvicts \/ SubmitDrops \/ EvictDrops
    \/ ScheduleEnter \/ Retry("sched_retry", "heartbeat")
    \/ QueueLeave \/ TxWrites \/ TxFails \/ ItemDrops
    \/ HeartbeatTask \/ EndDoorbellRun \/ Monitor("monitor", "recover")

PickNext == \E x \in queue : Pick(x)

RtosNext == Start \/ Run \/ PickNext \/ ObserveHeartbeat

-----------------------------------------------------------------------------
\* The queue holds items of one boot only, whatever a restart does between two
\* steps.
QueueOfOneBoot == \A x \in queue : x.epoch = router_epoch

\* Every frame the tasks know is in one place only: in the hand of the current
\* call, in the queue, or frozen.  Nothing they handle lacks a reference, for
\* such an item could be neither sent nor reclaimed.
InHand == IF item = NoDescriptor THEN {} ELSE {item.frame}

RefsConsistent ==
    /\ InHand \cup QueuedFrames \cup FrozenFrames \subseteq InUse
    /\ InHand \cap (QueuedFrames \cup FrozenFrames) = {}
    /\ QueuedFrames \cap FrozenFrames = {}
    /\ Cardinality(QueuedFrames) = Cardinality(queue)
    /\ Cardinality(FrozenFrames) = Len(frozen)

\* No reference is left behind either: what a failed sink call forgot would sit
\* in the table until the next recovery.
NoOrphan == InUse = InHand \cup QueuedFrames \cup FrozenFrames

\* While a reclaim is frozen the tasks take nothing in, and what keeps them
\* from it otherwise is never a reclaim that is long written.
Backpressure ==
    /\ frozen /= <<>> => state /= "normal"
    /\ state \in {"reclaim_full", "reclaim_blocked"} => frozen /= <<>>

-----------------------------------------------------------------------------
(* The inductive invariants of the tasks. *)

\* Where a step handles an item there is one, and elsewhere there is none.
ItemPCs == {"submit", "evict", "rec_drop", "tx", "drop"}
HasItem == pc \in ItemPCs => item \in Descriptors
EmptyHanded == pc \notin ItemPCs => item = NoDescriptor

RtosInv == RtosTypeOK /\ HasItem /\ QueueOfOneBoot

\* The parts of RefsConsistent that count nothing.
RefsApart ==
    /\ InHand \cup QueuedFrames \cup FrozenFrames \subseteq InUse
    /\ InHand \cap (QueuedFrames \cup FrozenFrames) = {}
    /\ QueuedFrames \cap FrozenFrames = {}
    /\ \A x, y \in queue : x.frame = y.frame => x = y
    /\ NoneTwice(frozen)

\* What the tasks handle is what the reference says, but for the target that
\* the route has decided.
SameFrame(x) ==
    /\ refs[x.frame].source = x.source
    /\ refs[x.frame].epoch = x.epoch

RefsTrue ==
    /\ \A f \in InUse : refs[f].frame = f
    /\ \A x \in queue : SameFrame(x) /\ x.target \in Targets
    /\ item /= NoDescriptor =>
          SameFrame(item) /\ (pc /= "submit" => item.target \in Targets)
    /\ \A k \in DOMAIN frozen : frozen[k] = refs[frozen[k].frame]

\* The recovery looks for orphans only when its queue is empty.
RefsInv ==
    /\ EmptyHanded
    /\ pc = "rec_orphans" => queue = {}
    /\ RefsApart
    /\ RefsTrue
=============================================================================
