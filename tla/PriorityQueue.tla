--------------------------- MODULE PriorityQueue ---------------------------
(***************************************************************************)
(* The local queue of the router (rtos_priority_queue.c): one array for all  *)
(* priorities, 0 the most important, a round of quotas that decides whose    *)
(* turn it is, and eviction when the array is full.  Within a priority the   *)
(* order is that of a time stamp in milliseconds.  An item is a record with  *)
(* at least a priority and a time; what else it carries is its owner's.      *)
(***************************************************************************)
EXTENDS Naturals, Sequences, FiniteSets, SequencesExt

CONSTANTS
    PriorityCount,  \* RTOS_FIRMWARE_PRIORITY_COUNT
    Capacity,       \* RTOS_FIRMWARE_PRIORITY_QUEUE_CAPACITY
    Quota           \* RTOS_FIRMWARE_PRIORITY_n_QUOTA

Priorities == 0 .. PriorityCount - 1

ASSUME QueueAssumption ==
    /\ PriorityCount \in Nat \ {0}
    /\ Capacity \in Nat \ {0}
    /\ Quota \in [Priorities -> Nat \ {0}]

VARIABLES
    items,               \* queue->items[0 .. count - 1]
    quota_used,          \* queue->quota_used
    scheduler_priority,  \* queue->scheduler_priority
    passed               \* history: dequeues since each waiting priority's turn

queueVars == <<items, quota_used, scheduler_priority, passed>>

QueueInit ==
    /\ items = <<>>
    /\ quota_used = [p \in Priorities |-> 0]
    /\ scheduler_priority = 0
    /\ passed = [p \in Priorities |-> 0]

-----------------------------------------------------------------------------
OfPriority(p) == {k \in DOMAIN items : items[k].priority = p}
Has(p) == OfPriority(p) /= {}

\* Mutant: the latest time stamp.
Newest(p) ==
    CHOOSE k \in OfPriority(p) : \A j \in OfPriority(p) :
        \/ items[k].time > items[j].time
        \/ items[k].time = items[j].time /\ k <= j

\* find_oldest_priority: the earliest time stamp, and of those the first.
Oldest(p) ==
    CHOOSE k \in OfPriority(p) : \A j \in OfPriority(p) :
        \/ items[k].time < items[j].time
        \/ items[k].time = items[j].time /\ k <= j

Least(S) == CHOOSE p \in S : \A q \in S : p <= q
Greatest(S) == CHOOSE p \in S : \A q \in S : p >= q

\* The history: a priority with nothing to send waits for nothing.
Waits(p) == \E k \in DOMAIN items' : items'[k].priority = p
StillWaiting == passed' = [p \in Priorities |-> IF Waits(p) THEN passed[p] ELSE 0]

Enqueue(item) ==
    /\ Len(items) < Capacity
    /\ items' = Append(items, item)
    /\ UNCHANGED <<quota_used, scheduler_priority, passed>>

\* find_evictable_item: the least important priority there is, down to that of
\* the new item; priority 0 does not evict its own.
Evictable(p) == {q \in Priorities : Has(q) /\ q >= p /\ q > 0}

\* Mutant: the most important of the evictable priorities loses its oldest.
EnqueueEvictsLeast(item) ==
    /\ Len(items) = Capacity
    /\ Evictable(item.priority) /= {}
    /\ items' = Append(RemoveAt(items, Oldest(Least(Evictable(item.priority)))), item)
    /\ StillWaiting
    /\ UNCHANGED <<quota_used, scheduler_priority>>

EnqueueEvicts(item) ==
    /\ Len(items) = Capacity
    /\ Evictable(item.priority) /= {}
    /\ items' = Append(RemoveAt(items, Oldest(Greatest(Evictable(item.priority)))), item)
    /\ StillWaiting
    /\ UNCHANGED <<quota_used, scheduler_priority>>

\* UNIFIED_ERR_IPC_QUEUE_FULL.
EnqueueFull(item) ==
    /\ Len(items) = Capacity
    /\ Evictable(item.priority) = {}
    /\ UNCHANGED queueVars

\* The rest of the round, and the round that a reset would start.  Every quota
\* is positive, so the scan finds an item before it has gone round twice.
ThisRound == {p \in Priorities : p >= scheduler_priority /\ Has(p)
                                 /\ quota_used[p] < Quota[p]}
NextRound == {p \in Priorities : Has(p)}

\* Mutant: the scheduler looks at the most important priority each time.
ServeFromZero(p, used) ==
    /\ items' = RemoveAt(items, Oldest(p))
    /\ quota_used' = [used EXCEPT ![p] = @ + 1]
    /\ scheduler_priority' = 0
    /\ passed' = [q \in Priorities |-> IF q = p \/ ~Waits(q) THEN 0
                                       ELSE passed[q] + 1]

\* An item of priority p leaves; used is the count of the round it leaves in.
\* The scheduler stays with p while p has both items and quota.
Serve(p, used) ==
    /\ items' = RemoveAt(items, Oldest(p))
    /\ quota_used' = [used EXCEPT ![p] = @ + 1]
    /\ scheduler_priority' =
          IF quota_used'[p] >= Quota[p] \/ ~Waits(p) THEN p + 1 ELSE p
    /\ passed' = [q \in Priorities |-> IF q = p \/ ~Waits(q) THEN 0
                                       ELSE passed[q] + 1]

Dequeue ==
    /\ items /= <<>>
    /\ \/ /\ ThisRound /= {}
          /\ Serve(Least(ThisRound), quota_used)
       \/ /\ ThisRound = {}
          /\ Serve(Least(NextRound), [p \in Priorities |-> 0])

-----------------------------------------------------------------------------
QueueTypeOK ==
    /\ Len(items) <= Capacity
    /\ quota_used \in [Priorities -> Nat]
    /\ \A p \in Priorities : quota_used[p] <= Quota[p]
    /\ scheduler_priority \in 0 .. PriorityCount
    /\ passed \in [Priorities -> Nat]

\* The quotas prevent starvation: a priority that has something to send is
\* passed over at most once by the quota of every other.
TurnsOfOthers(p) == UNION {{q} \X (1 .. Quota[q]) : q \in Priorities \ {p}}
BoundedWait == \A p \in Priorities : passed[p] <= Cardinality(TurnsOfOthers(p))

\* Items of a priority leave in the order they came: the oldest by its time
\* stamp is the first in the array.
OldestFirst == \A p \in Priorities : Has(p) => \A k \in OfPriority(p) : Oldest(p) <= k

\* Whatever makes room for a new item, no item is lost that is more important
\* than one that stays, and never one of priority 0.
Lost(p) == Cardinality({k \in DOMAIN items : items[k].priority = p})
           > Cardinality({k \in DOMAIN items' : items'[k].priority = p})
LeastImportantLost ==
    [][Len(items') = Len(items) =>
         \A p \in Priorities : Lost(p) =>
             /\ p > 0
             /\ \A k \in DOMAIN items' : items'[k].priority <= p]_queueVars

-----------------------------------------------------------------------------
(* The inductive invariant. *)

\* The priorities behind the scheduler's have had nothing of this round yet, and
\* its own has not had all.
RoundInv ==
    \A p \in Priorities :
        /\ p > scheduler_priority => quota_used[p] = 0
        /\ p = scheduler_priority => quota_used[p] < Quota[p]

\* The turns that may have been had while p waited: from behind p, round to where
\* the scheduler is now.
TurnsSince(p) ==
    {t \in TurnsOfOthers(p) :
        IF t[1] = scheduler_priority THEN t[2] <= quota_used[t[1]]
        ELSE IF p < scheduler_priority THEN p < t[1] /\ t[1] < scheduler_priority
        ELSE t[1] < scheduler_priority \/ p < t[1]}

WaitInv ==
    \A p \in Priorities :
        /\ passed[p] <= Cardinality(TurnsSince(p))
        /\ ~Has(p) => passed[p] = 0

QueueInv == QueueTypeOK /\ RoundInv /\ WaitInv

InOrder == \A j, k \in DOMAIN items : j < k => items[j].time <= items[k].time
=============================================================================
