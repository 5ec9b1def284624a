------------------------------- MODULE Router -------------------------------
(***************************************************************************)
(* A descriptor on its way through both processors: the Linux side rates a    *)
(* received frame (ingress_security.c) and writes the result into the flags   *)
(* of the descriptor; the firmware turns the descriptor into a route input    *)
(* (rtos_router_adapter.c), decides from flags, epoch, age and route table    *)
(* what becomes of it (rtos_router_core.c) and queues it for transmission.    *)
(* The RX rings in between keep the order within an interface and are left    *)
(* out; the policy is that of one boot and every interface has its own        *)
(* sequence, so a frame is rated and submitted in one step.                   *)
(***************************************************************************)
EXTENDS PriorityQueue

CONSTANTS
    Interfaces,  \* put_shm_interface_t; a CID segment is named by its interface
    External,    \* those whose frames the Linux side rates
    Control,     \* the segments of CAN and RS485
    Reserved,    \* the segments that no interface serves
    Policies,    \* the security policies of the run
    Inputs,      \* the frames that may arrive
    Epoch,       \* current_linux_epoch
    Ttl,         \* milliseconds a frame may spend in the gateway
    RetryLimit,  \* k_retry_limit
    TimeMod,     \* 2^32: where the clock wraps
    CountMod,    \* 2^32: where the statistics wrap
    Wraps        \* whether the run is long enough for the clock to wrap

Types == {"data", "heartbeat", "reserved"}
TrustFlags == {"internal", "auth", "integrity", "replay", "control"}

Policy == [enabled : BOOLEAN, require_authentication : BOOLEAN,
           require_integrity : BOOLEAN, require_replay_protection : BOOLEAN,
           allow_control_path : BOOLEAN]

\* What the rating and the router read of a frame and its descriptor: header
\* stands for the lengths, the static fields and the equality of descriptor and
\* header, token and tag for the two slices of the verify string, sequence for
\* the local time of the sender.
Frame == [source : Interfaces, segment : Interfaces \cup Reserved, type : Types,
          priority : Nat, epoch : Nat, header : BOOLEAN, token : BOOLEAN,
          tag : BOOLEAN, sequence : Nat]

ASSUME RouterAssumption ==
    /\ External \subseteq Interfaces
    /\ Control \subseteq Interfaces
    /\ Reserved \cap Interfaces = {}
    /\ Policies \subseteq Policy
    /\ Inputs \subseteq Frame
    /\ Epoch \in Nat
    /\ Ttl \in Nat
    /\ RetryLimit \in [Priorities -> Nat]
    /\ TimeMod \in Nat \ {0}
    /\ CountMod \in Nat \ {0}
    /\ Wraps \in BOOLEAN

VARIABLES
    now,              \* the firmware's time source
    submitted,        \* statistics.submitted_count
    routed,           \* statistics.routed_count
    reclaimed,        \* statistics.reclaimed_count
    policy,           \* the policy of the adapters
    sequence_seen,    \* policy->sequence_seen
    last_sequence,    \* policy->last_sequence
    newest            \* history: 1 + the highest sequence queued so far

counters == <<submitted, routed, reclaimed>>
rating == <<sequence_seen, last_sequence>>
vars == <<queueVars, now, counters, policy, rating, newest>>

Items == [priority : Priorities, time : 0 .. TimeMod - 1,
          receive : 0 .. TimeMod - 1]

Init ==
    /\ QueueInit
    /\ now = 0
    /\ submitted = 0 /\ routed = 0 /\ reclaimed = 0
    /\ policy \in Policies
    /\ sequence_seen = [i \in Interfaces |-> FALSE]
    /\ last_sequence = [i \in Interfaces |-> 0]
    /\ newest = [i \in Interfaces |-> 0]

-----------------------------------------------------------------------------
\* Linux: ingress_security_evaluate.

ControlPath(x) == x.segment \in Control

\* Mutant: a sequence number that comes again is not a replay.
ReplayPassesTwice(x) ==
    sequence_seen[x.source] => x.sequence >= last_sequence[x.source]

\* replay_check_and_update: the adapters pass no time, so that only the order of
\* the sequence numbers counts.
ReplayPasses(x) ==
    sequence_seen[x.source] => x.sequence > last_sequence[x.source]

\* What is remembered of a frame, whatever the other checks say of it.
Remember(x) ==
    IF policy.enabled /\ policy.require_replay_protection
       /\ x.source \in External /\ ReplayPasses(x)
    THEN /\ sequence_seen' = [sequence_seen EXCEPT ![x.source] = TRUE]
         /\ last_sequence' = [last_sequence EXCEPT ![x.source] = x.sequence]
    ELSE UNCHANGED rating

Evaluate(x) ==
    IF ~policy.enabled THEN {}
    ELSE {f \in TrustFlags \ {"internal"} :
            \/ f = "auth" /\ (policy.require_authentication => x.token)
            \/ f = "integrity" /\ (policy.require_integrity => x.tag)
            \/ f = "replay" /\ (policy.require_replay_protection => ReplayPasses(x))
            \/ f = "control" /\ policy.allow_control_path /\ ControlPath(x)}

\* CAN and RS485 are internal and trusted.
FlagsOf(x) == IF x.source \in External THEN Evaluate(x) ELSE {"internal", "control"}

\* A frame the rating cannot parse does not get as far as a descriptor.
Received(x) == x.source \in External /\ policy.enabled => x.header

\* There is no block for the frame or no room in the ring: it has been rated all
\* the same.
NotCommitted(x) ==
    /\ Received(x)
    /\ Remember(x)
    /\ UNCHANGED <<queueVars, now, counters, policy, newest>>

-----------------------------------------------------------------------------
\* Firmware: the adapter's verdict.

RequiresControl(x) == x.source \in External /\ (x.priority <= 1 \/ ControlPath(x))

\* descriptor_trust_from_flags gives a state that rtos_router_trust_is_routable.
Trusted(x) ==
    LET flags == FlagsOf(x)
    IN  \/ "internal" \in flags
        \/ /\ {"auth", "integrity", "replay"} \subseteq flags
           /\ RequiresControl(x) => "control" \in flags

TypeIsValid(x) == x.type /= "reserved"

Invalid(x) ==
    \/ ~x.header
    \/ ~TypeIsValid(x)
    \/ ~Trusted(x)
    \/ x.type /= "heartbeat" /\ x.priority \notin Priorities

\* rtos_router_ttl_is_expired: the unsigned age; a ttl of 0 never expires.
Expired(receive) == Ttl > 0 /\ (now + TimeMod - receive) % TimeMod >= Ttl

\* rtos_router_route_table_lookup in the default table, the only one there is.
HasRoute(x) == x.segment \in Interfaces

-----------------------------------------------------------------------------
Bump(c) == (c + 1) % CountMod

\* A reclaim is counted before it is offered to the reclaim ring.
Reclaimed == reclaimed' = Bump(reclaimed) /\ UNCHANGED routed

\* The input goes back to Linux: an invalid frame, an epoch of another boot, a
\* frame that is too old, a heartbeat that has been read, a frame without route.
SubmitReclaims(x, receive) ==
    /\ \/ Invalid(x)
       \/ x.epoch /= Epoch
       \/ Expired(receive)
       \/ x.type = "heartbeat"
       \/ ~HasRoute(x)
    /\ Reclaimed
    /\ UNCHANGED <<queueVars, newest>>

Routable(x, receive) ==
    /\ ~Invalid(x)
    /\ x.epoch = Epoch
    /\ ~Expired(receive)
    /\ x.type /= "heartbeat"
    /\ HasRoute(x)

\* fill_queue_item stamps the item with the current time.
ItemOf(x, receive) == [priority |-> x.priority, time |-> now, receive |-> receive]

Queued(x) ==
    newest' = [newest EXCEPT ![x.source] = IF x.sequence >= @ THEN x.sequence + 1 ELSE @]

\* Mutant: the item that made room is not sent back.
SubmitForgetsEvicted(x, receive) ==
    /\ Routable(x, receive)
    /\ \/ Enqueue(ItemOf(x, receive)) /\ Queued(x) /\ UNCHANGED <<routed, reclaimed>>
       \/ EnqueueEvicts(ItemOf(x, receive)) /\ Queued(x) /\ UNCHANGED <<routed, reclaimed>>
       \/ EnqueueFull(ItemOf(x, receive)) /\ Reclaimed /\ UNCHANGED newest

\* The input is queued, takes the place of an item that goes back to Linux, or
\* goes back itself.
SubmitQueues(x, receive) ==
    /\ Routable(x, receive)
    /\ \/ Enqueue(ItemOf(x, receive)) /\ Queued(x) /\ UNCHANGED <<routed, reclaimed>>
       \/ EnqueueEvicts(ItemOf(x, receive)) /\ Queued(x) /\ Reclaimed
       \/ EnqueueFull(ItemOf(x, receive)) /\ Reclaimed /\ UNCHANGED newest

\* rtos_router_submit.  The time at which the descriptor was taken and the time
\* at which the router looks at it are two reads of the clock.
Submit(x) ==
    /\ Received(x)
    /\ submitted' = Bump(submitted)
    /\ Remember(x)
    /\ \E late \in {0, 1} :
         /\ Wraps \/ late <= now
         /\ LET receive == (now + TimeMod - late) % TimeMod
            IN  SubmitReclaims(x, receive) \/ SubmitQueues(x, receive)
    /\ UNCHANGED <<now, policy>>

\* The item that Dequeue takes.
Taken == items[CHOOSE k \in DOMAIN items : items' = RemoveAt(items, k)]

\* rtos_router_schedule_once: a frame too old goes back; any other is offered to
\* the TX ring 1 + retry_limit times and goes back when that takes none.
Schedule ==
    /\ Dequeue
    /\ \/ Expired(Taken.receive) /\ Reclaimed
       \/ /\ ~Expired(Taken.receive)
          /\ \E offers \in 1 .. RetryLimit[Taken.priority] + 1 :
                \/ routed' = Bump(routed) /\ UNCHANGED reclaimed
                \/ offers = RetryLimit[Taken.priority] + 1 /\ Reclaimed
    /\ UNCHANGED <<now, submitted, policy, rating, newest>>

\* rtos_router_reclaim_queued: recovery sends back what is queued, in the order
\* of the scheduler.
ReclaimQueued ==
    /\ Dequeue
    /\ Reclaimed
    /\ UNCHANGED <<now, submitted, policy, rating, newest>>

Tick ==
    /\ Wraps \/ now + 1 < TimeMod
    /\ now' = (now + 1) % TimeMod
    /\ UNCHANGED <<queueVars, counters, policy, rating, newest>>

Next ==
    \/ \E x \in Inputs : Submit(x) \/ NotCommitted(x)
    \/ Schedule
    \/ ReclaimQueued
    \/ Tick

Spec == Init /\ [][Next]_vars

-----------------------------------------------------------------------------
TypeOK ==
    /\ items \in Seq(Items)
    /\ QueueTypeOK
    /\ now \in 0 .. TimeMod - 1
    /\ submitted \in 0 .. CountMod - 1
    /\ routed \in 0 .. CountMod - 1
    /\ reclaimed \in 0 .. CountMod - 1
    /\ policy \in Policies
    /\ sequence_seen \in [Interfaces -> BOOLEAN]
    /\ last_sequence \in [Interfaces -> Nat]
    /\ newest \in [Interfaces -> Nat]

\* Every descriptor submitted is queued, routed or on its way back, and counted
\* once as that, over the wrap of the counters: the report of the gateway adds
\* up whatever the checks, the eviction, the retries and recovery did.
NothingUnaccounted ==
    /\ TypeOK
    /\ submitted = (Len(items) + routed + reclaimed) % CountMod

\* The two processors agree on what may be routed.  A frame of an external
\* interface that the router would queue has what the Linux policy asks for, a
\* sequence number above that of every frame queued before from the interface,
\* and for an important priority or a control segment the policy's leave.
RoutedIsAllowed ==
    \A x \in Inputs :
        x.source \in External /\ Received(x) /\ ~Invalid(x) =>
            /\ policy.enabled
            /\ policy.require_authentication => x.token
            /\ policy.require_integrity => x.tag
            /\ policy.require_replay_protection => x.sequence >= newest[x.source]
            /\ x.priority <= 1 \/ ControlPath(x) =>
                  policy.allow_control_path /\ ControlPath(x)

\* As long as the clock does not wrap, the array is in the order of arrival.
StampedInOrder ==
    ~Wraps => InOrder /\ \A k \in DOMAIN items : items[k].time <= now

RouterInv == NothingUnaccounted /\ QueueInv /\ StampedInOrder
=============================================================================
