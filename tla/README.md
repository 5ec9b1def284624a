# Verification of the PUT gateway

PUT is a protocol gateway on a two-core SoC.  A Linux process (`linux_app`) owns
the physical interfaces; the router runs as bare firmware (`rtos_firmware`) on
the small core.  The two share one region of memory with a pool of 64 frame
blocks, one RX and one TX ring of descriptors per interface, a reclaim ring, and
a mailbox that rings.  An adapter copies a message into a block; from then on only its
descriptor moves:

    adapter --alloc, fill, commit--> RX ring --> firmware: reference, route,
    priority queue --> TX ring --> egress worker --send, release--> pool
                  \--> reclaim ring --> Linux reclaim drain --release--> pool

A block has one owner at each moment, and only the code of both sides keeps it so.  There is no lock between the cores, either may
be slow, and Linux may die and format the region under the running firmware.
This directory models it and the parts beside it that have a state of
their own, checks them with TLC, and proves parts of them with TLAPS.

## 1. Inventory

| component | state | operations | hard because |
|---|---|---|---|
| ABI (`common/include/shared_memory_ipc.h`) | rings, pending bits, header with epochs | none | written by both cores |
| rings (`linux_shm_ipc.c`, `rtos_shm_ipc.c`) | `write_seq`, `read_seq`, slots, pending bit | enqueue, dequeue, consume | lock-free, sequence numbers wrap, the pending bit is cleared by one side and set by the other |
| frame pool (`linux_shm_ipc.c`) | bitmap, metadata per frame, quota counters | alloc, commit, dequeue TX, dequeue reclaim, release, format, attach | metadata must agree with descriptors that were away |
| egress (`egress_manager.c`, `egress_worker.c`) | worker threads, wake flags | wake, drain, stop | doorbell may be missing; release whatever the send returns |
| TCP, UDP and RFCOMM adapters (`ethernet_`, `wifi_`, `four_g_`, `bluetooth_adapter.c`) | sockets, one stream buffer per connection | receive, frame, submit to IPC, send, start, stop | streams are cut anywhere; a thread and the thread that stops it share a socket; two threads of an adapter share one `ipc` |
| CAN adapter (`can_adapter.c`) | socket, table of reassembly sessions | fragment, reassemble, time out, error frames | frames are lost and repeated, session numbers are a byte |
| RS485 adapter | device descriptor | open, read, close, reopen | as CAN |
| ingress security (`ingress_security.c`) | last sequence per interface | evaluate | remembers a frame before anybody has taken it; its verdict is read on the other core |
| lifecycle (`main.c`), status collector | epoch, services started, signal flag; running marks | start, stop, restart | any step of the start may fail, a signal may come at any moment; a restart is invisible to the firmware but for the header |
| RTOS IPC (`rtos_shm_ipc.c`) | attached region | attach, dequeue RX, enqueue TX, reclaim | validity of the region is tested at every call |
| router (`rtos_router_core.c`) | queue, epoch, sinks | submit, schedule, drain, reclaim queued | errors of sinks after an item left the queue |
| priority queue (`rtos_priority_queue.c`) | array, quotas of the round, pointer | enqueue with eviction, dequeue | fairness against strictness, clock wrap |
| tasks (`rtos_tasks.c`) | frame references, pending reclaims, state, recovery flags | event, scheduler, heartbeat, monitor, recovery, retry | five states, four call sites of the retry, back-pressure |
| runtime (`rtos_runtime.c`) | none | preflight, doorbell run, periodic run | the order of the tasks decides what a restart can hit |
| monitor, endpoint heartbeat, stuck timers | ages, states, error bits, recovery flags | observe, consume, poll, scan | the clock wraps, 0 means "not running", runs are late; a heartbeat that returns asks for a recovery |
| web backend and frontend | none of the above | read status files | no part in moving frames |

What makes each correct, in one line: a ring is a bounded FIFO and its bit is set
while it is not empty; a block has one owner and its counters are true; the
firmware hands back each frame it took, once, with the metadata Linux gave it;
the queue serves every priority; a restart or a full ring delays work and never
stops it; a message is handed on whole or not at all; nothing is routed that the
policy of Linux does not allow; what the firmware reports of ages and backlogs is
true; the process ends when it is told to, with no thread left.

## 2. Modules

| module | models | builds on |
|---|---|---|
| `BoundedFifo` | what a ring promises (abstract) | |
| `ShmRing` | one ring, pending bit, doorbell, at the grain of shared accesses | `BoundedFifo` (refinement) |
| `Region` | the shared region: rings as queues, header | |
| `LinuxIpc` | frame pool, adapter and egress threads, reclaim drain | `Region` |
| `FramePool` | the contract between the cores: `LinuxIpc` and an RTOS that only does its duty | `LinuxIpc` |
| `RtosTasks` | the firmware's tasks, one step per access to shared memory | `Region` |
| `Gateway` | both cores and restarts of Linux | `LinuxIpc`, `RtosTasks`, `FramePool` (refinement) |
| `PriorityQueue` | operators of the local queue of the router, over any item with a priority and a time | |
| `Router` | a frame rated by Linux, checked and queued by the router, with its statistics | `PriorityQueue` |
| `CanLink` | CAN senders, a bus that loses and repeats frames, the table of sessions | |
| `MessagePipe` | what a stream of messages promises (abstract) | |
| `StreamServer` | the TCP and RFCOMM services and their clients | `MessagePipe` (refinement) |
| `EgressManager` | the egress threads and their condition variables | |
| `LinuxApp` | `main`, the services' threads, their descriptors, the status marks | `EgressManager` |
| `Monitor` | heartbeats of endpoints and of Linux, stuck timers, under a clock that wraps | |
| `MC*` | constants for TLC | |
| `ShmRingProofs`, `FramePoolProofs` (and `LinuxIpc`), `GatewayProofs` (and `RtosTasks`), `RouterProofs`, `CanLinkProofs`, `StreamServerProofs`, `LinuxAppProofs`, `MonitorProofs` | theorems | the module each is named for |

The layers justify each other.  `ShmRing` shows that a ring with one producer is a
FIFO queue, so `Region` has queues.  `FramePool` says what Linux expects of the
firmware; `Gateway` shows that the tasks do it (`ImplementsPool`).
The run of `Router` shows that every waiting priority is served within a bounded
number of dequeues and first in first out within it, so `RtosTasks` has a set of
items and `Gateway` assumes strong fairness of `Pick`.  `Router` decides what a
choice in `RtosTasks` leaves open (`SubmitDrops`, the target of a frame).
`EgressManager` keeps of a TX ring only the number of its descriptors, because
`ShmRing` shows that a ring which is not empty has its pending bit; what a worker
does with one descriptor is in `LinuxIpc`.

### ShmRing

The three kinds of ring have the same protocol in both languages of the code, so
one module stands for all: `Enqueue .. Notify` are the shared accesses of an
enqueue in program order, `LoadWriteSeq .. RestorePending` those of the consumer's
loop.  `SeqMod` stands for 2^32.  The history variable `owed` holds the
descriptors whose enqueue reported success and that have not been taken.  Each
store is one step with its flush: cache maintenance is assumed to succeed and to
keep the order of the code.  The bit is set, cleared and restored by atomic OR and AND.

### LinuxIpc and FramePool

`filling[i]` and `sending[i]` are the frames in the hand of adapter thread *i* and
of egress worker *i* between two calls of the library.  A call of the library is
one step.  `Commit` carries the target the adapter guesses (the firmware
may route it elsewhere).  `Release` is the guarded `linux_shm_frame_release`, whose
refusal every caller ignores.  `TakeReclaim` frees a frame without a look at the
epoch, as the code does.  `NoInterface` is what `memset` leaves in the metadata of a
free frame; no test of the code can take it for a value, for each looks at
the state or the bitmap first.

### RtosTasks and Gateway

`pc` walks through `rtos_runtime_run_once`: preflight, retry, recovery, event task,
scheduler, and in a periodic run heartbeat, error monitor, late recovery.  Every
access to a ring or to the header is a step of its own, so Linux may act, die or
format between any two.  `refs` is `frame_references`, `frozen` is
`pending_reclaims`, `item` the descriptor in the hand of the current call.  The
sink of the router is `SinkWrites`, `SinkFreezes` or `SinkFails`, as the reclaim
ring has room, is full, or the call returns an error.

`FormatBegin`, `FormatHeader` and `FormatRings` are the stages of
`linux_shm_ipc_format_region`, with the death of the old process.  The new epoch is
the old one plus some `t \in Ticks`: `make_linux_epoch` has the resolution of a
second, so 0 is possible.

### PriorityQueue and Router

`items` is the array in its order, `quota_used` and `scheduler_priority` the round.
`passed` counts, for each waiting priority, the dequeues since its last turn.

`Submit` is a frame from the rating (`ingress_security_evaluate`, with `Remember` for
`replay_check_and_update`) to the end of `rtos_router_submit`; `NotCommitted` is one that
was rated and for which there was then no block or no room.  The checks are those of the
adapter (`Trusted`, `Invalid`), of the policy (`Expired`, `TypeIsValid`) and of the route
table (`HasRoute`), in the order of the code; each ends in a reclaim.  `Schedule` has
the offers to the TX ring up to the retry limit of the priority, `ReclaimQueued` is what a
recovery does.  `submitted`, `routed` and `reclaimed` are the statistics, which wrap.
`newest` is a history variable: the highest sequence queued of an interface.

### CanLink

A sender's `out` holds the frames of its message as `can_fragment_tx` cuts them;
`ReadSof` and `ReadData` are `can_adapter_reassemble_frame` with the scan for timeouts
that it begins with; `sessions` is the array in the order of `started_at_ms`.
A frame may be lost, or read twice; a sender may give up or start again; the bus may go
off, the interface down.  `intact` and `arrivals` are history: whether anything has
disturbed the last message of a sender, and how often it was put together.

### StreamServer

Bytes are named by connection, message and position, so that a mixture would show.  A TCP
service takes any piece of what was sent into `input` and works through it byte
range by byte range (`CopyLength`, `CopyBody`), `buffer` being its stream context; the
RFCOMM service reads the length and then the rest.  The three IP adapters have this
code three times over, line for line, so a definition is mapped to one of the
copies, and the definitions together to all three.

### EgressManager and LinuxApp

Threads have a program counter each; a lock that is held over several statements makes
them one step.  `wait` is `pthread_cond_wait`: a signal moves a waiting thread to
`test`, and is lost on any other.  `main` walks through start and stop in the order
of `main.c`.  `file` is the kernel's table of descriptors: `open`, `socket` and
`accept` take the lowest free number, so that a number closed by one thread comes
back in another.  `fd` is the descriptor in the shared state of a service, `local`
and `main_fd` copies in local variables, as `take_socket_fd` makes them.
`stop_requested` of a server is the negation of its `running`.  The instance has one
device, a UDP and a TCP service that share a status module, and one worker: one of
each kind of thread.

### Monitor

`now_ms` wraps at `ClockMod`.  A periodic run comes at least every `MaxLate + 1` ticks and is two
steps, `HeartbeatTask` and `ErrorMonitorTask`.  `silence`, `linux_silence` and
`lasted` are history: how long an endpoint, Linux and a condition have really been so.
`RegionInvalid` is the early return while Linux formats; it, another epoch and the
return of Linux ask for a recovery.

## 3. Runs

A passing run finishes without an error; a run that expects a violation checks
what a document or a comment of the repository says and the code does not do.

| run | question | instance |
|---|---|---|
| `ShmRing` | FIFO, bit covers contents, nothing lost, all taken even where only the bit brings the consumer | 1 producer, 3 descriptors, depth 2, numbers modulo 4 |
| `FramePool` | counters, quotas, one owner, nothing turned down | 3 frames, 2 interfaces, rings of 2 |
| `Gateway_pool` | the firmware implements the contract, forgets no frame, holds back while a reclaim is frozen | 3 frames, 2 interfaces, rings, reclaim ring and queue of 1 |
| `Gateway_live` | every frame comes back, frozen reclaims are written | 3 frames, reclaim ring of 1, queue of 2 |
| `Gateway_back` | tables and pool consistent across a restart at any moment, back to work after it and after lost heartbeats | 1 frame, 2 epochs, heartbeats |
| `Router` | the statistics add up; only what the policy allows is routed; bounded wait, FIFO, eviction | 3 priorities, capacity 3, quotas 2, 1, 1, 3 policies, counters modulo 2 |
| `CanLink` | whole messages only, an undisturbed one always and once, abandoned sessions given up | 2 senders, 2 sessions, session numbers modulo 2, messages of 1 and 2 data frames |
| `StreamServer` | messages of one connection, in order, whole; nobody blocks the next | 2 TCP connections, 1 RFCOMM connection, messages of 3 and 4 bytes, pieces of up to 5 |
| `LinuxApp` | no thread outlives the region, no descriptor is closed twice or left, the process ends, no wake-up is lost | 1 device, 1 UDP and 1 TCP service, 1 worker, 3 descriptors |
| `Monitor` | what the firmware says of endpoints, Linux and rings is true over the wrap of its clock | clock modulo 8, runs late by up to 1, 3 endpoints for 2 rows |

Why these bounds.  Sequence numbers modulo 4 wrap within every long behaviour, and
depth 2 is the smallest where full, empty and neither differ.  Three descriptors
fill the ring with one more waiting.  Rings and queue of one block at once, so that
back-pressure, eviction and rejection all happen with three frames; in the code too
the reclaim ring (8) is far smaller than the pool (64).  Two interfaces are the
fewest where quotas, wrong targets and starvation exist, and one restart
shows everything two boots can confuse.  Where `Targets` is one interface the
routing is fixed to keep the run small; `Gateway_pool` and `FramePool` route
freely.  `EventuallyReleased` is stated of behaviours in which the reclaim ring does
not fill up again and again, because under those frames may starve in the queue and in
the rings (`NoRingStarves`, below); that frozen reclaims are written holds of all.

Session numbers modulo 2 and two sessions are the fewest where a number is used again,
a table is full and two senders compete.  A piece of 5 bytes covers a message and the
length field of the next, and pieces from 1 byte up cut everywhere.  The
clock of `Monitor` wraps within two periods of every threshold; a constraint
(`RingsApart`) keeps the rings, which a recovery leaves alone, from being busy beside the
others, and Linux, once heard, from more than one endpoint in the table.  Recoveries for
other reasons meet a full table.  Endpoints are symmetric (no liveness).  The frames of
`Router` differ from a good one in the one thing each check looks at; clock and
counters modulo 2 are enough because ages are at most 1 and the accounting is a sum.
With three descriptors and three services every number is used again.

### Disagreements found

| run | what happens |
|---|---|
| `ShmRing_two` | UDP and TCP services of Ethernet enqueue into one ring without a lock: one descriptor is overwritten |
| `Gateway_oldreclaim` | a reclaim of the old boot frees a block of the new one |

The quotations are in PROJECT.json.  TLC also refutes seven properties that the documents
state and no run keeps.  To see the behaviour, check the property under the
specification given.

| property | specification | what happens |
|---|---|---|
| `Gateway!EventuallyReleased` | `LiveSpec`, constants of `Gateway_live` with `FrameCount = 1` and `Epochs = {1, 2}` | after a restart a descriptor whose frame the firmware still references is dropped without a reclaim, and the block is lost (rtos_tasks.c:362 against freeRTOS核设计.md:1113) |
| `Gateway!EventuallyNormal` | `LiveSpec`, constants of `Gateway_back` with `Ticks = {0}` | an attach fails during a restart within one second: DEGRADED for ever (rtos_tasks.c:1112 against freeRTOS核设计.md:1592) |
| `ShmRing!DoorbellOnFirst` | `Spec` | an enqueue into a ring that has just become empty sends no doorbell; the periodic drain finds the descriptor (freeRTOS核设计.md:482) |
| `Gateway!NoRingStarves` | `LiveSpec`, constants of `Gateway_live` | every scan begins with interface 0 and ends when a reclaim is frozen, so a busy ring starves another while the reclaim ring is full; queued items starve in the same way (freeRTOS核设计.md:676) |
| `Gateway!NoOldForwarded` | `Spec`, constants of `Gateway_oldreclaim` | a queued item of the old boot is sent in the new one when Linux restarts after the preflight (freeRTOS核设计.md:1091) |
| `Router!OldestFirst` | `Spec` with `Wraps = TRUE` | after the millisecond clock wraps the newest item is the "oldest" (rtos_priority_queue.c:48) |
| `Monitor!PendingTruth` | `Spec` with `Pending <- TwoPending` | while one bitmap is stuck the timers of the others stand still, and one that was empty meanwhile is reported as stuck (rtos_tasks.c:985) |

## 4. Fairness

* A call that has begun ends: weak fairness of `FinishEnqueue`, `ConsumerStep`,
  `FinishSubmit`, `Egress` and of the firmware's steps.  Adapter threads, egress
  threads and the loop of `rtos_entry.c` run for ever and block on nothing of the other
  core.
* The periodic drains keep coming: `PeriodicWake` while the pending bit is set (the
  manager's timed wait wakes the workers of such rings; the other drains look at every
  ring, which is more than is assumed) and `Start` with `periodic'` (strong, for the runtime is at
  `idle` again and again).
* Budgets bound the loops over a ring and over the queue: strong fairness of
  `RxNextRing` and `QueueLeave`.  A budget of at least one item is counted
  down in each iteration, so a loop whose input never dries up still ends.
* Strong fairness of taking the item of each frame from the queue, from
  `BoundedWait` and `OldestFirst` of `PriorityQueue` (run `Router`).
* A format that has begun is finished.  Nothing makes adapters send, Linux die or a
  doorbell arrive.
* `LinuxApp`: every thread runs (weak fairness of each), for sockets and devices have
  receive timeouts and `pthread_cond_timedwait` ends by itself.  No fairness is asked of a
  device that may open or a client that may end, nor of a signal.
* `CanLink`: the receiving thread reads again and again, also across times in which the
  socket is closed (strong fairness of `Read`, weak of `Reopen`), and time goes on.
* `StreamServer`: the threads run; whether clients end is the hypothesis of
  `EveryoneIsServed`, for an idle client does keep the next waiting.

## 5. Proofs

Every theorem holds for all values of the constants that satisfy the assumptions at
the end of this section.  An inductive invariant stands in the module it speaks of, was
checked by TLC on the instance of the run first, and is proved in the proof module.

**The ring** (`ShmRingProofs`).  With one producer, `RingInv` is inductive.
`NeverOverfull` and `PendingCoversWork` are not by themselves: the first needs that the
producer's copy of `write_seq` is current and that the ring still has room when it
publishes (`WriterIsCurrent`: the consumer only makes more room), the second that a
consumer which is about to advance has something to take (`ReaderHasWork`).  The
arithmetic of `Used` and `Inc` modulo `SeqMod` is in lemmas.  On top of it `ContentsInv`
says what is in the slots: those between the two sequence numbers hold what was accepted
and not yet taken, once each, the slot about to be published holds the producer's item, and the
consumer's copy is the oldest.  `SeqMod % Depth = 0` is what gives them different slots across the wrap.  It gives
`RingNoDescriptorLost` and the steps of the refinement: `Publish` appends
to the abstract queue, `Advance` takes its head, every other step stutters
(`RingRefinesFifo`).  `ShmRing_two` shows that a single producer is needed.

**The pool** (`FramePoolProofs`).  `LinuxInv` is inductive over all steps of the Linux
side; `GatewayProofs` takes it from here through an instance.  Counting needs that metadata of allocated frames names an
interface (`SourcesKnown`), and releases need that the frames in the hands of the threads
are theirs alone (`FilledByOwner`, `SentByOne`).  Nothing in the proof depends on what is
in the rings, so it holds whatever the firmware writes, and gives
`CountersExact`, `WithinQuota` and `NeverRefused`, the last across restarts.
With the RTOS of `FramePool` more is true (`RefInv`): a frame on its way has the state
`rx_queued` in RX ring, RTOS, TX ring and reclaim ring alike, so its state does not
say where it is, and `OnePlace` has to: no ring has a frame twice and no two places
share one.  `NothingChanged` and `NothingTurnedDown` say that the metadata is still what the
descriptor says, `NoneLost` that each allocated frame is somewhere.

**The firmware** (`GatewayProofs`).  `RtosInv` is preserved by every
step of the firmware, whatever descriptors the region holds (`RtosInvStep`).
`QueueOfOneBoot` says that the router's queue never mixes the items of two boots: the
router takes a new epoch only with an empty queue, and drops items of another epoch on
submission.  The types rest on `HasItem`: the firmware has a
descriptor in its hand wherever it handles one.  `RefsInv` relates the tables:
what is in the hand, queued or frozen has a reference, in one of the three
(`RefsApart`), and the reference says what the item says, but for the target that the
route decides (`RefsTrue`).  `TasksInv` adds `Backpressure` and holds across restarts: a format
leaves the firmware alone, so Linux may die between any two steps, any number of times.

**The firmware does its duty** (`GatewayImplementsPool`).  The contract's `held` is what the firmware has a
reference of.  Each step of the firmware is `RtosTake`, `RtosForward`,
`RtosReclaim` or a stutter.  The mapping holds as long as Linux does not restart: the
hypothesis `[][~FormatBegin]_vars` is in the theorem, because a format empties the rings
under the firmware and the contract knows nothing of it; `Gateway_oldreclaim` shows
what then becomes of frames of the boot before.  Within a boot no
reference is left behind (`GatewayNoOrphan`), and the promises of `FramePool` carry over
(`GatewaySoleOwner`).

**The router** (`RouterProofs`).  `RoutedIsAllowed` speaks of the frames that *would* be
routed, so it depends on the memory of the rating and on what has been queued, `newest`.
It needs `RatingAhead`: what the rating remembers of an interface is never behind what was
queued of it.  A frame that is rated and then lost, refused or evicted only moves the
memory further ahead (`FrameKeepsRating`), and one that is queued has just been
remembered (`QueuedAhead`).  `TrustedIsRated` shows that the firmware's reading of the
flags is the policy's, whatever the policy.  `RouterAccounts` follows the length of the queue
and the three counters through every exit of a frame, modulo `CountMod`.
`RouterOldestFirst` assumes `~Wraps`, a clock that does not wrap: then the array is sorted by
arrival (`StampedInOrder`), and section 3 says what happens otherwise.  `RouterBoundedWait`
needs the round: the priorities behind the pointer of the scheduler
have used nothing of their quota (`RoundInv`), so the turns that others can have had since
a priority last had its own are pairs of a priority and a number within its quota
(`TurnsSince`), and every dequeue that passes a waiting priority adds a pair that was
not there (`WaitInv`).

**CAN** (`CanLinkProofs`).  `CanInv` relates three things: the frames a sender has yet to
write, the session they belong to, and whether its message has arrived.  What a sender has left is
the end of one message, cut in order (`CutInOrder`); a session in use is of one
message and incomplete (`Unfinished`); after the arrival neither a session of the key nor
a start frame is left that could bring the message again (`ArrivedIsOver`); and
while nothing has disturbed it, its session holds exactly the fragments
before the next frame, or that one too when the frame was read and is repeated
(`IntactIsWhole`, `UnderWay`).  Old sessions of the same key do not matter, since the start frame
takes them over.  The three properties of the run follow for any number of
senders, sessions and session numbers.  `Only`, what is left of a table when some
places are cleared, is a recursive function: that it does what its equation says is an
argument by the least place where it would not (`OnlyUnfolds`).

**The streams** (`StreamServerProofs`).  `StreamInv` says where a service is in
the stream of the connection it serves: its buffer, what it has read ahead and what is still to
be read are together the rest of that stream from a boundary between two messages on.
The buffer never holds more than one message (`InMessage`), what is left between two
connections cannot pass for one (`Between`), and a connection not yet accepted is
whole (`Untouched`) and waits once (`Queues`).  That messages lie end to end, so that the length field at a boundary is
the next message's, speaks of `FlattenSeq`, a recursive function; it is again an argument by
the least place where it would fail (`Layout`).  `StreamNothingMixed` follows, and
`StreamImplementsPipe` because TCP's last message handed on is the one before the boundary
(`LastHanded`); RFCOMM may have left some out.

**linux_app** (`LinuxAppProofs`).  `AppInv` says for each place of `main` which threads there
can be (`MainInv`), that what has been started is still to be stopped
(`TodoInv`), and who holds an open descriptor: a thread in its local
variable, both sides in the shared state, or `main` between taking and closing it, and
exactly one of the three (`HeldInv`).  A number the kernel gives out again is free, so
nobody holds it.  The three safety properties follow, for every number of
services and workers and every place where the start may fail.

**The monitor** (`MonitorProofs`).  `MonitorInv` compares each time stamp with how long the thing has
really lasted: the age computed modulo `ClockMod` is the real age as long as that is below a round of
the clock (`LinuxInv`, `TimerInv`), and a row of the endpoint table is turned to
offline, which it then stays, before its age can come round (`CountedFrom`: the
scan is at most `MaxLate` late).  The theorems need no constraint.
A timer that reads 0 was started while the clock read 0,
which is why a backlog may be reported a run late.

Assumptions, all of them on constants and evaluated by TLC in the runs of the modules that state them:
`RingAssumption`, `RegionAssumption`, `LinuxAssumption`, `RtosAssumption`,
`GatewayAssumption`, `QueueAssumption`, `RouterAssumption`, `CanLinkAssumption`, `StreamAssumption`, `EgressAssumption`, `LinuxAppAssumption` (no service
is started twice, each that is started is in the order of the stops, a device has its
status module for itself), `MonitorAssumption` (thresholds and lateness together are below
a round of the clock).

Every safety property of the passing runs is proved.  Only model-checked: liveness and the
fairness part of `ImplementsFifo`, which the prover does not reach.

## 6. Abstractions and what is not modelled

* Platform calls (cache maintenance, mailbox ioctl) succeed, except that a doorbell
  may be lost.  Their error paths, among them a failure reported after a publication,
  are in the list of hazards.
* A call of the Linux library is atomic in `LinuxIpc`.  The window of a commit
  between the publication and the update of the metadata, unlocked threads in the
  pool, and a start that attaches to an existing region are not modelled.
* The header of the region is formatted in one step, as are the rings; `RecDone`
  attaches and reads the epoch in one step.
* Time: in `RtosTasks` expiry, ages and the periodic tick are choices; `Router` and
  `Monitor` have the clocks.
* Frame contents: `Router` names what the checks look at; in `RtosTasks` a frame may be
  dropped for any reason at `SubmitDrops`, and a route is any target.  A CRC is right
  for the content it was computed from only.
* `Router` rates and submits a frame in one step, since the rings between keep the
  order within an interface, and within one boot.  `main.c` sets no policy, which is
  the policy with `enabled = FALSE` here; the others are those the interface offers.
  The time window of the replay check is off, because the adapters pass no time.
* Reading and writing on descriptors does not change `LinuxApp`; a sender's write on a
  copied descriptor is a hazard without a property.
* `rtos_tasks_observe_linux_heartbeat` has callers in tests only; `Heartbeats` says
  whether the run has any, and `Monitor` has it always.
* The pending reclaim list has a slot for each frame (both are 64), so it cannot
  overflow.
* Not modelled: the web backend and frontend (they read status files), the parsing of
  the configuration (constant after start; `LinuxApp` has its outcomes), counters and
  JSON of the status collector, the platform layers and board support (register access and
  system calls without a state), and wire formats.

## 7. Plan

1. Core (done): rings, pool, tasks, restart, queue; first proofs.
2. Extend (done): lifecycle and egress threads, streams, CAN, monitor, rating, router,
   route table and statistics.
3. Prove (done): the safety properties of every module and the steps of
   the three refinements.
4. Left: liveness is with TLC; beyond it, what section 6 leaves out.
