------------------------------ MODULE Monitor ------------------------------
(***************************************************************************)
(* What the firmware watches by its clock: the heartbeats of the endpoints   *)
(* (rtos_endpoint_heartbeat.c), the heartbeat of Linux (rtos_monitor.c), and *)
(* conditions of the rings that last too long (the error monitor task).  The *)
(* clock wraps, and nothing is noticed but by the periodic run of the tasks,  *)
(* which may be late.  Variables in the second group are not in the code:     *)
(* they say how long something has really lasted.                           *)
(***************************************************************************)
EXTENDS Naturals, FiniteSets, Sequences, FiniteSetsExt

CONSTANTS
    ClockMod, MaxLate,            \* when the clock wraps, how late a run may be
    Endpoints, Rows, NoEndpoint,  \* sources of heartbeats, rows of their table
    WarnAge, OfflineAge,          \* thresholds of an endpoint
    LinuxWarning, LinuxSuspect, LinuxDegraded,
    Rings,                        \* rings whose backlog is watched
    Pending,                      \* the pending bitmaps, in the order of the code
    StuckAge, Never

Bitmaps == {Pending[k] : k \in DOMAIN Pending}
Watched == Rings \cup Bitmaps
Clock == 0 .. ClockMod - 1

ASSUME MonitorAssumption ==
    /\ ClockMod \in Nat /\ MaxLate \in Nat /\ Rows \in Nat /\ StuckAge \in Nat
    /\ WarnAge \in Nat /\ OfflineAge \in Nat /\ WarnAge < OfflineAge
    /\ LinuxWarning \in Nat \ {0} /\ LinuxSuspect \in Nat /\ LinuxDegraded \in Nat
    /\ LinuxWarning < LinuxSuspect /\ LinuxSuspect < LinuxDegraded
    /\ OfflineAge + MaxLate < ClockMod /\ LinuxDegraded + MaxLate < ClockMod
    /\ StuckAge + 2 * MaxLate + 2 < ClockMod
    /\ Pending \in Seq(Bitmaps) /\ Rings \cap Bitmaps = {}
    /\ NoEndpoint \notin Endpoints /\ Never \notin Nat

VARIABLES
    now_ms,
    entries,           \* rows of the table: source_cid, last_rtos_time_ms, state
    linux_heartbeat,   \* last_update_time_ms and state; "none" until the first
    since_ms,          \* when a condition was seen first, 0 if it is not there
    error_bits,
    recovery_pending, recovery_active,
    active             \* the conditions that hold

VARIABLES
    task,              \* "monitor" between the heartbeat and the error monitor task
    late, silence, linux_silence, lasted, returned,
    looked             \* the last error monitor task came to the rings

clockVars == <<now_ms, late>>
endpointVars == <<entries, silence>>
recoveryVars == <<recovery_pending, recovery_active, returned>>
linuxVars == <<linux_heartbeat, linux_silence, recoveryVars>>
ringVars == <<since_ms, lasted, looked>>
vars == <<clockVars, task, endpointVars, linuxVars, ringVars, active, error_bits>>

Free == [source_cid |-> NoEndpoint, last |-> 0, state |-> "empty"]

Init ==
    /\ now_ms \in Clock
    /\ entries = [r \in 1 .. Rows |-> Free]
    /\ linux_heartbeat = [last |-> 0, state |-> "none"]
    /\ since_ms = [w \in Watched |-> 0]
    /\ error_bits = {} /\ active = {} /\ looked = FALSE
    /\ recovery_pending = FALSE /\ recovery_active = FALSE
    /\ task = "idle" /\ late = 0 /\ returned = FALSE
    /\ silence = [e \in Endpoints |-> Never]
    /\ linux_silence = Never
    /\ lasted = [w \in Watched |-> Never]

Older(age, bound) == IF age = Never \/ age = bound THEN age ELSE age + 1

Tick ==
    /\ task = "idle" /\ late <= MaxLate
    /\ late' = late + 1
    /\ now_ms' = (now_ms + 1) % ClockMod
    /\ silence' = [e \in Endpoints |-> Older(silence[e], OfflineAge)]
    /\ linux_silence' = Older(linux_silence, ClockMod)
    /\ lasted' = [w \in Watched |-> Older(lasted[w], ClockMod)]
    /\ UNCHANGED <<task, entries, linux_heartbeat, recoveryVars, since_ms, looked, active,
                   error_bits>>

Age(time) == (now_ms + ClockMod - time) % ClockMod

-----------------------------------------------------------------------------
(* Endpoints. *)

\* Mutant: an endpoint gets a row without a look for the one it has.
RowOfNone(e) == {}

RowOf(e) == {r \in 1 .. Rows : entries[r].source_cid = e}
FreeRows == {r \in 1 .. Rows : entries[r].source_cid = NoEndpoint}

\* Rows of an endpoint, else a free one, else none.
RowFor(e) ==
    IF RowOf(e) /= {} THEN RowOf(e)
    ELSE IF FreeRows /= {} THEN {Min(FreeRows)} ELSE {}

\* A heartbeat frame from an endpoint; a full table leaves it out.
Consume(e) ==
    /\ task = "idle"
    /\ entries' = [r \in 1 .. Rows |->
                      IF r \in RowFor(e)
                      THEN [source_cid |-> e, last |-> now_ms, state |-> "online"]
                      ELSE entries[r]]
    /\ silence' = [silence EXCEPT ![e] = 0]
    /\ UNCHANGED <<clockVars, task, linuxVars, ringVars, active, error_bits>>

\* Mutant: the state is taken from the age, as for Linux.
ScannedByAge(x) ==
    IF x.state = "empty" THEN x
    ELSE [x EXCEPT !.state = IF Age(x.last) >= OfflineAge THEN "offline"
                             ELSE IF Age(x.last) >= WarnAge THEN "warn" ELSE "online"]

\* Only a heartbeat leads back to online.
Scanned(x) ==
    IF x.state = "empty" THEN x
    ELSE IF Age(x.last) >= OfflineAge THEN [x EXCEPT !.state = "offline"]
    ELSE IF Age(x.last) >= WarnAge /\ x.state = "online" THEN [x EXCEPT !.state = "warn"]
    ELSE x

ScanTimeouts == entries' = [r \in 1 .. Rows |-> Scanned(entries[r])]

-----------------------------------------------------------------------------
(* Linux. *)

HeartbeatState(age) ==
    IF age >= LinuxDegraded THEN "degraded"
    ELSE IF age >= LinuxSuspect THEN "suspected"
    ELSE IF age >= LinuxWarning THEN "warning" ELSE "normal"

\* Mutant: only a Linux that was given up brings a recovery.
RecoveredFromDegraded == linux_heartbeat.state = "degraded"

Recovered == linux_heartbeat.state \notin {"none", "normal"}

\* How long Linux had been silent at the last run.
SilentAtRun == linux_silence \in LinuxWarning + late .. ClockMod - 1

\* The sequence number of Linux has moved; if it has not, nothing happens.
ObserveLinuxHeartbeat ==
    /\ task = "idle"
    /\ linux_heartbeat' = [last |-> now_ms, state |-> "normal"]
    /\ error_bits' = error_bits \ {"linux"}
    /\ recovery_pending' = (recovery_pending \/ Recovered)
    /\ linux_silence' = 0
    /\ returned' = (returned \/ SilentAtRun)
    /\ UNCHANGED <<recovery_active, clockVars, task, endpointVars, ringVars, active>>

\* Mutant: the time of the last heartbeat moves on with every poll.
PollRestarts ==
    linux_heartbeat' =
        IF linux_heartbeat.state = "none" THEN linux_heartbeat
        ELSE [last |-> now_ms, state |-> HeartbeatState(Age(linux_heartbeat.last))]

PollLinuxHeartbeat ==
    linux_heartbeat' =
        IF linux_heartbeat.state = "none" THEN linux_heartbeat
        ELSE [linux_heartbeat EXCEPT !.state = HeartbeatState(Age(linux_heartbeat.last))]

\* rtos_heartbeat_task_run_once; what the state machine makes of it is in
\* RtosTasks.  The bit of the endpoints is set by a change and never cleared.
HeartbeatTask ==
    /\ task = "idle" /\ late > 0
    /\ task' = "monitor"
    /\ PollLinuxHeartbeat
    /\ ScanTimeouts
    /\ LET linux == IF linux_heartbeat'.state \in {"none", "normal"} THEN {} ELSE {"linux"}
           endpoint == IF entries' /= entries THEN {"endpoint"} ELSE {}
       IN  error_bits' = (error_bits \ {"linux"}) \cup linux \cup endpoint
    /\ UNCHANGED <<clockVars, silence, linux_silence, recoveryVars, ringVars, active>>

-----------------------------------------------------------------------------
(* Conditions of the rings. *)

\* Mutant: a condition that goes does not stop its timer.
SinceKept(w) == IF w \in active /\ since_ms[w] = 0 THEN now_ms ELSE since_ms[w]

\* The timer of update_stuck_monitor: 0 stands for "not running".
Since(w) ==
    IF w \notin active THEN 0
    ELSE IF since_ms[w] = 0 THEN now_ms ELSE since_ms[w]

Stuck(w) == w \in active /\ Age(Since(w)) >= StuckAge

\* The bitmaps that are looked at: || stops at the first that is stuck.
LookedAt == {Pending[k] : k \in {n \in DOMAIN Pending : \A j \in 1 .. n - 1 : ~Stuck(Pending[j])}}

\* A region that Linux is formatting is not looked at, and asks for a recovery.
\* The timers stand; one that reads 0 does not run, and what it counted is over.
RegionInvalid ==
    /\ error_bits' = error_bits \cup {"format"}
    /\ recovery_pending' = TRUE
    /\ looked' = FALSE
    /\ lasted' = [w \in Watched |-> IF since_ms[w] = 0 THEN Never ELSE lasted[w]]
    /\ UNCHANGED since_ms

\* In a valid region another epoch asks for a recovery, and the timers of all
\* rings go on.
RegionValid ==
    /\ recovery_pending' \in {recovery_pending, TRUE}
    /\ looked' = TRUE
    /\ since_ms' = [w \in Watched |-> IF w \in Rings \cup LookedAt THEN Since(w) ELSE since_ms[w]]
    /\ LET backlog == IF \E r \in Rings : Stuck(r) THEN {"backlog"} ELSE {}
           pending == IF \E b \in LookedAt : Stuck(b) THEN {"pending"} ELSE {}
       IN  error_bits' = (error_bits \ {"format", "backlog", "pending"}) \cup backlog \cup pending
    /\ lasted' = [w \in Watched |->
                     IF w \notin active THEN Never
                     ELSE IF lasted[w] = Never THEN 0 ELSE lasted[w]]

\* rtos_error_monitor_task_run_once.  A doorbell run comes to it too, if its
\* preflight finds another epoch or no valid header.
ErrorMonitorTask ==
    /\ task' = "idle"
    /\ late' = IF task = "monitor" THEN 0 ELSE late
    /\ RegionInvalid \/ RegionValid
    /\ UNCHANGED <<now_ms, endpointVars, linux_heartbeat, linux_silence, recovery_active,
                   returned, active>>

-----------------------------------------------------------------------------
(* Recovery, whose work on frames is in RtosTasks. *)

\* A recovery that cannot end in the run that begins it.
RecoveryStarted ==
    /\ task = "idle" /\ recovery_pending /\ ~recovery_active
    /\ recovery_pending' = FALSE /\ recovery_active' = TRUE
    /\ UNCHANGED <<clockVars, task, endpointVars, linux_heartbeat, linux_silence, returned,
                   ringVars, active, error_bits>>

\* Mutant: the rows stay.
RecoveryKeepsRows ==
    /\ task = "idle" /\ (recovery_pending \/ recovery_active)
    /\ recovery_pending' = FALSE /\ recovery_active' = FALSE /\ returned' = FALSE
    /\ silence' = [e \in Endpoints |-> Never]
    /\ error_bits' = error_bits \ {"format"}
    /\ UNCHANGED <<clockVars, task, entries, linux_heartbeat, linux_silence, ringVars, active>>

\* The end of a recovery: the table is emptied, the timers go on.  What was
\* asked for meanwhile is done too.
RecoveryDone ==
    /\ task = "idle" /\ (recovery_pending \/ recovery_active)
    /\ recovery_pending' = FALSE /\ recovery_active' = FALSE /\ returned' = FALSE
    /\ entries' = [r \in 1 .. Rows |-> Free]
    /\ silence' = [e \in Endpoints |-> Never]
    /\ error_bits' = error_bits \ {"format"}
    /\ UNCHANGED <<clockVars, task, linux_heartbeat, linux_silence, ringVars, active>>

Appear(w) ==
    /\ w \notin active
    /\ active' = active \cup {w}
    /\ UNCHANGED <<clockVars, task, endpointVars, linuxVars, ringVars, error_bits>>

Disappear(w) ==
    /\ w \in active
    /\ active' = active \ {w}
    /\ UNCHANGED <<clockVars, task, endpointVars, linuxVars, ringVars, error_bits>>

-----------------------------------------------------------------------------
Next ==
    \/ Tick
    \/ HeartbeatTask \/ ErrorMonitorTask
    \/ RecoveryStarted \/ RecoveryDone
    \/ \E e \in Endpoints : Consume(e)
    \/ ObserveLinuxHeartbeat
    \/ \E w \in Watched : Appear(w) \/ Disappear(w)

Spec == Init /\ [][Next]_vars

-----------------------------------------------------------------------------
TypeOK ==
    /\ now_ms \in Clock /\ late \in 0 .. MaxLate + 1 /\ task \in {"idle", "monitor"}
    /\ entries \in [1 .. Rows -> [source_cid : Endpoints \cup {NoEndpoint}, last : Clock,
                                   state : {"empty", "online", "warn", "offline"}]]
    /\ linux_heartbeat \in [last : Clock,
                             state : {"none", "normal", "warning", "suspected", "degraded"}]
    /\ since_ms \in [Watched -> Clock] /\ active \subseteq Watched
    /\ error_bits \subseteq {"linux", "endpoint", "backlog", "pending", "format"}
    /\ recovery_pending \in BOOLEAN /\ recovery_active \in BOOLEAN
    /\ returned \in BOOLEAN /\ looked \in BOOLEAN
    /\ silence \in [Endpoints -> 0 .. OfflineAge \cup {Never}]
    /\ linux_silence \in 0 .. ClockMod \cup {Never}
    /\ lasted \in [Watched -> 0 .. ClockMod \cup {Never}]

Scanning == task = "monitor"
JustRun == task = "idle" /\ late = 0 /\ looked

\* Once the endpoints are scanned the table says of each how long it has been
\* silent, for however many rounds of the clock that is.
EndpointTruth ==
    Scanning => \A r \in 1 .. Rows :
        LET x == entries[r] IN
        x.source_cid /= NoEndpoint =>
            /\ (x.state = "offline") = (silence[x.source_cid] >= OfflineAge)
            /\ (x.state = "online") = (silence[x.source_cid] < WarnAge)

\* An endpoint that was heard has one row, or others have all of them; a row
\* belongs to an endpoint that was heard since the last recovery.
TableTruth ==
    /\ TypeOK
    /\ \A e \in Endpoints : silence[e] /= Never =>
          Cardinality(RowOf(e)) = 1 \/ (RowOf(e) = {} /\ FreeRows = {})
    /\ \A r \in 1 .. Rows : entries[r].source_cid /= NoEndpoint =>
          silence[entries[r].source_cid] /= Never

\* The state of Linux is that of its real silence, while this is shorter than a
\* round of the clock, and one that was silent for long and is back brings a
\* recovery.
LinuxTruth ==
    /\ (Scanning /\ linux_silence \in 0 .. ClockMod - 1) =>
          /\ linux_heartbeat.state = HeartbeatState(linux_silence)
          /\ ("linux" \in error_bits) = (linux_silence >= LinuxWarning)
    /\ returned => recovery_pending \/ recovery_active

LastsFor(W, least, most) == \E w \in W : lasted[w] \in least .. most

\* A backlog is reported if and only if a ring was found not empty for so long;
\* a timer that starts when the clock reads 0 may come one run late.
BacklogTruth ==
    JustRun =>
        /\ LastsFor(Rings, StuckAge + MaxLate + 1, ClockMod - 1) => "backlog" \in error_bits
        /\ "backlog" \in error_bits => LastsFor(Rings, StuckAge, ClockMod)

\* The same of the pending bits; it does not hold of two bitmaps.
PendingTruth ==
    JustRun /\ "pending" \in error_bits => LastsFor(Bitmaps, StuckAge, ClockMod)
-----------------------------------------------------------------------------
(* The inductive invariant: what the stamps say of the time that has passed.  *)

\* A row that is not offline counts its endpoint's silence from the last
\* heartbeat, and was looked at before the clock could come round.
CountedFrom(x) ==
    LET quiet == silence[x.source_cid] age == Age(x.last) IN
    /\ quiet \in 0 .. OfflineAge
    /\ x.state = "offline" => quiet = OfflineAge
    /\ x.state /= "offline" =>
          /\ quiet = (IF age < OfflineAge THEN age ELSE OfflineAge)
          /\ age < OfflineAge + (IF Scanning THEN 0 ELSE late)
    /\ x.state = "warn" => quiet >= WarnAge
    /\ Scanning /\ x.state = "online" => age < WarnAge

RowsInv == \A r \in 1 .. Rows :
    LET x == entries[r] IN
    /\ (x.state = "empty") = (x.source_cid = NoEndpoint)
    /\ x.source_cid /= NoEndpoint => CountedFrom(x)

LinuxInv ==
    /\ (linux_silence = Never) = (linux_heartbeat.state = "none")
    /\ linux_silence \in 0 .. ClockMod - 1 => linux_silence = Age(linux_heartbeat.last)
    /\ ~Scanning /\ SilentAtRun => Recovered
    /\ LinuxTruth

\* The timer of a ring that was found not empty for the time in lasted[w].  One
\* that shows 0 was started when the clock read 0 and starts again.
TimerInv(w) ==
    /\ lasted[w] = Never => since_ms[w] = 0
    /\ lasted[w] /= Never /\ since_ms[w] = 0 => now_ms = lasted[w] /\ now_ms <= late
    /\ lasted[w] \in 0 .. ClockMod - 1 /\ since_ms[w] /= 0 =>
          lasted[w] \in Age(since_ms[w]) .. Age(since_ms[w]) + MaxLate + 1

RunOut(w) == lasted[w] /= Never /\ Age(since_ms[w]) >= StuckAge

RingsInv ==
    /\ \A w \in Rings : TimerInv(w)
    /\ JustRun => ("backlog" \in error_bits <=> \E w \in Rings : RunOut(w))

MonitorInv == TableTruth /\ RowsInv /\ LinuxInv /\ RingsInv
=============================================================================
