--------------------------- MODULE MonitorProofs ---------------------------
(***************************************************************************)
(* What the firmware says of the endpoints, of Linux and of a backlog is true *)
(* for any thresholds, any lateness and any size of the clock and the table:  *)
(* the stamps count the time that has really passed.                        *)
(***************************************************************************)
EXTENDS Monitor, FiniteSetTheorems, WellFoundedInduction, TLAPS

-----------------------------------------------------------------------------
(* The clock.                                                                *)

LEMMA Wraps ==
    ASSUME NEW M \in Nat \ {0}, NEW x \in Nat
    PROVE  /\ x % M \in 0 .. M - 1
           /\ x < M => x % M = x
           /\ M <= x /\ x < 2 * M => x % M = x - M
<1> DEFINE q == x \div M
           r == x % M
<1>1. q \in Nat
  OBVIOUS
<1>2. r \in 0 .. M - 1
  OBVIOUS
<1>3. x = M * q + r
  OBVIOUS
<1> HIDE DEF q, r
<1>4. q = 0 => M * q = 0
  OBVIOUS
<1>5. q = 1 => M * q = M
  OBVIOUS
<1>6. q > 1 => M * q >= 2 * M
  BY <1>1
<1>7. q = 0 \/ q = 1 \/ q > 1
  BY <1>1
<1>8. M * q \in Nat
  BY <1>1
<1>9. x < M => r = x
  BY <1>2, <1>3, <1>4, <1>5, <1>6, <1>7, <1>8
<1>10. M <= x /\ x < 2 * M => r = x - M
  BY <1>2, <1>3, <1>4, <1>5, <1>6, <1>7, <1>8
<1> QED BY <1>2, <1>9, <1>10 DEF r

LEMMA Bounds ==
    /\ ClockMod \in Nat \ {0}
    /\ 0 \in Clock
    /\ \A t \in Clock : t \in Nat /\ t < ClockMod
<1> QED BY MonitorAssumption DEF Clock

\* Between two readings of the clock.
LEMMA Between ==
    ASSUME NEW n \in Clock, NEW t \in Clock
    PROVE  /\ (n + ClockMod - t) % ClockMod \in Clock
           /\ t <= n => (n + ClockMod - t) % ClockMod = n - t
           /\ n < t => (n + ClockMod - t) % ClockMod = n + ClockMod - t
<1> DEFINE x == n + ClockMod - t
<1>1. x \in Nat /\ ClockMod \in Nat \ {0} /\ n \in Nat /\ t \in Nat /\ t < ClockMod /\ n < ClockMod
  BY Bounds
<1>2. t <= n => ClockMod <= x /\ x < 2 * ClockMod /\ x - ClockMod = n - t
  BY <1>1
<1>3. n < t => x < ClockMod
  BY <1>1
<1> HIDE DEF x
<1>4. x % ClockMod \in Clock
  BY <1>1, Wraps DEF Clock
<1>5. t <= n => x % ClockMod = n - t
  BY <1>1, <1>2, Wraps
<1>6. n < t => x % ClockMod = x
  BY <1>1, <1>3, Wraps
<1> QED BY <1>4, <1>5, <1>6 DEF x

LEMMA AgeFacts ==
    ASSUME now_ms \in Clock
    PROVE  /\ Age(now_ms) = 0
           /\ Age(0) = now_ms
           /\ \A t \in Clock : Age(t) \in Clock
<1>1. now_ms \in Nat /\ now_ms <= now_ms
  BY Bounds
<1> DEFINE n == now_ms
<1>2. Age(n) = n - n
  <2>1. n \in Clock /\ n <= n
    BY <1>1
  <2> QED BY <2>1, Between DEF Age
<1>3. Age(0) = n - 0
  <2>1. PICK z \in Clock : z = 0
    BY Bounds
  <2>2. z <= n
    BY <1>1, <2>1
  <2>3. Age(z) = n - z
    BY <2>2, Between DEF Age
  <2> QED BY <2>1, <2>3
<1>4. \A t \in Clock : Age(t) \in Clock
  BY Between DEF Age
<1> QED BY <1>1, <1>2, <1>3, <1>4

\* A tick makes everything one older, until it is a round of the clock.
LEMMA AgeOfTick ==
    ASSUME now_ms \in Clock, now_ms' = (now_ms + 1) % ClockMod, NEW t \in Clock
    PROVE  /\ now_ms' \in Clock
           /\ now_ms + 1 < ClockMod => now_ms' = now_ms + 1
           /\ Age(t) + 1 < ClockMod => Age(t)' = Age(t) + 1
<1>1. /\ now_ms \in Nat /\ t \in Nat /\ now_ms < ClockMod /\ t < ClockMod
      /\ ClockMod \in Nat \ {0}
  BY Bounds
<1>2. /\ now_ms + 1 < ClockMod => now_ms' = now_ms + 1
      /\ now_ms + 1 = ClockMod => now_ms' = 0
  <2> DEFINE n == now_ms + 1
  <2>1. n \in Nat /\ (n = ClockMod => ClockMod <= n /\ n < 2 * ClockMod /\ n - ClockMod = 0)
    BY <1>1
  <2> HIDE DEF n
  <2>2. (n < ClockMod => n % ClockMod = n) /\ (n = ClockMod => n % ClockMod = 0)
    BY <1>1, <2>1, Wraps
  <2>3. now_ms' = n % ClockMod
    BY DEF n
  <2> QED BY <2>2, <2>3 DEF n
<1>3. now_ms' \in Clock
  BY <1>1, <1>2 DEF Clock
<1>4. Age(t)' = (now_ms' + ClockMod - t) % ClockMod
  BY DEF Age
<1>5. /\ t <= now_ms => Age(t) = now_ms - t
      /\ now_ms < t => Age(t) = now_ms + ClockMod - t
  BY Between DEF Age
<1>6. /\ t <= now_ms' => Age(t)' = now_ms' - t
      /\ now_ms' < t => Age(t)' = now_ms' + ClockMod - t
  BY <1>3, <1>4, Between
<1>7. Age(t) + 1 < ClockMod => Age(t)' = Age(t) + 1
  BY <1>1, <1>2, <1>5, <1>6
<1> QED BY <1>2, <1>3, <1>7

\* The clock stands still.
LEMMA SameAges ==
    ASSUME now_ms' = now_ms
    PROVE  \A t : Age(t)' = Age(t)
<1> QED BY DEF Age

LEMMA OlderFacts ==
    ASSUME NEW bound \in Nat, NEW age \in 0 .. bound \cup {Never}
    PROVE  /\ Older(age, bound) \in 0 .. bound \cup {Never}
           /\ Older(age, bound) = Never <=> age = Never
           /\ age /= Never /\ age /= bound => Older(age, bound) = age + 1
           /\ age = bound => Older(age, bound) = bound
<1>1. Never \notin Nat
  BY MonitorAssumption
<1>2. CASE age = Never \/ age = bound
  BY <1>1, <1>2 DEF Older
<1>3. CASE age /= Never /\ age /= bound
  <2>1. age \in Nat /\ age + 1 \in 0 .. bound
    BY <1>3
  <2> QED BY <1>1, <1>3, <2>1 DEF Older
<1> QED BY <1>2, <1>3
-----------------------------------------------------------------------------
(* Types.                                                                    *)

\* A row is what a heartbeat, a scan or a recovery leaves in it.
LEMMA RowTypes ==
    ASSUME TypeOK
    PROVE  /\ \A r \in 1 .. Rows :
                /\ entries[r].source_cid \in Endpoints \cup {NoEndpoint}
                /\ entries[r].last \in Clock
                /\ entries[r].state \in {"empty", "online", "warn", "offline"}
                /\ entries[r] = [source_cid |-> entries[r].source_cid, last |-> entries[r].last,
                                  state |-> entries[r].state]
           /\ \A e \in Endpoints : silence[e] \in 0 .. OfflineAge \cup {Never}
           /\ \A w \in Watched : since_ms[w] \in Clock /\ lasted[w] \in 0 .. ClockMod \cup {Never}
<1> QED BY DEF TypeOK

LEMMA ScannedFacts ==
    ASSUME NEW x \in [source_cid : Endpoints \cup {NoEndpoint}, last : Clock,
                       state : {"empty", "online", "warn", "offline"}]
    PROVE  /\ Scanned(x) \in [source_cid : Endpoints \cup {NoEndpoint}, last : Clock,
                               state : {"empty", "online", "warn", "offline"}]
           /\ Scanned(x).source_cid = x.source_cid /\ Scanned(x).last = x.last
           /\ Scanned(x).state =
                 IF x.state = "empty" THEN "empty"
                 ELSE IF Age(x.last) >= OfflineAge THEN "offline"
                 ELSE IF Age(x.last) >= WarnAge /\ x.state = "online" THEN "warn"
                 ELSE x.state
<1>1. CASE x.state = "empty"
  BY <1>1 DEF Scanned
<1>2. CASE x.state /= "empty" /\ Age(x.last) >= OfflineAge
  BY <1>2 DEF Scanned
<1>3. CASE x.state /= "empty" /\ ~(Age(x.last) >= OfflineAge)
  BY <1>3 DEF Scanned
<1> QED BY <1>1, <1>2, <1>3

LEMMA PolledFacts ==
    ASSUME TypeOK, PollLinuxHeartbeat
    PROVE  /\ linux_heartbeat' \in [last : Clock,
                             state : {"none", "normal", "warning", "suspected", "degraded"}]
           /\ linux_heartbeat'.last = linux_heartbeat.last
           /\ linux_heartbeat.state = "none" => linux_heartbeat'.state = "none"
           /\ linux_heartbeat.state /= "none" =>
                 linux_heartbeat'.state = HeartbeatState(Age(linux_heartbeat.last))
           /\ (linux_heartbeat'.state = "none") = (linux_heartbeat.state = "none")
<1>1. HeartbeatState(Age(linux_heartbeat.last)) \in {"normal", "warning", "suspected", "degraded"}
  BY DEF HeartbeatState
<1>2. linux_heartbeat \in [last : Clock,
                             state : {"none", "normal", "warning", "suspected", "degraded"}]
  BY DEF TypeOK
<1>3. CASE linux_heartbeat.state = "none"
  BY <1>2, <1>3 DEF PollLinuxHeartbeat
<1>4. CASE linux_heartbeat.state /= "none"
  BY <1>1, <1>2, <1>4 DEF PollLinuxHeartbeat
<1> QED BY <1>3, <1>4

LEMMA TypeStep ==
    ASSUME TypeOK, [Next]_vars
    PROVE  TypeOK'
<1>1. CASE Tick
  <2>1. late' \in 0 .. MaxLate + 1
    BY <1>1, MonitorAssumption DEF Tick, TypeOK
  <2>2. now_ms' \in Clock
    BY <1>1, AgeOfTick, Bounds DEF Tick, TypeOK
  <2>3. silence' \in [Endpoints -> 0 .. OfflineAge \cup {Never}]
    BY <1>1, OlderFacts, RowTypes, MonitorAssumption DEF Tick
  <2>4. linux_silence' \in 0 .. ClockMod \cup {Never}
    BY <1>1, OlderFacts, MonitorAssumption DEF Tick, TypeOK
  <2>5. lasted' \in [Watched -> 0 .. ClockMod \cup {Never}]
    BY <1>1, OlderFacts, RowTypes, MonitorAssumption DEF Tick
  <2> QED BY <1>1, <2>1, <2>2, <2>3, <2>4, <2>5 DEF Tick, TypeOK, recoveryVars
<1>2. CASE HeartbeatTask
  <2>1. entries' \in [1 .. Rows -> [source_cid : Endpoints \cup {NoEndpoint}, last : Clock,
                                     state : {"empty", "online", "warn", "offline"}]]
    BY <1>2, ScannedFacts DEF HeartbeatTask, ScanTimeouts, TypeOK
  <2>2. linux_heartbeat' \in [last : Clock,
                             state : {"none", "normal", "warning", "suspected", "degraded"}]
    BY <1>2, PolledFacts DEF HeartbeatTask
  <2>3. error_bits' \subseteq {"linux", "endpoint", "backlog", "pending", "format"}
    BY <1>2 DEF HeartbeatTask, TypeOK
  <2>4. task' = "monitor"
    BY <1>2 DEF HeartbeatTask
  <2>5. UNCHANGED <<clockVars, silence, linux_silence, recoveryVars, ringVars, active>>
    BY <1>2 DEF HeartbeatTask
  <2> QED BY <2>1, <2>2, <2>3, <2>4, <2>5 DEF TypeOK, clockVars, recoveryVars, ringVars
<1>3. CASE ErrorMonitorTask
  <2>1. late' \in 0 .. MaxLate + 1
    BY <1>3, MonitorAssumption DEF ErrorMonitorTask, TypeOK
  <2>2. since_ms' \in [Watched -> Clock]
    <3>1. \A w \in Watched : Since(w) \in Clock /\ since_ms[w] \in Clock
      BY RowTypes, Bounds DEF Since, TypeOK
    <3>2. CASE RegionValid
      <4>1. since_ms' = [w \in Watched |-> IF w \in Rings \cup LookedAt THEN Since(w) ELSE since_ms[w]]
        BY <3>2 DEF RegionValid
      <4> QED BY <3>1, <4>1
    <3>3. CASE RegionInvalid
      BY <3>3 DEF RegionInvalid, TypeOK
    <3> QED BY <1>3, <3>2, <3>3 DEF ErrorMonitorTask
  <2>3. lasted' \in [Watched -> 0 .. ClockMod \cup {Never}]
    <3>1. CASE RegionValid
      BY <3>1, RowTypes, Bounds DEF RegionValid
    <3>2. CASE RegionInvalid
      BY <3>2, RowTypes DEF RegionInvalid
    <3> QED BY <1>3, <3>1, <3>2 DEF ErrorMonitorTask
  <2>4. error_bits' \subseteq {"linux", "endpoint", "backlog", "pending", "format"}
    BY <1>3 DEF ErrorMonitorTask, RegionValid, RegionInvalid, TypeOK
  <2>5. recovery_pending' \in BOOLEAN /\ looked' \in BOOLEAN
    BY <1>3 DEF ErrorMonitorTask, RegionValid, RegionInvalid, TypeOK
  <2>6. /\ task' = "idle"
        /\ UNCHANGED <<now_ms, endpointVars, linux_heartbeat, linux_silence, recovery_active,
                       returned, active>>
    BY <1>3 DEF ErrorMonitorTask
  <2> QED BY <2>1, <2>2, <2>3, <2>4, <2>5, <2>6 DEF TypeOK, endpointVars
<1>4. CASE RecoveryStarted
  BY <1>4 DEF RecoveryStarted, TypeOK, clockVars, endpointVars, ringVars
<1>5. CASE RecoveryDone
  <2>1. entries' \in [1 .. Rows -> [source_cid : Endpoints \cup {NoEndpoint}, last : Clock,
                                     state : {"empty", "online", "warn", "offline"}]]
    BY <1>5, Bounds DEF RecoveryDone, Free
  <2>2. silence' \in [Endpoints -> 0 .. OfflineAge \cup {Never}]
    BY <1>5 DEF RecoveryDone
  <2>3. error_bits' \subseteq {"linux", "endpoint", "backlog", "pending", "format"}
    BY <1>5 DEF RecoveryDone, TypeOK
  <2>4. /\ recovery_pending' = FALSE /\ recovery_active' = FALSE /\ returned' = FALSE
        /\ UNCHANGED <<clockVars, task, linux_heartbeat, linux_silence, ringVars, active>>
    BY <1>5 DEF RecoveryDone
  <2> QED BY <2>1, <2>2, <2>3, <2>4 DEF TypeOK, clockVars, ringVars
<1>6. ASSUME NEW e \in Endpoints, Consume(e) PROVE TypeOK'
  <2>1. [source_cid |-> e, last |-> now_ms, state |-> "online"]
            \in [source_cid : Endpoints \cup {NoEndpoint}, last : Clock,
                 state : {"empty", "online", "warn", "offline"}]
    BY DEF TypeOK
  <2>2. entries' \in [1 .. Rows -> [source_cid : Endpoints \cup {NoEndpoint}, last : Clock,
                                     state : {"empty", "online", "warn", "offline"}]]
    BY <1>6, <2>1 DEF Consume, TypeOK
  <2>3. silence' \in [Endpoints -> 0 .. OfflineAge \cup {Never}]
    BY <1>6, MonitorAssumption DEF Consume, TypeOK
  <2>4. UNCHANGED <<clockVars, task, linuxVars, ringVars, active, error_bits>>
    BY <1>6 DEF Consume
  <2> QED BY <2>2, <2>3, <2>4 DEF TypeOK, clockVars, linuxVars, recoveryVars, ringVars
<1>7. CASE ObserveLinuxHeartbeat
  BY <1>7, Bounds DEF ObserveLinuxHeartbeat, TypeOK, clockVars, endpointVars, ringVars
<1>8. ASSUME NEW w \in Watched, Appear(w) \/ Disappear(w) PROVE TypeOK'
  BY <1>8 DEF Appear, Disappear, TypeOK, clockVars, endpointVars, linuxVars, recoveryVars, ringVars
<1>9. CASE UNCHANGED vars
  BY <1>9 DEF TypeOK, vars, clockVars, endpointVars, linuxVars, recoveryVars, ringVars
<1> QED BY <1>1, <1>2, <1>3, <1>4, <1>5, <1>6, <1>7, <1>8, <1>9 DEF Next
-----------------------------------------------------------------------------
(* The table of the endpoints.                                               *)

\* Every set of naturals has a least element: of the sets of what is below one
\* of its elements, one has none of the others as a proper subset.
LEMMA LeastNatural ==
    ASSUME NEW S \in SUBSET Nat, S /= {}
    PROVE  \E n \in S : \A m \in S : n <= m
<1> DEFINE Below(n) == {m \in S : m < n}
           T == {Below(n) : n \in S}
<1>1. ASSUME NEW n \in S PROVE IsFiniteSet(Below(n)) /\ Below(n) \in SUBSET Nat
  <2>1. n \in Nat /\ \A s \in Nat : s < n => s <= n
    OBVIOUS
  <2>2. \A s \in Below(n) : s \in S /\ s < n
    OBVIOUS
  <2> HIDE DEF Below
  <2>3. Below(n) \in SUBSET Nat /\ \A s \in Below(n) : s <= n
    BY <2>1, <2>2
  <2> QED BY <2>1, <2>3, FS_BoundedSetOfNaturals
<1>2. T \subseteq FiniteSubsetsOf(Nat) /\ T /= {}
  BY <1>1 DEF FiniteSubsetsOf
<1>3. PICK B \in T : \A A \in T : ~(<<A, B>> \in StrictSubsetOrdering(Nat))
  <2> HIDE DEF T
  <2> QED BY <1>2, FS_StrictSubsetOrderingWellFounded, WFMin
<1>4. PICK n \in S : B = Below(n)
  OBVIOUS
<1>5. ASSUME NEW m \in S, m < n PROVE FALSE
  <2>1. Below(m) \in T /\ Below(m) \subseteq B /\ m \in B /\ m \notin Below(m)
    <3>1. m \in Nat /\ n \in Nat /\ m < n
      BY <1>5
    <3>2. \A k \in Nat : k < m => k < n
      BY <3>1
    <3>3. \A k : k \in Below(m) <=> k \in S /\ k < m
      OBVIOUS
    <3>4. \A k : k \in B <=> k \in S /\ k < n
      BY <1>4
    <3>5. Below(m) \in T
      OBVIOUS
    <3>6. ~(m < m)
      BY <3>1
    <3> HIDE DEF Below, T
    <3> QED BY <3>1, <3>2, <3>3, <3>4, <3>5, <3>6
  <2>2. Below(m) \in SUBSET Nat /\ B \in SUBSET Nat
    BY <1>4
  <2>3. <<Below(m), B>> \in StrictSubsetOrdering(Nat)
    BY <2>1, <2>2 DEF StrictSubsetOrdering
  <2> QED BY <1>3, <2>1, <2>3
<1> QED BY <1>5

\* An endpoint without a row gets one that is free.
LEMMA FirstFree ==
    ASSUME FreeRows /= {}
    PROVE  Min(FreeRows) \in FreeRows
<1>1. FreeRows \in SUBSET Nat
  BY DEF FreeRows
<1>2. \E n \in FreeRows : \A m \in FreeRows : n <= m
  BY <1>1, LeastNatural
<1> QED BY <1>2 DEF Min

\* The rows that a heartbeat writes to.
LEMMA RowForFacts ==
    ASSUME NEW e \in Endpoints
    PROVE  /\ RowFor(e) \subseteq 1 .. Rows
           /\ RowOf(e) /= {} => RowFor(e) = RowOf(e)
           /\ RowOf(e) = {} /\ FreeRows = {} => RowFor(e) = {}
           /\ RowOf(e) = {} /\ FreeRows /= {} =>
                 \E m \in FreeRows : RowFor(e) = {m}
<1>1. RowOf(e) \subseteq 1 .. Rows /\ FreeRows \subseteq 1 .. Rows
  BY DEF RowOf, FreeRows
<1> QED BY <1>1, FirstFree DEF RowFor

\* Nothing of the table but the stamps and the states has changed.
LEMMA TableKept ==
    ASSUME TableTruth, TypeOK',
           \A r \in 1 .. Rows : entries'[r].source_cid = entries[r].source_cid,
           \A e \in Endpoints : (silence'[e] = Never) = (silence[e] = Never)
    PROVE  TableTruth'
<1>1. \A e \in Endpoints : RowOf(e)' = RowOf(e)
  BY DEF RowOf
<1>2. FreeRows' = FreeRows
  BY DEF FreeRows
<1>3. \A e \in Endpoints : silence'[e] /= Never =>
          Cardinality(RowOf(e)') = 1 \/ (RowOf(e)' = {} /\ FreeRows' = {})
  BY <1>1, <1>2 DEF TableTruth
<1>4. \A r \in 1 .. Rows : entries'[r].source_cid /= NoEndpoint =>
          silence'[entries'[r].source_cid] /= Never
  BY RowTypes DEF TableTruth
<1> QED BY <1>3, <1>4 DEF TableTruth

LEMMA TableOfConsume ==
    ASSUME TableTruth, TypeOK', NEW e \in Endpoints, Consume(e)
    PROVE  TableTruth'
<1>1. \A r \in 1 .. Rows : entries'[r].source_cid =
          IF r \in RowFor(e) THEN e ELSE entries[r].source_cid
  BY DEF Consume
<1>2. silence'[e] = 0 /\ \A f \in Endpoints \ {e} : silence'[f] = silence[f]
  BY DEF Consume, TableTruth, TypeOK
<1>3. silence'[e] /= Never
  BY <1>2, MonitorAssumption
<1>4. \A r \in 1 .. Rows : entries'[r].source_cid /= NoEndpoint =>
          silence'[entries'[r].source_cid] /= Never
  BY <1>1, <1>2, <1>3, RowTypes DEF TableTruth
<1>5. CASE RowOf(e) /= {}
  <2>1. RowFor(e) = RowOf(e)
    BY <1>5, RowForFacts
  <2>2. \A r \in 1 .. Rows : entries'[r].source_cid = entries[r].source_cid
    BY <1>1, <2>1 DEF RowOf
  <2>3. RowOf(e)' = RowOf(e) /\ FreeRows' = FreeRows
    BY <2>2 DEF RowOf, FreeRows
  <2>4. \A f \in Endpoints : RowOf(f)' = RowOf(f)
    BY <2>2 DEF RowOf
  <2>5. silence[e] /= Never
    <3>1. PICK r \in 1 .. Rows : entries[r].source_cid = e
      BY <1>5 DEF RowOf
    <3> QED BY <3>1, MonitorAssumption DEF TableTruth
  <2> QED BY <1>2, <1>4, <2>3, <2>4, <2>5 DEF TableTruth
<1>6. CASE RowOf(e) = {} /\ FreeRows = {}
  <2>1. \A r \in 1 .. Rows : entries'[r].source_cid = entries[r].source_cid
    BY <1>1, <1>6, RowForFacts
  <2>2. FreeRows' = FreeRows /\ RowOf(e)' = RowOf(e)
    BY <2>1 DEF RowOf, FreeRows
  <2>3. \A f \in Endpoints : RowOf(f)' = RowOf(f)
    BY <2>1 DEF RowOf
  <2> QED BY <1>2, <1>4, <1>6, <2>2, <2>3 DEF TableTruth
<1>7. CASE RowOf(e) = {} /\ FreeRows /= {}
  <2>1. PICK m \in FreeRows : RowFor(e) = {m}
    BY <1>7, RowForFacts
  <2>2. m \in 1 .. Rows /\ entries[m].source_cid = NoEndpoint /\ NoEndpoint \notin Endpoints
    BY <2>1, MonitorAssumption DEF FreeRows
  <2>3. RowOf(e)' = {m}
    BY <1>1, <1>7, <2>1, <2>2 DEF RowOf
  <2>4. Cardinality(RowOf(e)') = 1
    BY <2>3, FS_Singleton
  <2>5. \A f \in Endpoints \ {e} : RowOf(f)' = RowOf(f)
    BY <1>1, <2>1, <2>2 DEF RowOf
  <2>6. \A f \in Endpoints \ {e} : silence'[f] /= Never => Cardinality(RowOf(f)') = 1
    BY <1>2, <1>7, <2>5 DEF TableTruth
  <2> QED BY <1>4, <2>4, <2>6 DEF TableTruth
<1> QED BY <1>5, <1>6, <1>7

LEMMA TableStep ==
    ASSUME TableTruth, [Next]_vars
    PROVE  TableTruth'
<1>1. TypeOK /\ TypeOK'
  BY TypeStep DEF TableTruth
<1>2. CASE UNCHANGED endpointVars
  BY <1>1, <1>2, TableKept DEF endpointVars
<1>3. CASE Tick
  <2>1. \A e \in Endpoints : (silence'[e] = Never) = (silence[e] = Never)
    BY <1>1, <1>3, OlderFacts, RowTypes, MonitorAssumption DEF Tick
  <2> QED BY <1>1, <1>3, <2>1, TableKept DEF Tick
<1>4. CASE HeartbeatTask
  <2>1. \A r \in 1 .. Rows : entries'[r].source_cid = entries[r].source_cid
    BY <1>1, <1>4, ScannedFacts DEF HeartbeatTask, ScanTimeouts, TypeOK
  <2> QED BY <1>1, <1>4, <2>1, TableKept DEF HeartbeatTask
<1>5. CASE RecoveryDone
  <2>1. \A r \in 1 .. Rows : entries'[r].source_cid = NoEndpoint
    BY <1>5 DEF RecoveryDone, Free
  <2>2. \A e \in Endpoints : silence'[e] = Never
    BY <1>5 DEF RecoveryDone
  <2> QED BY <1>1, <2>1, <2>2 DEF TableTruth
<1>6. ASSUME NEW e \in Endpoints, Consume(e) PROVE TableTruth'
  BY <1>1, <1>6, TableOfConsume
<1> QED BY <1>2, <1>3, <1>4, <1>5, <1>6
        DEF Next, ErrorMonitorTask, ObserveLinuxHeartbeat, RecoveryStarted, Appear, Disappear, vars

-----------------------------------------------------------------------------
(* The rows count the silence of their endpoints.                            *)

LEMMA RowsKept ==
    ASSUME RowsInv, UNCHANGED <<clockVars, task, endpointVars>>
    PROVE  RowsInv'
<1>1. \A t : Age(t)' = Age(t)
  BY SameAges DEF clockVars
<1> QED BY <1>1 DEF RowsInv, CountedFrom, Scanning, clockVars, endpointVars
LEMMA RowsOfTick ==
    ASSUME TypeOK, RowsInv, Tick
    PROVE  RowsInv'
<1>1. SUFFICES ASSUME NEW r \in 1 .. Rows, entries[r].source_cid /= NoEndpoint
               PROVE  CountedFrom(entries[r])'
  BY DEF RowsInv, Tick
<1> DEFINE x == entries[r]
           quiet == silence[x.source_cid]
           age == Age(x.last)
<1>2. CountedFrom(x) /\ x.source_cid \in Endpoints /\ x.last \in Clock
  BY <1>1, RowTypes DEF RowsInv
<1>3. /\ entries' = entries /\ task' = task /\ task = "idle" /\ late' = late + 1
      /\ late \in Nat /\ late <= MaxLate
      /\ silence'[x.source_cid] = Older(quiet, OfflineAge)
  BY <1>2 DEF Tick, TypeOK
<1>4. /\ age \in Clock
      /\ age + 1 < ClockMod => Age(x.last)' = age + 1
  BY <1>2, AgeFacts, AgeOfTick DEF Tick, TypeOK
<1>5. /\ ClockMod \in Nat /\ MaxLate \in Nat /\ WarnAge \in Nat /\ OfflineAge \in Nat
      /\ Never \notin Nat
      /\ WarnAge < OfflineAge /\ OfflineAge + MaxLate < ClockMod
  BY MonitorAssumption
<1>6. /\ quiet \in 0 .. OfflineAge
      /\ x.state = "offline" => quiet = OfflineAge
      /\ x.state /= "offline" => /\ quiet = IF age < OfflineAge THEN age ELSE OfflineAge
                                 /\ age < OfflineAge + late
      /\ x.state = "warn" => quiet >= WarnAge
  BY <1>2, <1>3 DEF CountedFrom, Scanning
<1>7. age \in Nat /\ age < ClockMod
  BY <1>4, Bounds
<1> DEFINE older == Older(quiet, OfflineAge)
           now == Age(x.last)'
<1>8. older = IF quiet = OfflineAge THEN OfflineAge ELSE quiet + 1
  <2>1. quiet /= Never
    BY <1>5, <1>6
  <2> QED BY <2>1 DEF Older
<1>9. x.state /= "offline" => now = age + 1
  BY <1>3, <1>4, <1>5, <1>6, <1>7
<1> HIDE DEF older, now, age, quiet
<1>10. /\ older \in 0 .. OfflineAge
       /\ x.state = "offline" => older = OfflineAge
       /\ x.state /= "offline" => /\ older = IF now < OfflineAge THEN now ELSE OfflineAge
                                  /\ now < OfflineAge + (late + 1)
       /\ x.state = "warn" => older >= WarnAge
  <2>1. older \in 0 .. OfflineAge
    BY <1>5, <1>6, <1>8
  <2>2. x.state = "offline" => older = OfflineAge
    BY <1>6, <1>8
  <2>3. x.state /= "offline" => older = IF now < OfflineAge THEN now ELSE OfflineAge
    BY <1>5, <1>6, <1>7, <1>8, <1>9
  <2>4. x.state /= "offline" => now < OfflineAge + (late + 1)
    BY <1>3, <1>5, <1>6, <1>7, <1>9
  <2>5. x.state = "warn" => older >= WarnAge
    BY <1>5, <1>6, <1>8
  <2> QED BY <2>1, <2>2, <2>3, <2>4, <2>5
<1> QED BY <1>3, <1>10 DEF CountedFrom, Scanning, older, now, age, quiet

LEMMA RowsOfScan ==
    ASSUME TypeOK, RowsInv, HeartbeatTask
    PROVE  RowsInv'
<1>1. SUFFICES ASSUME NEW r \in 1 .. Rows
               PROVE  /\ (entries[r].state = "empty")' = (entries[r].source_cid = NoEndpoint)'
                      /\ entries'[r].source_cid /= NoEndpoint => CountedFrom(entries[r])'
  BY DEF RowsInv
<1> DEFINE x == entries[r]
           y == entries'[r]
           quiet == silence[x.source_cid]
           age == Age(x.last)
<1>2. /\ x \in [source_cid : Endpoints \cup {NoEndpoint}, last : Clock,
                 state : {"empty", "online", "warn", "offline"}]
      /\ y = Scanned(x)
  BY DEF HeartbeatTask, ScanTimeouts, TypeOK
<1>3. /\ y.source_cid = x.source_cid /\ y.last = x.last
      /\ y.state = IF x.state = "empty" THEN "empty"
                   ELSE IF age >= OfflineAge THEN "offline"
                   ELSE IF age >= WarnAge /\ x.state = "online" THEN "warn"
                   ELSE x.state
      /\ x.state \in {"empty", "online", "warn", "offline"}
  BY <1>2, ScannedFacts
<1>4. silence' = silence /\ task = "idle" /\ task' = "monitor" /\ \A t : Age(t)' = Age(t)
  BY SameAges DEF HeartbeatTask, clockVars
<1>5. (y.state = "empty") = (y.source_cid = NoEndpoint)
  BY <1>3 DEF RowsInv
<1>6. ASSUME y.source_cid /= NoEndpoint PROVE CountedFrom(entries[r])'
  <2>1. CountedFrom(x) /\ x.state /= "empty" /\ x.last \in Clock
    BY <1>2, <1>3, <1>6 DEF RowsInv
  <2>2. /\ quiet \in 0 .. OfflineAge
        /\ x.state = "offline" => quiet = OfflineAge
        /\ x.state /= "offline" => quiet = IF age < OfflineAge THEN age ELSE OfflineAge
        /\ x.state = "warn" => quiet >= WarnAge
    BY <2>1 DEF CountedFrom
  <2>3. age \in Nat /\ OfflineAge \in Nat /\ WarnAge \in Nat
    BY <2>1, AgeFacts, Bounds, MonitorAssumption DEF TypeOK
  <2> HIDE DEF age, quiet
  <2>4. /\ quiet \in 0 .. OfflineAge
        /\ y.state = "offline" => quiet = OfflineAge
        /\ y.state /= "offline" => /\ quiet = IF age < OfflineAge THEN age ELSE OfflineAge
                                   /\ age < OfflineAge + 0
        /\ y.state = "warn" => quiet >= WarnAge
        /\ y.state = "online" => age < WarnAge
    BY <1>3, <2>1, <2>2, <2>3
  <2> QED BY <1>3, <1>4, <2>4 DEF CountedFrom, Scanning, age, quiet
<1> QED BY <1>5, <1>6

LEMMA RowsOfConsume ==
    ASSUME TypeOK, RowsInv, NEW e \in Endpoints, Consume(e)
    PROVE  RowsInv'
<1>1. SUFFICES ASSUME NEW r \in 1 .. Rows
               PROVE  /\ (entries[r].state = "empty")' = (entries[r].source_cid = NoEndpoint)'
                      /\ entries'[r].source_cid /= NoEndpoint => CountedFrom(entries[r])'
  BY DEF RowsInv
<1>2. /\ now_ms' = now_ms /\ late' = late /\ task' = task /\ task = "idle"
      /\ \A t : Age(t)' = Age(t)
  BY SameAges DEF Consume, clockVars
<1>3. silence' = [silence EXCEPT ![e] = 0]
  BY DEF Consume
<1>4. silence \in [Endpoints -> 0 .. OfflineAge \cup {Never}] /\ late \in Nat
  BY DEF TypeOK
<1>5. CASE r \in RowFor(e)
  <2>1. entries'[r] = [source_cid |-> e, last |-> now_ms, state |-> "online"]
    BY <1>5 DEF Consume
  <2>2. Age(now_ms) = 0 /\ silence'[e] = 0
    BY <1>3, <1>4, AgeFacts DEF TypeOK
  <2>3. e /= NoEndpoint /\ OfflineAge \in Nat \ {0}
    BY MonitorAssumption
  <2>4. 0 \in 0 .. OfflineAge /\ 0 < OfflineAge /\ 0 < OfflineAge + late
    BY <1>4, <2>3
  <2> QED BY <1>2, <2>1, <2>2, <2>3, <2>4 DEF CountedFrom, Scanning
<1>6. CASE r \notin RowFor(e)
  <2>1. entries'[r] = entries[r]
    BY <1>6 DEF Consume
  <2>2. entries[r].source_cid /= e
    BY <1>6, RowForFacts DEF RowOf
  <2>3. entries[r].source_cid /= NoEndpoint =>
            silence'[entries[r].source_cid] = silence[entries[r].source_cid]
    BY <1>3, <1>4, <2>2, RowTypes
  <2> QED BY <1>2, <2>1, <2>3 DEF RowsInv, CountedFrom, Scanning
<1> QED BY <1>5, <1>6

LEMMA RowsStep ==
    ASSUME TypeOK, RowsInv, [Next]_vars
    PROVE  RowsInv'
<1>1. CASE UNCHANGED <<clockVars, task, endpointVars>>
  BY <1>1, RowsKept
<1>2. CASE ErrorMonitorTask
  <2>1. /\ now_ms' = now_ms /\ entries' = entries /\ silence' = silence
        /\ task' = "idle" /\ late' = IF task = "monitor" THEN 0 ELSE late
        /\ \A t : Age(t)' = Age(t)
    BY <1>2, SameAges DEF ErrorMonitorTask, endpointVars
  <2> QED BY <2>1 DEF RowsInv, CountedFrom, Scanning
<1>3. CASE RecoveryDone
  BY <1>3 DEF RecoveryDone, Free, RowsInv
<1> QED BY <1>1, <1>2, <1>3, RowsOfTick, RowsOfScan, RowsOfConsume
        DEF Next, ObserveLinuxHeartbeat, RecoveryStarted, Appear, Disappear, vars

LEMMA ScanIsTrue ==
    ASSUME TypeOK, RowsInv
    PROVE  EndpointTruth
<1>1. SUFFICES ASSUME Scanning, NEW r \in 1 .. Rows, entries[r].source_cid /= NoEndpoint
               PROVE  LET x == entries[r] IN
                      /\ (x.state = "offline") = (silence[x.source_cid] >= OfflineAge)
                      /\ (x.state = "online") = (silence[x.source_cid] < WarnAge)
  BY DEF EndpointTruth
<1> DEFINE x == entries[r]
           quiet == silence[x.source_cid]
           age == Age(x.last)
<1>2. /\ CountedFrom(x) /\ x.state \in {"online", "warn", "offline"}
      /\ x.last \in Clock
  BY <1>1, RowTypes DEF RowsInv
<1>3. /\ quiet \in 0 .. OfflineAge
      /\ x.state = "offline" => quiet = OfflineAge
      /\ x.state /= "offline" => /\ quiet = IF age < OfflineAge THEN age ELSE OfflineAge
                                 /\ age < OfflineAge + 0
      /\ x.state = "warn" => quiet >= WarnAge
      /\ x.state = "online" => age < WarnAge
  BY <1>1, <1>2 DEF CountedFrom
<1>4. age \in Nat /\ OfflineAge \in Nat /\ WarnAge \in Nat /\ WarnAge < OfflineAge
  BY <1>2, AgeFacts, Bounds, MonitorAssumption DEF TypeOK
<1> HIDE DEF age, quiet
<1>5. (x.state = "offline") <=> (quiet >= OfflineAge)
  BY <1>2, <1>3, <1>4
<1>6. (x.state = "online") <=> (quiet < WarnAge)
  BY <1>2, <1>3, <1>4
<1> QED BY <1>5, <1>6 DEF quiet
-----------------------------------------------------------------------------
(* The state of Linux.                                                       *)

LEMMA HeartbeatStateFacts ==
    ASSUME NEW age \in Nat
    PROVE  /\ HeartbeatState(age) /= "none"
           /\ HeartbeatState(age) = "normal" <=> age < LinuxWarning
<1> QED BY MonitorAssumption DEF HeartbeatState

\* Nothing that the state of Linux is about has changed.
LEMMA LinuxKept ==
    ASSUME LinuxInv,
           UNCHANGED <<clockVars, task, linux_heartbeat, linux_silence>>,
           ("linux" \in error_bits') = ("linux" \in error_bits),
           returned' => recovery_pending' \/ recovery_active'
    PROVE  LinuxInv'
<1>1. \A t : Age(t)' = Age(t)
  BY SameAges DEF clockVars
<1> QED BY <1>1 DEF LinuxInv, LinuxTruth, Scanning, SilentAtRun, Recovered, clockVars

LEMMA LinuxOfTick ==
    ASSUME TypeOK, LinuxInv, Tick
    PROVE  LinuxInv'
<1>1. /\ task = "idle" /\ task' = "idle" /\ late' = late + 1 /\ late \in Nat
      /\ linux_heartbeat' = linux_heartbeat
      /\ UNCHANGED recoveryVars
      /\ linux_silence' = Older(linux_silence, ClockMod)
      /\ linux_silence \in 0 .. ClockMod \cup {Never}
      /\ linux_heartbeat.last \in Clock
  BY DEF Tick, TypeOK
<1>2. ClockMod \in Nat /\ Never \notin Nat /\ LinuxWarning \in Nat
  BY MonitorAssumption
<1>3. /\ linux_silence' = Never <=> linux_silence = Never
      /\ linux_silence /= Never /\ linux_silence /= ClockMod => linux_silence' = linux_silence + 1
      /\ linux_silence = ClockMod => linux_silence' = ClockMod
  BY <1>1, <1>2, OlderFacts
<1>4. linux_silence' \in 0 .. ClockMod - 1 =>
          linux_silence \in 0 .. ClockMod - 1 /\ linux_silence' = linux_silence + 1
  BY <1>1, <1>2, <1>3
<1>5. /\ Age(linux_heartbeat.last) \in Clock
      /\ Age(linux_heartbeat.last) + 1 < ClockMod =>
            Age(linux_heartbeat.last)' = Age(linux_heartbeat.last) + 1
  BY <1>1, AgeFacts, AgeOfTick DEF Tick, TypeOK
<1>6. ASSUME linux_silence' \in 0 .. ClockMod - 1
      PROVE  linux_silence' = Age(linux_heartbeat.last)'
  <2>1. /\ linux_silence = Age(linux_heartbeat.last) /\ linux_silence \in 0 .. ClockMod - 1
        /\ linux_silence' = linux_silence + 1
    BY <1>4, <1>6 DEF LinuxInv
  <2>2. Age(linux_heartbeat.last) + 1 < ClockMod
    BY <1>2, <1>6, <2>1
  <2> QED BY <1>5, <2>1, <2>2
<1>7. SilentAtRun' => SilentAtRun
  <2>1. ASSUME SilentAtRun' PROVE SilentAtRun
    <3>1. linux_silence' \in LinuxWarning + (late + 1) .. ClockMod - 1
      BY <1>1, <2>1 DEF SilentAtRun
    <3>2. linux_silence' \in 0 .. ClockMod - 1
      BY <1>1, <1>2, <3>1
    <3> QED BY <1>1, <1>2, <1>4, <3>1, <3>2 DEF SilentAtRun
  <2> QED BY <2>1
<1>8. ~Scanning /\ ~Scanning'
  BY <1>1 DEF Scanning
<1>9. LinuxTruth'
  BY <1>1, <1>8 DEF LinuxInv, LinuxTruth, recoveryVars
<1>10. (linux_silence' = Never) = (linux_heartbeat'.state = "none")
  BY <1>1, <1>3 DEF LinuxInv
<1>11. SilentAtRun' => Recovered'
  BY <1>1, <1>7, <1>8 DEF LinuxInv, Recovered
<1> QED BY <1>1, <1>6, <1>9, <1>10, <1>11 DEF LinuxInv

LEMMA LinuxOfPoll ==
    ASSUME TypeOK, LinuxInv, HeartbeatTask
    PROVE  LinuxInv'
<1>1. /\ task' = "monitor" /\ now_ms' = now_ms /\ linux_silence' = linux_silence
      /\ UNCHANGED recoveryVars
      /\ PollLinuxHeartbeat
      /\ linux_heartbeat.last \in Clock
  BY DEF HeartbeatTask, clockVars, TypeOK
<1>2. \A t : Age(t)' = Age(t)
  BY <1>1, SameAges
<1>3. /\ linux_heartbeat'.last = linux_heartbeat.last
      /\ linux_heartbeat.state /= "none" =>
            linux_heartbeat'.state = HeartbeatState(Age(linux_heartbeat.last))
      /\ (linux_heartbeat'.state = "none") = (linux_heartbeat.state = "none")
  BY <1>1, PolledFacts
<1>4. ("linux" \in error_bits') <=> linux_heartbeat'.state \notin {"none", "normal"}
  BY DEF HeartbeatTask
<1>5. ASSUME linux_silence \in 0 .. ClockMod - 1
      PROVE  /\ linux_heartbeat'.state = HeartbeatState(linux_silence)
             /\ ("linux" \in error_bits') = (linux_silence >= LinuxWarning)
  <2>1. linux_silence = Age(linux_heartbeat.last) /\ linux_silence \in Nat
    BY <1>5, MonitorAssumption DEF LinuxInv
  <2>2. linux_heartbeat.state /= "none"
    BY <2>1, MonitorAssumption DEF LinuxInv
  <2>3. linux_heartbeat'.state = HeartbeatState(linux_silence)
    BY <1>3, <2>1, <2>2
  <2>4. /\ HeartbeatState(linux_silence) /= "none"
        /\ HeartbeatState(linux_silence) = "normal" <=> linux_silence < LinuxWarning
    BY <2>1, HeartbeatStateFacts
  <2>5. ("linux" \in error_bits') <=> ~(linux_silence < LinuxWarning)
    BY <1>4, <2>3, <2>4
  <2>6. ~(linux_silence < LinuxWarning) <=> linux_silence >= LinuxWarning
    BY <2>1, MonitorAssumption
  <2> QED BY <2>3, <2>5, <2>6
<1>6. LinuxTruth'
  BY <1>1, <1>5 DEF LinuxInv, LinuxTruth, recoveryVars
<1> QED BY <1>1, <1>2, <1>3, <1>6 DEF LinuxInv, Scanning

LEMMA LinuxOfMonitor ==
    ASSUME TypeOK, LinuxInv, ErrorMonitorTask
    PROVE  LinuxInv'
<1>1. /\ task' = "idle" /\ task \in {"idle", "monitor"} /\ now_ms' = now_ms
      /\ UNCHANGED <<linux_heartbeat, linux_silence, recovery_active, returned>>
      /\ recovery_pending => recovery_pending'
      /\ late' = IF task = "monitor" THEN 0 ELSE late
      /\ ("linux" \in error_bits') = ("linux" \in error_bits)
  <2>1. /\ task' = "idle" /\ task \in {"idle", "monitor"} /\ now_ms' = now_ms
        /\ UNCHANGED <<linux_heartbeat, linux_silence, recovery_active, returned>>
        /\ late' = IF task = "monitor" THEN 0 ELSE late
    BY DEF ErrorMonitorTask, TypeOK
  <2>2. recovery_pending' = recovery_pending \/ recovery_pending' = TRUE
    BY DEF ErrorMonitorTask, RegionValid, RegionInvalid
  <2>3. recovery_pending => recovery_pending'
    BY <2>2
  <2>4. ASSUME RegionInvalid PROVE ("linux" \in error_bits') = ("linux" \in error_bits)
    BY <2>4 DEF RegionInvalid
  <2>5. ASSUME RegionValid PROVE ("linux" \in error_bits') = ("linux" \in error_bits)
    BY <2>5 DEF RegionValid
  <2> QED BY <2>1, <2>3, <2>4, <2>5 DEF ErrorMonitorTask
<1>2. \A t : Age(t)' = Age(t)
  BY <1>1, SameAges
<1>3. ~Scanning'
  BY <1>1 DEF Scanning
<1>4. SilentAtRun' => Recovered'
  <2>1. CASE task = "idle"
    BY <1>1, <2>1 DEF LinuxInv, Scanning, SilentAtRun, Recovered
  <2>2. ASSUME task = "monitor", SilentAtRun' PROVE Recovered'
    <3>1. linux_silence \in LinuxWarning + 0 .. ClockMod - 1
      BY <1>1, <2>2 DEF SilentAtRun
    <3>2. /\ linux_silence \in 0 .. ClockMod - 1 /\ linux_silence \in Nat
          /\ ~(linux_silence < LinuxWarning)
      BY <3>1, MonitorAssumption
    <3>3. linux_heartbeat.state = HeartbeatState(linux_silence)
      BY <2>2, <3>2 DEF LinuxInv, LinuxTruth, Scanning
    <3>4. Recovered
      BY <3>2, <3>3, HeartbeatStateFacts DEF Recovered
    <3> QED BY <1>1, <3>4 DEF Recovered
  <2> QED BY <1>1, <2>1, <2>2
<1>5. LinuxTruth'
  BY <1>1, <1>3 DEF LinuxInv, LinuxTruth
<1> QED BY <1>1, <1>2, <1>4, <1>5 DEF LinuxInv

LEMMA LinuxOfHeartbeat ==
    ASSUME TypeOK, LinuxInv, ObserveLinuxHeartbeat
    PROVE  LinuxInv'
<1>1. /\ task = "idle" /\ task' = "idle" /\ now_ms' = now_ms /\ late' = late /\ late \in Nat
      /\ linux_heartbeat' = [last |-> now_ms, state |-> "normal"]
      /\ linux_silence' = 0
      /\ recovery_pending' = (recovery_pending \/ Recovered)
      /\ recovery_active' = recovery_active
      /\ returned' = (returned \/ SilentAtRun)
  BY DEF ObserveLinuxHeartbeat, clockVars, TypeOK
<1>2. ~Scanning /\ ~Scanning'
  BY <1>1 DEF Scanning
<1>3. Age(linux_heartbeat.last)' = 0
  <2>1. Age(linux_heartbeat.last)' = (now_ms + ClockMod - now_ms) % ClockMod
    BY <1>1 DEF Age
  <2> QED BY <2>1, AgeFacts DEF Age, TypeOK
<1>4. ~SilentAtRun'
  BY <1>1, MonitorAssumption DEF SilentAtRun
<1>5. LinuxTruth'
  BY <1>1, <1>2 DEF LinuxInv, LinuxTruth
<1>6. linux_silence' /= Never /\ linux_heartbeat'.state /= "none"
  BY <1>1, MonitorAssumption
<1>7. linux_silence' = Age(linux_heartbeat.last)'
  BY <1>1, <1>3
<1> QED BY <1>4, <1>5, <1>6, <1>7 DEF LinuxInv

LEMMA LinuxStep ==
    ASSUME TypeOK, LinuxInv, [Next]_vars
    PROVE  LinuxInv'
<1>1. LinuxTruth
  BY DEF LinuxInv
<1>2. CASE UNCHANGED vars \/ \E e \in Endpoints : Consume(e)
  BY <1>1, <1>2, LinuxKept DEF Consume, LinuxTruth, linuxVars, recoveryVars, vars
<1>3. CASE RecoveryStarted
  <2>1. /\ UNCHANGED <<clockVars, task, linux_heartbeat, linux_silence, error_bits>>
        /\ recovery_active'
    BY <1>3 DEF RecoveryStarted
  <2> QED BY <2>1, LinuxKept
<1>4. CASE RecoveryDone
  <2>1. /\ UNCHANGED <<clockVars, task, linux_heartbeat, linux_silence>>
        /\ ~returned' /\ error_bits' = error_bits \ {"format"}
    BY <1>4 DEF RecoveryDone
  <2>2. ("linux" \in error_bits') = ("linux" \in error_bits)
    BY <2>1
  <2> QED BY <2>1, <2>2, LinuxKept
<1>5. CASE \E w \in Watched : Appear(w) \/ Disappear(w)
  BY <1>1, <1>5, LinuxKept DEF Appear, Disappear, LinuxTruth, linuxVars, recoveryVars
<1> QED BY <1>2, <1>3, <1>4, <1>5, LinuxOfTick, LinuxOfPoll, LinuxOfMonitor, LinuxOfHeartbeat DEF Next
-----------------------------------------------------------------------------
(* The timers of the rings.                                                  *)

LEMMA TimersKept ==
    ASSUME RingsInv, UNCHANGED <<clockVars, ringVars>>,
           JustRun' => JustRun /\ ("backlog" \in error_bits') = ("backlog" \in error_bits)
    PROVE  RingsInv'
<1>1. \A t : Age(t)' = Age(t)
  BY SameAges DEF clockVars
<1>2. \A w \in Rings : TimerInv(w)'
  BY <1>1 DEF RingsInv, TimerInv, clockVars, ringVars
<1>3. \A w \in Rings : RunOut(w)' = RunOut(w)
  BY <1>1 DEF RunOut, ringVars
<1> QED BY <1>2, <1>3 DEF RingsInv

LEMMA TimersOfTick ==
    ASSUME TypeOK, RingsInv, Tick
    PROVE  RingsInv'
<1>1. /\ late' = late + 1 /\ late \in Nat /\ late <= MaxLate
      /\ now_ms \in Clock /\ now_ms \in Nat
      /\ since_ms' = since_ms
      /\ \A w \in Rings : /\ lasted'[w] = Older(lasted[w], ClockMod)
                          /\ lasted[w] \in 0 .. ClockMod \cup {Never}
                          /\ since_ms[w] \in Clock
  BY RowTypes, Bounds DEF Tick, TypeOK, Watched
<1>2. ClockMod \in Nat /\ MaxLate \in Nat /\ MaxLate + 1 < ClockMod /\ Never \notin Nat
  BY MonitorAssumption
<1>3. ASSUME NEW w \in Rings PROVE TimerInv(w)'
  <2> DEFINE age == Age(since_ms[w])
             next == Age(since_ms[w])'
             old == lasted[w]
             new == lasted'[w]
  <2>1. /\ new = Never <=> old = Never
        /\ old /= Never /\ old /= ClockMod => new = old + 1
        /\ old = ClockMod => new = ClockMod
        /\ old \in 0 .. ClockMod \cup {Never}
    <3>1. new = Older(old, ClockMod) /\ old \in 0 .. ClockMod \cup {Never}
      BY <1>1
    <3> HIDE DEF old, new
    <3> QED BY <1>2, <3>1, OlderFacts
  <2>2. /\ age \in Nat /\ (age + 1 < ClockMod => next = age + 1)
        /\ now_ms + 1 < ClockMod => now_ms' = now_ms + 1
    BY <1>1, AgeFacts, AgeOfTick, Bounds DEF Tick
  <2>3. TimerInv(w)
    BY DEF RingsInv
  <2>4. new = Never => since_ms'[w] = 0
    BY <1>1, <2>1, <2>3 DEF TimerInv
  <2>5. ASSUME new /= Never, since_ms'[w] = 0
        PROVE  now_ms' = new /\ now_ms' <= late'
    <3>1. now_ms = old /\ now_ms <= late
      BY <1>1, <2>1, <2>3, <2>5 DEF TimerInv
    <3>2. now_ms + 1 < ClockMod /\ old /= Never /\ old /= ClockMod
      BY <1>1, <1>2, <3>1
    <3> HIDE DEF old, new
    <3> QED BY <1>1, <2>1, <2>2, <3>1, <3>2
  <2>6. ASSUME new \in 0 .. ClockMod - 1, since_ms'[w] /= 0
        PROVE  new \in next .. next + MaxLate + 1
    <3>1. old \in 0 .. ClockMod - 1 /\ new = old + 1
      BY <1>2, <2>1, <2>6
    <3>2. old \in age .. age + MaxLate + 1
      BY <1>1, <2>3, <2>6, <3>1 DEF TimerInv
    <3> HIDE DEF old, new, age, next
    <3> QED BY <1>2, <2>2, <2>6, <3>1, <3>2
  <2> QED BY <2>4, <2>5, <2>6 DEF TimerInv
<1>4. ~JustRun'
  BY <1>1 DEF JustRun
<1> QED BY <1>3, <1>4 DEF RingsInv

\* Timers that stand while the region is invalid say nothing more of a ring than
\* before, and a timer that does not run says nothing.
LEMMA TimersOfInvalid ==
    ASSUME TypeOK, RingsInv, ErrorMonitorTask, RegionInvalid
    PROVE  RingsInv'
<1>1. /\ now_ms' = now_ms /\ since_ms' = since_ms /\ ~looked'
      /\ \A w \in Rings : lasted'[w] = IF since_ms[w] = 0 THEN Never ELSE lasted[w]
  BY DEF ErrorMonitorTask, RegionInvalid, Watched
<1>2. \A t : Age(t)' = Age(t)
  BY <1>1, SameAges
<1>3. \A w \in Rings : TimerInv(w)'
  BY <1>1, <1>2, MonitorAssumption DEF RingsInv, TimerInv
<1> QED BY <1>1, <1>3 DEF RingsInv, JustRun

LEMMA TimersOfValid ==
    ASSUME TypeOK, RingsInv, ErrorMonitorTask, RegionValid
    PROVE  RingsInv'
<1>1. /\ now_ms' = now_ms /\ now_ms \in Clock /\ now_ms \in Nat
      /\ late' = (IF task = "monitor" THEN 0 ELSE late)
      /\ late \in Nat /\ late <= MaxLate + 1
      /\ \A w \in Rings : /\ since_ms'[w] = Since(w)
                          /\ lasted'[w] = IF w \notin active THEN Never
                                          ELSE IF lasted[w] = Never THEN 0 ELSE lasted[w]
                          /\ since_ms[w] \in Clock
                          /\ lasted[w] \in 0 .. ClockMod \cup {Never}
  BY RowTypes, Bounds, MonitorAssumption DEF ErrorMonitorTask, RegionValid, TypeOK, Watched
<1>2. MaxLate \in Nat /\ Never \notin Nat
  BY MonitorAssumption
<1>3. /\ \A t : Age(t)' = Age(t)
      /\ Age(now_ms) = 0
  BY <1>1, SameAges, AgeFacts
<1>4. ASSUME NEW w \in Rings PROVE TimerInv(w)'
  <2> DEFINE age == Age(since_ms'[w])
             new == lasted'[w]
  <2>1. TimerInv(w)
    BY DEF RingsInv
  <2>2. new = Never => since_ms'[w] = 0
    BY <1>1, <1>2 DEF Since
  <2>3. ASSUME new /= Never, since_ms'[w] = 0
        PROVE  now_ms = new /\ now_ms <= late'
    <3>1. w \in active
      BY <1>1, <2>3
    <3>2. now_ms = 0 /\ since_ms[w] = 0
      BY <1>1, <2>3, <3>1 DEF Since
    <3>3. new = 0
      BY <1>1, <2>1, <3>1, <3>2 DEF TimerInv
    <3> QED BY <1>1, <3>2, <3>3
  <2>4. ASSUME new \in 0 .. ClockMod - 1, since_ms'[w] /= 0
        PROVE  new \in age .. age + MaxLate + 1
    <3>1. w \in active
      BY <1>1, <2>4 DEF Since
    <3>2. CASE since_ms[w] = 0
      <4>1. age = 0
        BY <1>1, <1>3, <3>1, <3>2 DEF Since
      <4>2. lasted[w] = Never \/ (lasted[w] \in Nat /\ lasted[w] <= late)
        BY <1>1, <2>1, <3>2 DEF TimerInv
      <4>3. new \in Nat /\ new <= MaxLate + 1
        BY <1>1, <1>2, <3>1, <4>2
      <4> HIDE DEF age, new
      <4> QED BY <1>2, <4>1, <4>3
    <3>3. CASE since_ms[w] /= 0
      <4>1. since_ms'[w] = since_ms[w]
        BY <1>1, <3>1, <3>3 DEF Since
      <4>2. lasted[w] /= Never
        BY <2>1, <3>3 DEF TimerInv
      <4>3. new = lasted[w]
        BY <1>1, <3>1, <4>2
      <4> QED BY <2>1, <2>4, <3>3, <4>1, <4>3 DEF TimerInv
    <3> QED BY <3>2, <3>3
  <2> QED BY <1>1, <1>3, <2>2, <2>3, <2>4 DEF TimerInv
<1>5. ASSUME NEW w \in Rings PROVE RunOut(w)' <=> Stuck(w)
  <2>1. lasted'[w] /= Never <=> w \in active
    BY <1>1, <1>2
  <2>2. Age(since_ms[w])' = Age(Since(w))
    BY <1>1, <1>3
  <2> QED BY <2>1, <2>2 DEF RunOut, Stuck
<1>6. "backlog" \in error_bits' <=> \E w \in Rings : Stuck(w)
  BY DEF RegionValid
<1>7. "backlog" \in error_bits' <=> \E w \in Rings : RunOut(w)'
  BY <1>5, <1>6
<1> QED BY <1>4, <1>7 DEF RingsInv

LEMMA TimersStep ==
    ASSUME TypeOK, RingsInv, [Next]_vars
    PROVE  RingsInv'
<1>1. CASE UNCHANGED vars \/ RecoveryStarted \/ RecoveryDone \/ (\E e \in Endpoints : Consume(e))
           \/ ObserveLinuxHeartbeat \/ (\E w \in Watched : Appear(w) \/ Disappear(w))
  <2>1. UNCHANGED <<clockVars, ringVars>> /\ task' = task
    BY <1>1 DEF vars, RecoveryStarted, RecoveryDone, Consume, ObserveLinuxHeartbeat, Appear, Disappear
  <2>2. ("backlog" \in error_bits') = ("backlog" \in error_bits)
    BY <1>1 DEF vars, RecoveryStarted, RecoveryDone, Consume, ObserveLinuxHeartbeat, Appear, Disappear
  <2> QED BY <2>1, <2>2, TimersKept DEF JustRun, clockVars, ringVars
<1>2. CASE HeartbeatTask
  BY <1>2, TimersKept DEF HeartbeatTask, JustRun
<1> QED BY <1>1, <1>2, TimersOfTick, TimersOfValid, TimersOfInvalid DEF Next, ErrorMonitorTask

LEMMA BacklogIsTrue ==
    ASSUME TypeOK, RingsInv
    PROVE  BacklogTruth
<1>1. SUFFICES ASSUME JustRun
               PROVE  /\ LastsFor(Rings, StuckAge + MaxLate + 1, ClockMod - 1) =>
                            "backlog" \in error_bits
                      /\ "backlog" \in error_bits => LastsFor(Rings, StuckAge, ClockMod)
  BY DEF BacklogTruth
<1>2. "backlog" \in error_bits <=> \E w \in Rings : RunOut(w)
  BY <1>1 DEF RingsInv
<1>3. /\ StuckAge \in Nat /\ MaxLate \in Nat /\ ClockMod \in Nat /\ StuckAge < ClockMod
      /\ Never \notin Nat
  BY MonitorAssumption
<1>4. late = 0 /\ now_ms \in Nat /\ Age(0) = now_ms
  BY <1>1, AgeFacts, Bounds DEF JustRun, TypeOK
<1>5. ASSUME NEW w \in Rings
      PROVE  /\ TimerInv(w)
             /\ since_ms[w] \in Clock /\ lasted[w] \in 0 .. ClockMod \cup {Never}
             /\ Age(since_ms[w]) \in Nat
  BY RowTypes, AgeFacts, Bounds DEF RingsInv, Watched, TypeOK
<1>6. ASSUME NEW w \in Rings, lasted[w] \in StuckAge + MaxLate + 1 .. ClockMod - 1
      PROVE  RunOut(w)
  <2> DEFINE age == Age(since_ms[w])
  <2>1. lasted[w] \in 0 .. ClockMod - 1 /\ lasted[w] \in Nat /\ lasted[w] > 0
    BY <1>3, <1>6
  <2>2. since_ms[w] /= 0
    BY <1>3, <1>4, <1>5, <2>1 DEF TimerInv
  <2>3. lasted[w] \in age .. age + MaxLate + 1 /\ age \in Nat
    BY <1>5, <2>1, <2>2 DEF TimerInv
  <2> HIDE DEF age
  <2>4. age >= StuckAge /\ lasted[w] /= Never
    BY <1>3, <1>6, <2>1, <2>3
  <2> QED BY <2>4 DEF RunOut, age
<1>7. ASSUME NEW w \in Rings, RunOut(w)
      PROVE  lasted[w] \in StuckAge .. ClockMod
  <2> DEFINE age == Age(since_ms[w])
  <2>1. lasted[w] \in Nat /\ lasted[w] <= ClockMod /\ age >= StuckAge /\ age \in Nat
    BY <1>3, <1>5, <1>7 DEF RunOut
  <2>2. CASE since_ms[w] = 0
    <3>1. lasted[w] = now_ms /\ age = now_ms
      BY <1>3, <1>4, <1>5, <2>1, <2>2 DEF TimerInv
    <3> HIDE DEF age
    <3> QED BY <1>3, <2>1, <3>1
  <2>3. CASE since_ms[w] /= 0 /\ lasted[w] < ClockMod
    <3>1. lasted[w] \in 0 .. ClockMod - 1
      BY <1>3, <2>1, <2>3
    <3>2. lasted[w] >= age
      BY <1>5, <2>3, <3>1 DEF TimerInv
    <3> HIDE DEF age
    <3> QED BY <1>3, <2>1, <3>2
  <2>4. CASE lasted[w] = ClockMod
    BY <1>3, <2>4
  <2> HIDE DEF age
  <2> QED BY <1>3, <2>1, <2>2, <2>3, <2>4
<1> QED BY <1>2, <1>6, <1>7 DEF LastsFor

-----------------------------------------------------------------------------
(* The theorems.                                                             *)

LEMMA MonitorInit ==
    ASSUME Init
    PROVE  MonitorInv
<1>1. TypeOK
  <2>1. entries \in [1 .. Rows -> [source_cid : Endpoints \cup {NoEndpoint}, last : Clock,
                                    state : {"empty", "online", "warn", "offline"}]]
    BY Bounds DEF Init, Free
  <2>2. linux_heartbeat \in [last : Clock,
                             state : {"none", "normal", "warning", "suspected", "degraded"}]
    BY Bounds DEF Init
  <2>3. late \in 0 .. MaxLate + 1
    BY MonitorAssumption DEF Init
  <2>4. since_ms \in [Watched -> Clock]
    BY Bounds DEF Init
  <2> QED BY <2>1, <2>2, <2>3, <2>4 DEF Init, TypeOK
<1>2. TableTruth
  BY <1>1 DEF Init, TableTruth, Free
<1>3. RowsInv
  BY DEF Init, RowsInv, Free
<1>4. LinuxInv
  BY MonitorAssumption DEF Init, LinuxInv, LinuxTruth, SilentAtRun, Scanning
<1>5. RingsInv
  <2>1. \A w \in Rings : since_ms[w] = 0 /\ lasted[w] = Never
    BY DEF Init, Watched
  <2>2. \A w \in Rings : TimerInv(w)
    BY <2>1, MonitorAssumption DEF TimerInv
  <2>3. "backlog" \notin error_bits
    BY DEF Init
  <2>4. \A w \in Rings : ~RunOut(w)
    BY <2>1 DEF RunOut
  <2> QED BY <2>2, <2>3, <2>4 DEF RingsInv
<1> QED BY <1>2, <1>3, <1>4, <1>5 DEF MonitorInv

\* The stamps and the timers of the firmware count the time that has really
\* passed since the last heartbeat of an endpoint, since that of Linux and since
\* a ring was found not empty, whatever the clock reads and however late the
\* tasks run.
THEOREM MonitorInvariant == Spec => []MonitorInv
<1>1. Init => MonitorInv
  BY MonitorInit
<1>2. MonitorInv /\ [Next]_vars => MonitorInv'
  <2>1. MonitorInv => TypeOK
    BY DEF MonitorInv, TableTruth
  <2> QED BY <2>1, TableStep, RowsStep, LinuxStep, TimersStep DEF MonitorInv
<1> QED BY <1>1, <1>2, PTL DEF Spec

\* An endpoint that was heard has one row of the table or none because others
\* have all of them, and no row is of an endpoint that was never heard.
THEOREM MonitorTableTruth == Spec => []TableTruth
<1>1. MonitorInv => TableTruth
  BY DEF MonitorInv
<1> QED BY <1>1, MonitorInvariant, PTL

\* After a scan an endpoint is shown as offline if and only if it has been
\* silent for the time of the threshold, for however many rounds of the clock,
\* and as online if and only if it has not been silent for the warning time.
THEOREM MonitorEndpointTruth == Spec => []EndpointTruth
<1>1. MonitorInv => EndpointTruth
  BY ScanIsTrue DEF MonitorInv, TableTruth
<1> QED BY <1>1, MonitorInvariant, PTL

\* After a poll the state of Linux and the error bit are those of its real
\* silence, until that is a round of the clock; a Linux that was silent past the
\* warning time at a run and is back leads to a recovery.
THEOREM MonitorLinuxTruth == Spec => []LinuxTruth
<1>1. MonitorInv => LinuxTruth
  BY DEF MonitorInv, LinuxInv
<1> QED BY <1>1, MonitorInvariant, PTL

\* The error bit of a backlog comes once a ring was found not empty for the
\* stuck time and one run, and never before the stuck time.
THEOREM MonitorBacklogTruth == Spec => []BacklogTruth
<1>1. MonitorInv => BacklogTruth
  BY BacklogIsTrue DEF MonitorInv, TableTruth
<1> QED BY <1>1, MonitorInvariant, PTL
=============================================================================
