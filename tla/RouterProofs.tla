---------------------------- MODULE RouterProofs ----------------------------
(***************************************************************************)
(* The router for every set of policies, inputs and interfaces, every size of *)
(* the queue, every quota, every clock and every width of the counters:       *)
(*   - what it would queue of an external interface is what the policy of the *)
(*     Linux side allows: the rating remembers the sequence of a frame before *)
(*     the router decides about it, so it is never behind the queue;          *)
(*   - its report adds up: arithmetic modulo the width of the counters;       *)
(*   - the first in the array is the oldest by its time stamp, as long as the *)
(*     clock does not wrap;                                                   *)
(*   - what makes room for a new item is the least important there is;        *)
(*   - no priority starves: while one waits, every dequeue takes a turn of    *)
(*     another that has not been taken since.                                 *)
(***************************************************************************)
EXTENDS Router, FiniteSetTheorems, TLAPS

RatingTypeOK ==
    /\ policy \in Policies
    /\ sequence_seen \in [Interfaces -> BOOLEAN]
    /\ last_sequence \in [Interfaces -> Nat]
    /\ newest \in [Interfaces -> Nat]

\* The rating is never behind the queue.
RatingAhead ==
    policy.enabled /\ policy.require_replay_protection =>
        \A i \in External : newest[i] > 0 =>
            sequence_seen[i] /\ newest[i] <= last_sequence[i] + 1

RatingInv == RatingTypeOK /\ RatingAhead

-----------------------------------------------------------------------------
\* A frame of an external interface that passes has been rated by an enabled
\* policy, with a sequence number that was new to the rating if that is asked.
LEMMA TrustedIsRated ==
    ASSUME RatingTypeOK, NEW x \in Inputs, x.source \in External, ~Invalid(x)
    PROVE  /\ policy.enabled
           /\ policy.require_authentication => x.token
           /\ policy.require_integrity => x.tag
           /\ policy.require_replay_protection => ReplayPasses(x)
           /\ x.priority <= 1 \/ ControlPath(x) =>
                 policy.allow_control_path /\ ControlPath(x)
<1>1. Trusted(x) /\ FlagsOf(x) = Evaluate(x)
  BY DEF Invalid, FlagsOf
<1>2. policy.enabled
  BY <1>1 DEF Trusted, Evaluate
<1>3. "internal" \notin Evaluate(x)
  BY <1>2 DEF Evaluate
<1>4. /\ "auth" \in Evaluate(x) /\ "integrity" \in Evaluate(x)
      /\ "replay" \in Evaluate(x)
      /\ RequiresControl(x) => "control" \in Evaluate(x)
  BY <1>1, <1>3 DEF Trusted
<1>5. /\ policy.require_authentication => x.token
      /\ policy.require_integrity => x.tag
      /\ policy.require_replay_protection => ReplayPasses(x)
  BY <1>2, <1>4 DEF Evaluate
<1>6. RequiresControl(x) => policy.allow_control_path /\ ControlPath(x)
  BY <1>2, <1>4 DEF Evaluate
<1> QED BY <1>2, <1>5, <1>6 DEF RequiresControl

\* The invariant gives the property.
LEMMA AheadIsEnough == RatingInv => RoutedIsAllowed
<1> SUFFICES ASSUME RatingInv, NEW x \in Inputs,
                    x.source \in External, Received(x), ~Invalid(x)
             PROVE  /\ policy.enabled
                    /\ policy.require_authentication => x.token
                    /\ policy.require_integrity => x.tag
                    /\ policy.require_replay_protection => x.sequence >= newest[x.source]
                    /\ x.priority <= 1 \/ ControlPath(x) =>
                          policy.allow_control_path /\ ControlPath(x)
  BY DEF RoutedIsAllowed
<1>1. x \in Frame /\ x.source \in Interfaces /\ x.sequence \in Nat
  BY RouterAssumption DEF Frame
<1>2. policy.enabled /\ (policy.require_replay_protection => ReplayPasses(x))
  BY TrustedIsRated DEF RatingInv
<1>3. ASSUME policy.require_replay_protection
      PROVE  x.sequence >= newest[x.source]
  <2>1. newest[x.source] \in Nat /\ last_sequence[x.source] \in Nat
    BY <1>1 DEF RatingInv, RatingTypeOK
  <2>2. CASE newest[x.source] > 0
    <3>1. sequence_seen[x.source] /\ newest[x.source] <= last_sequence[x.source] + 1
      BY <1>2, <1>3, <2>2 DEF RatingInv, RatingAhead
    <3>2. x.sequence > last_sequence[x.source]
      BY <1>2, <1>3, <3>1 DEF ReplayPasses
    <3> QED BY <1>1, <2>1, <3>1, <3>2
  <2>3. CASE ~(newest[x.source] > 0)
    BY <1>1, <2>1, <2>3
  <2> QED BY <2>2, <2>3
<1> QED BY <1>3, TrustedIsRated DEF RatingInv

LEMMA RatingInit == Init => RatingInv
<1> SUFFICES ASSUME Init PROVE RatingInv
  OBVIOUS
<1>1. RatingTypeOK
  BY DEF Init, RatingTypeOK
<1>2. RatingAhead
  BY RouterAssumption DEF Init, RatingAhead
<1> QED BY <1>1, <1>2 DEF RatingInv

\* What Remember leaves: types, and nothing forgotten.
LEMMA RememberTypes ==
    ASSUME RatingInv, NEW x \in Inputs, Remember(x)
    PROVE  /\ sequence_seen' \in [Interfaces -> BOOLEAN]
           /\ last_sequence' \in [Interfaces -> Nat]
<1>1. x.source \in Interfaces /\ x.sequence \in Nat
  BY RouterAssumption DEF Frame
<1> QED BY <1>1 DEF Remember, rating, RatingInv, RatingTypeOK

\* After Remember the rating is still ahead of what had been queued.
LEMMA RememberAhead ==
    ASSUME RatingInv, NEW x \in Inputs, Remember(x),
           policy.enabled, policy.require_replay_protection,
           NEW i \in External, newest[i] > 0
    PROVE  sequence_seen'[i] /\ newest[i] <= last_sequence'[i] + 1
<1>1. /\ i \in Interfaces /\ newest[i] \in Nat /\ last_sequence[i] \in Nat
      /\ x.source \in Interfaces /\ x.sequence \in Nat
  BY RouterAssumption DEF Frame, RatingInv, RatingTypeOK
<1>2. sequence_seen[i] /\ newest[i] <= last_sequence[i] + 1
  BY DEF RatingInv, RatingAhead
<1>3. CASE i = x.source /\ ReplayPasses(x)
  <2>1. sequence_seen'[i] = TRUE /\ last_sequence'[i] = x.sequence
    BY <1>1, <1>3 DEF Remember, RatingInv, RatingTypeOK
  <2>2. x.sequence > last_sequence[i]
    BY <1>2, <1>3 DEF ReplayPasses
  <2> QED BY <1>1, <1>2, <2>1, <2>2
<1>4. CASE ~(i = x.source /\ ReplayPasses(x))
  <2>1. sequence_seen'[i] = sequence_seen[i] /\ last_sequence'[i] = last_sequence[i]
    BY <1>1, <1>4 DEF Remember, rating, RatingInv, RatingTypeOK
  <2> QED BY <1>2, <2>1
<1> QED BY <1>3, <1>4

\* A frame that goes into the queue has been remembered.
LEMMA QueuedAhead ==
    ASSUME RatingInv, NEW x \in Inputs, Remember(x), Queued(x), ~Invalid(x),
           policy.enabled, policy.require_replay_protection,
           NEW i \in External, newest'[i] > 0
    PROVE  sequence_seen'[i] /\ newest'[i] <= last_sequence'[i] + 1
<1>1. /\ i \in Interfaces /\ newest[i] \in Nat
      /\ x.source \in Interfaces /\ x.sequence \in Nat
  BY RouterAssumption DEF Frame, RatingInv, RatingTypeOK
<1>2. CASE i = x.source
  <2>1. ReplayPasses(x)
    BY <1>2, TrustedIsRated DEF RatingInv
  <2>2. sequence_seen'[i] = TRUE /\ last_sequence'[i] = x.sequence
    BY <1>1, <1>2, <2>1 DEF Remember, RatingInv, RatingTypeOK
  <2>3. newest'[i] = IF x.sequence >= newest[i] THEN x.sequence + 1 ELSE newest[i]
    BY <1>1, <1>2 DEF Queued, RatingInv, RatingTypeOK
  <2>4. newest[i] <= x.sequence
    <3>1. CASE newest[i] > 0
      <4>1. sequence_seen[i] /\ newest[i] <= last_sequence[i] + 1
        BY <3>1 DEF RatingInv, RatingAhead
      <4>2. x.sequence > last_sequence[i]
        BY <1>2, <2>1, <4>1 DEF ReplayPasses
      <4>3. last_sequence[i] \in Nat
        BY <1>1 DEF RatingInv, RatingTypeOK
      <4> QED BY <1>1, <4>1, <4>2, <4>3
    <3>2. CASE ~(newest[i] > 0)
      BY <1>1, <3>2
    <3> QED BY <3>1, <3>2
  <2> QED BY <1>1, <2>2, <2>3, <2>4
<1>3. CASE i /= x.source
  <2>1. newest'[i] = newest[i]
    BY <1>1, <1>3 DEF Queued, RatingInv, RatingTypeOK
  <2> QED BY <2>1, RememberAhead
<1> QED BY <1>2, <1>3

\* Of all that a submission does, this is what the rating depends on.
LEMMA SubmitEffect ==
    ASSUME NEW x \in Inputs, Submit(x)
    PROVE  /\ Remember(x)
           /\ policy' = policy
           /\ newest' = newest \/ (Queued(x) /\ ~Invalid(x))
<1>1. PICK receive : SubmitReclaims(x, receive) \/ SubmitQueues(x, receive)
  BY DEF Submit
<1>2. newest' = newest \/ (Queued(x) /\ ~Invalid(x))
  <2>1. CASE SubmitReclaims(x, receive)
    BY <2>1 DEF SubmitReclaims
  <2>2. CASE SubmitQueues(x, receive)
    BY <2>2 DEF SubmitQueues, Routable
  <2> QED BY <1>1, <2>1, <2>2
<1> QED BY <1>2 DEF Submit

LEMMA FrameKeepsRating ==
    ASSUME RatingInv, NEW x \in Inputs, Submit(x) \/ NotCommitted(x)
    PROVE  RatingInv'
<1>1. /\ Remember(x)
      /\ policy' = policy
      /\ newest' = newest \/ (Queued(x) /\ ~Invalid(x))
  BY SubmitEffect DEF NotCommitted
<1>2. x.source \in Interfaces /\ x.sequence \in Nat
  BY RouterAssumption DEF Frame
<1>3. newest' \in [Interfaces -> Nat]
  <2>1. CASE newest' = newest
    BY <2>1 DEF RatingInv, RatingTypeOK
  <2>2. CASE Queued(x)
    BY <1>2, <2>2 DEF Queued, RatingInv, RatingTypeOK
  <2> QED BY <1>1, <2>1, <2>2
<1>4. RatingTypeOK'
  BY <1>1, <1>3, RememberTypes DEF RatingInv, RatingTypeOK
<1>5. RatingAhead'
  <2> SUFFICES ASSUME policy.enabled, policy.require_replay_protection,
                      NEW i \in External, newest'[i] > 0
               PROVE  sequence_seen'[i] /\ newest'[i] <= last_sequence'[i] + 1
    BY <1>1 DEF RatingAhead
  <2>1. CASE newest' = newest
    BY <1>1, <2>1, RememberAhead
  <2>2. CASE Queued(x) /\ ~Invalid(x)
    BY <1>1, <2>2, QueuedAhead
  <2> QED BY <1>1, <2>1, <2>2
<1> QED BY <1>4, <1>5 DEF RatingInv

\* Every other step leaves the rating and its history alone.
LEMMA RatingStep == RatingInv /\ [Next]_vars => RatingInv'
<1> SUFFICES ASSUME RatingInv, [Next]_vars PROVE RatingInv'
  OBVIOUS
<1>1. ASSUME NEW x \in Inputs, Submit(x) \/ NotCommitted(x) PROVE RatingInv'
  BY <1>1, FrameKeepsRating
<1>2. ASSUME UNCHANGED <<policy, rating, newest>> PROVE RatingInv'
  <2>1. /\ policy' = policy /\ newest' = newest
        /\ sequence_seen' = sequence_seen /\ last_sequence' = last_sequence
    BY <1>2 DEF rating
  <2> QED BY <2>1 DEF RatingInv, RatingTypeOK, RatingAhead
<1>3. Schedule => UNCHANGED <<policy, rating, newest>>
  BY DEF Schedule
<1>4. ReclaimQueued => UNCHANGED <<policy, rating, newest>>
  BY DEF ReclaimQueued
<1>5. Tick => UNCHANGED <<policy, rating, newest>>
  BY DEF Tick
<1>6. UNCHANGED vars => UNCHANGED <<policy, rating, newest>>
  BY DEF vars
<1> QED BY <1>1, <1>2, <1>3, <1>4, <1>5, <1>6 DEF Next

\* What the rating remembers is never behind what has been queued.
THEOREM RatingInvariant == Spec => []RatingInv
<1>1. Init => RatingInv
  BY RatingInit
<1>2. RatingInv /\ [Next]_vars => RatingInv'
  BY RatingStep
<1> QED BY <1>1, <1>2, PTL DEF Spec

\* Whatever frames arrive and whatever has been queued before, the router
\* queues nothing of an external interface that the Linux policy does not allow.
THEOREM RoutingIsAllowed == Spec => []RoutedIsAllowed
<1>1. RatingInv => RoutedIsAllowed
  BY AheadIsEnough
<1> QED BY <1>1, RatingInvariant, PTL

-----------------------------------------------------------------------------
(* The queue: what the choices and the removal of an item do.                *)

\* Every set of naturals has a least element: of the sets of what is below one
\* of its elements, one has none of the others as a proper subset.
LEMMA LeastNatural ==
    ASSUME NEW S \in SUBSET Nat, S /= {}
    PROVE  \E n \in S : \A m \in S : n <= m
<1> DEFINE Below(n) == {m \in S : m < n}
           T == {Below(n) : n \in S}
<1>1. ASSUME NEW n \in S PROVE IsFiniteSet(Below(n)) /\ Below(n) \in SUBSET Nat
  <2>1. n \in Nat /\ \A s \in Nat : s < n => s <= n
    OBVIOUS
  <2>2. \A s \in Below(n) : s \in S /\ s < n
    OBVIOUS
  <2> HIDE DEF Below
  <2>3. Below(n) \in SUBSET Nat /\ \A s \in Below(n) : s <= n
    BY <2>1, <2>2
  <2> QED BY <2>1, <2>3, FS_BoundedSetOfNaturals
<1>2. T \subseteq FiniteSubsetsOf(Nat) /\ T /= {}
  BY <1>1 DEF FiniteSubsetsOf
<1>3. PICK B \in T : \A A \in T : ~(<<A, B>> \in StrictSubsetOrdering(Nat))
  <2> HIDE DEF T
  <2> QED BY <1>2, FS_StrictSubsetOrderingWellFounded, WFMin
<1>4. PICK n \in S : B = Below(n)
  OBVIOUS
<1>5. ASSUME NEW m \in S, m < n PROVE FALSE
  <2>1. Below(m) \in T /\ Below(m) \subseteq B /\ m \in B /\ m \notin Below(m)
    <3>1. m \in Nat /\ n \in Nat /\ m < n
      BY <1>5
    <3>2. \A k \in Nat : k < m => k < n
      BY <3>1
    <3>3. \A k : k \in Below(m) <=> k \in S /\ k < m
      OBVIOUS
    <3>4. \A k : k \in B <=> k \in S /\ k < n
      BY <1>4
    <3>5. Below(m) \in T
      OBVIOUS
    <3>6. ~(m < m)
      BY <3>1
    <3> HIDE DEF Below, T
    <3> QED BY <3>1, <3>2, <3>3, <3>4, <3>5, <3>6
  <2>2. Below(m) \in SUBSET Nat /\ B \in SUBSET Nat
    BY <1>4
  <2>3. <<Below(m), B>> \in StrictSubsetOrdering(Nat)
    BY <2>1, <2>2 DEF StrictSubsetOrdering
  <2> QED BY <1>3, <2>1, <2>3
<1> QED BY <1>5

LEMMA LeastFacts ==
    ASSUME NEW S \in SUBSET Nat, S /= {}
    PROVE  Least(S) \in S /\ \A m \in S : Least(S) <= m
<1> QED BY LeastNatural DEF Least

\* The greatest is the least of the bounds.
LEMMA GreatestFacts ==
    ASSUME NEW S \in SUBSET Nat, S /= {}, NEW b \in Nat, \A m \in S : m <= b
    PROVE  Greatest(S) \in S /\ \A m \in S : Greatest(S) >= m
<1> DEFINE Bounds == {n \in Nat : \A m \in S : m <= n}
<1>1. PICK n \in Bounds : \A k \in Bounds : n <= k
  <2>1. Bounds \in SUBSET Nat /\ b \in Bounds
    OBVIOUS
  <2> HIDE DEF Bounds
  <2> QED BY <2>1, LeastNatural
<1>2. n \in S
  <2> SUFFICES ASSUME n \notin S PROVE FALSE
    OBVIOUS
  <2>1. PICK m \in S : TRUE
    OBVIOUS
  <2>2. n \in Nat /\ m \in Nat /\ m <= n /\ m /= n
    OBVIOUS
  <2>3. n - 1 \in Nat /\ ~(n <= n - 1)
    BY <2>2
  <2>4. \A k \in S : k <= n /\ k /= n /\ k \in Nat
    OBVIOUS
  <2>5. \A k \in S : k <= n - 1
    BY <2>2, <2>4
  <2> QED BY <1>1, <2>3, <2>5
<1>3. \A m \in S : n >= m
  OBVIOUS
<1> QED BY <1>2, <1>3 DEF Greatest

LEMMA RemoveAtFacts ==
    ASSUME NEW T, NEW s \in Seq(T), NEW i \in 1 .. Len(s)
    PROVE  /\ RemoveAt(s, i) \in Seq(T)
           /\ Len(RemoveAt(s, i)) = Len(s) - 1
           /\ \A k \in 1 .. Len(s) - 1 :
                 RemoveAt(s, i)[k] = IF k < i THEN s[k] ELSE s[k + 1]
<1> DEFINE a == SubSeq(s, 1, i - 1)
           b == SubSeq(s, i + 1, Len(s))
<1>1. a \in Seq(T) /\ Len(a) = i - 1 /\ \A k \in 1 .. i - 1 : a[k] = s[k]
  OBVIOUS
<1>2. b \in Seq(T) /\ Len(b) = Len(s) - i /\ \A k \in 1 .. Len(s) - i : b[k] = s[k + i]
  OBVIOUS
<1>3. RemoveAt(s, i) = a \o b
  BY DEF RemoveAt
<1> HIDE DEF a, b
<1>4. a \o b \in Seq(T) /\ Len(a \o b) = Len(s) - 1
  <2>1. ASSUME NEW u \in Seq(T), NEW v \in Seq(T)
        PROVE  u \o v \in Seq(T) /\ Len(u \o v) = Len(u) + Len(v)
    OBVIOUS
  <2>2. Len(s) \in Nat /\ i \in Nat /\ (i - 1) + (Len(s) - i) = Len(s) - 1
    OBVIOUS
  <2> QED BY <1>1, <1>2, <2>1, <2>2
<1>5. ASSUME NEW k \in 1 .. Len(s) - 1
      PROVE  (a \o b)[k] = IF k < i THEN s[k] ELSE s[k + 1]
  <2>1. CASE k < i
    BY <1>1, <1>2, <2>1
  <2>2. CASE ~(k < i)
    <3>1. k - (i - 1) \in 1 .. Len(s) - i /\ k - (i - 1) + i = k + 1
      BY <2>2
    <3>2. (a \o b)[k] = b[k - (i - 1)]
      BY <1>1, <1>2, <2>2
    <3> QED BY <1>2, <2>2, <3>1, <3>2
  <2> QED BY <2>1, <2>2
<1> QED BY <1>3, <1>4, <1>5

Stamped == [priority : Priorities, time : Nat, receive : Nat]

\* The first of the oldest is one of the priority, and none is older.
LEMMA OldestFacts ==
    ASSUME items \in Seq(Stamped), NEW p, Has(p)
    PROVE  /\ Oldest(p) \in 1 .. Len(items)
           /\ items[Oldest(p)].priority = p
           /\ \A j \in OfPriority(p) : \/ items[Oldest(p)].time < items[j].time
                                       \/ /\ items[Oldest(p)].time = items[j].time
                                          /\ Oldest(p) <= j
<1> DEFINE Times == {items[k].time : k \in OfPriority(p)}
<1>1. /\ OfPriority(p) \in SUBSET Nat /\ OfPriority(p) /= {}
      /\ \A k \in OfPriority(p) : k \in 1 .. Len(items) /\ items[k].priority = p
                                  /\ items[k].time \in Nat
  <2>1. DOMAIN items = 1 .. Len(items) /\ \A k \in 1 .. Len(items) : items[k] \in Stamped
    OBVIOUS
  <2>2. \A k \in 1 .. Len(items) : k \in Nat /\ items[k].time \in Nat
    BY <2>1 DEF Stamped
  <2> QED BY <2>1, <2>2 DEF OfPriority, Has
<1>2. PICK n \in Times : \A m \in Times : n <= m
  <2>1. Times \in SUBSET Nat /\ Times /= {}
    BY <1>1
  <2> HIDE DEF Times
  <2> QED BY <2>1, LeastNatural
<1> DEFINE First == {k \in OfPriority(p) : items[k].time = n}
<1>3. PICK k \in First : \A j \in First : k <= j
  <2>1. First \in SUBSET Nat /\ First /= {}
    BY <1>1, <1>2
  <2> HIDE DEF First
  <2> QED BY <2>1, LeastNatural
<1>4. \A j \in OfPriority(p) : \/ items[k].time < items[j].time
                               \/ items[k].time = items[j].time /\ k <= j
  <2> SUFFICES ASSUME NEW j \in OfPriority(p), ~(items[k].time < items[j].time)
               PROVE  items[k].time = items[j].time /\ k <= j
    OBVIOUS
  <2>1. items[k].time = n /\ n <= items[j].time /\ items[j].time \in Nat /\ n \in Nat
    BY <1>1, <1>2, <1>3
  <2>2. items[j].time = n
    BY <2>1
  <2> QED BY <1>3, <2>1, <2>2
<1>5. Oldest(p) \in OfPriority(p)
      /\ \A j \in OfPriority(p) : \/ items[Oldest(p)].time < items[j].time
                                  \/ /\ items[Oldest(p)].time = items[j].time
                                     /\ Oldest(p) <= j
  BY <1>3, <1>4 DEF Oldest
<1> QED BY <1>1, <1>5

\* An item that is removed is one of its priority, and no other leaves.
LEMMA RemovedFacts ==
    ASSUME NEW T, items \in Seq(T), NEW i \in 1 .. Len(items)
    PROVE  \A q : q /= items[i].priority =>
              (\E k \in DOMAIN RemoveAt(items, i) : RemoveAt(items, i)[k].priority = q)
                <=> Has(q)
<1> DEFINE r == RemoveAt(items, i)
<1>1. /\ r \in Seq(T) /\ Len(r) = Len(items) - 1
      /\ \A k \in 1 .. Len(items) - 1 : r[k] = IF k < i THEN items[k] ELSE items[k + 1]
  BY RemoveAtFacts
<1> HIDE DEF r
<1> SUFFICES ASSUME NEW q, q /= items[i].priority
             PROVE  (\E k \in DOMAIN r : r[k].priority = q) <=> Has(q)
  BY DEF r
<1>2. ASSUME NEW k \in DOMAIN r, r[k].priority = q PROVE Has(q)
  <2>1. k \in 1 .. Len(items) - 1 /\ (r[k] = items[k] \/ r[k] = items[k + 1])
    BY <1>1
  <2>2. k \in DOMAIN items /\ k + 1 \in DOMAIN items
    BY <2>1
  <2> QED BY <1>2, <2>1, <2>2 DEF Has, OfPriority
<1>3. ASSUME Has(q) PROVE \E k \in DOMAIN r : r[k].priority = q
  <2>1. PICK k \in 1 .. Len(items) : items[k].priority = q
    BY <1>3 DEF Has, OfPriority
  <2>2. CASE k < i
    <3>1. k \in 1 .. Len(items) - 1 /\ r[k] = items[k]
      BY <1>1, <2>2
    <3> QED BY <1>1, <2>1, <3>1
  <2>3. CASE k > i
    <3>1. k - 1 \in 1 .. Len(items) - 1 /\ ~(k - 1 < i) /\ (k - 1) + 1 = k
      BY <2>3
    <3>2. r[k - 1] = items[k]
      BY <1>1, <3>1
    <3> QED BY <1>1, <2>1, <3>1, <3>2
  <2>4. k /= i
    BY <2>1
  <2> QED BY <2>2, <2>3, <2>4
<1> QED BY <1>2, <1>3

-----------------------------------------------------------------------------
(* Counters that wrap.                                                       *)

LEMMA Scaled ==
    ASSUME NEW M \in Nat \ {0}, NEW a \in Nat, NEW b \in Nat
    PROVE  /\ M * a \in Nat
           /\ M * (a + b) = M * a + M * b
           /\ M * (a + 1) = M * a + M
           /\ a < b => M * a + M <= M * b
<1>1. M * a \in Nat
  OBVIOUS
<1>2. M * (a + b) = M * a + M * b
  OBVIOUS
<1>3. M * (a + 1) = M * a + M
  OBVIOUS
<1>4. a < b => M * a + M <= M * b
  OBVIOUS
<1> QED BY <1>1, <1>2, <1>3, <1>4

LEMMA Divided ==
    ASSUME NEW M \in Nat \ {0}, NEW x \in Nat
    PROVE  /\ x \div M \in Nat
           /\ x % M \in 0 .. M - 1
           /\ x = M * (x \div M) + (x % M)
<1>1. x \div M \in Nat
  OBVIOUS
<1>2. x % M \in 0 .. M - 1
  OBVIOUS
<1>3. x = M * (x \div M) + (x % M)
  OBVIOUS
<1> QED BY <1>1, <1>2, <1>3

\* There is one remainder.
LEMMA Remainder ==
    ASSUME NEW M \in Nat \ {0}, NEW q \in Nat, NEW r \in 0 .. M - 1
    PROVE  (M * q + r) % M = r
<1> DEFINE x == M * q + r
           d == x \div M
           e == x % M
<1>1. x \in Nat /\ M * q \in Nat
  BY Scaled
<1>2. d \in Nat /\ e \in 0 .. M - 1 /\ x = M * d + e
  <2> HIDE DEF x
  <2> QED BY <1>1, Divided
<1>3. M * q + r = M * d + e /\ M * d \in Nat
  BY <1>2, Scaled
<1> HIDE DEF x, d, e
<1>4. CASE q < d
  <2>1. M * q + M <= M * d
    BY <1>2, <1>4, Scaled
  <2> QED BY <1>1, <1>2, <1>3, <2>1
<1>5. CASE d < q
  <2>1. M * d + M <= M * q
    BY <1>2, <1>5, Scaled
  <2> QED BY <1>1, <1>2, <1>3, <2>1
<1>6. CASE d = q
  <2>1. M * d = M * q
    BY <1>6
  <2>2. e = r
    BY <1>1, <1>2, <1>3, <2>1
  <2> QED BY <2>2 DEF e, x
<1> QED BY <1>2, <1>4, <1>5, <1>6

\* A counter may wrap before it is added or after.
LEMMA WrapsInSum ==
    ASSUME NEW M \in Nat \ {0}, NEW a \in Nat, NEW b \in Nat
    PROVE  (a + (b % M)) % M = (a + b) % M
<1> DEFINE d == b \div M
           e == b % M
<1>1. d \in Nat /\ e \in 0 .. M - 1 /\ b = M * d + e
  BY Divided
<1> HIDE DEF d, e
<1> DEFINE c == (a + e) \div M
           f == (a + e) % M
<1>2. c \in Nat /\ f \in 0 .. M - 1 /\ a + e = M * c + f
  <2>1. a + e \in Nat
    BY <1>1
  <2> QED BY <2>1, Divided
<1> HIDE DEF c, f
<1>3. M * (d + c) = M * d + M * c /\ M * d \in Nat /\ M * c \in Nat /\ d + c \in Nat
  BY <1>1, <1>2, Scaled
<1>4. a + b = M * (d + c) + f
  BY <1>1, <1>2, <1>3
<1>5. (a + b) % M = f
  BY <1>2, <1>3, <1>4, Remainder
<1> QED BY <1>5 DEF f, e

-----------------------------------------------------------------------------
(* The operations of the queue.                                              *)

QueueTyped == items \in Seq(Items) /\ QueueTypeOK

LEMMA ItemsStamped ==
    ASSUME items \in Seq(Items)
    PROVE  items \in Seq(Stamped) /\ \A k \in 1 .. Len(items) : items[k] \in Items
<1>1. TimeMod \in Nat \ {0}
  BY RouterAssumption
<1>2. 0 .. TimeMod - 1 \subseteq Nat
  BY <1>1
<1>3. Items \subseteq Stamped
  BY <1>2 DEF Items, Stamped
<1> QED BY <1>3

LEMMA PriorityFacts ==
    /\ PriorityCount \in Nat /\ PriorityCount > 0
    /\ Priorities \subseteq Nat
    /\ \A p \in Nat : p < PriorityCount <=> p \in Priorities
    /\ \A p \in Priorities : Quota[p] \in Nat /\ Quota[p] > 0
    /\ Capacity \in Nat /\ Capacity > 0
<1> QED BY QueueAssumption DEF Priorities

\* Who gives way to an item of priority p: the least important of the queue.
LEMMA EvictedFacts ==
    ASSUME QueueTyped, NEW p \in Priorities, Evictable(p) /= {}
    PROVE  LET e == Greatest(Evictable(p))
               i == Oldest(e)
           IN  /\ e \in Priorities /\ e > 0 /\ p <= e /\ Has(e)
               /\ \A q \in Priorities : Has(q) => q <= e
               /\ i \in 1 .. Len(items) /\ items[i].priority = e
<1> DEFINE e == Greatest(Evictable(p))
           i == Oldest(e)
<1>1. Evictable(p) \in SUBSET Nat /\ \A q \in Evictable(p) : q <= PriorityCount
  BY PriorityFacts DEF Evictable, Priorities
<1>2. e \in Evictable(p) /\ \A q \in Evictable(p) : e >= q
  BY <1>1, PriorityFacts, GreatestFacts
<1>3. e \in Priorities /\ e > 0 /\ p <= e /\ Has(e)
  BY <1>2 DEF Evictable
<1>4. ASSUME NEW q \in Priorities, Has(q) PROVE q <= e
  <2>1. CASE q \in Evictable(p)
    BY <1>2, <1>3, <2>1, PriorityFacts
  <2>2. CASE q \notin Evictable(p)
    <3>1. ~(q >= p) \/ ~(q > 0)
      BY <1>4, <2>2 DEF Evictable
    <3>2. q \in Nat /\ p \in Nat /\ e \in Nat
      BY <1>3, PriorityFacts
    <3> HIDE DEF e
    <3> QED BY <1>3, <3>1, <3>2
  <2> QED BY <2>1, <2>2
<1>5. i \in 1 .. Len(items) /\ items[i].priority = e
  BY <1>3, ItemsStamped, OldestFacts DEF QueueTyped
<1> QED BY <1>3, <1>4, <1>5

\* The array after an eviction.
LEMMA EvictionFacts ==
    ASSUME QueueTyped, NEW item \in Items, EnqueueEvicts(item)
    PROVE  \E i \in 1 .. Len(items) :
              /\ items' = Append(RemoveAt(items, i), item)
              /\ items[i].priority = Greatest(Evictable(item.priority))
              /\ RemoveAt(items, i) \in Seq(Items)
              /\ Len(items') = Len(items)
<1>1. item.priority \in Priorities
  BY DEF Items
<1>2. PICK i \in 1 .. Len(items) : /\ i = Oldest(Greatest(Evictable(item.priority)))
                                   /\ items[i].priority = Greatest(Evictable(item.priority))
  BY <1>1, EvictedFacts DEF EnqueueEvicts
<1>3. RemoveAt(items, i) \in Seq(Items) /\ Len(RemoveAt(items, i)) = Len(items) - 1
  BY RemoveAtFacts DEF QueueTyped
<1>4. items' = Append(RemoveAt(items, i), item)
  BY <1>2 DEF EnqueueEvicts
<1>5. Len(items') = Len(items)
  BY <1>3, <1>4 DEF QueueTyped
<1> QED BY <1>2, <1>3, <1>4, <1>5

LEMMA EnqueueTyped ==
    ASSUME QueueTyped, NEW item \in Items, Enqueue(item) \/ EnqueueEvicts(item)
    PROVE  /\ QueueTyped'
           /\ Enqueue(item) => Len(items') = Len(items) + 1
           /\ EnqueueEvicts(item) => Len(items') = Len(items)
<1>1. CASE Enqueue(item)
  <2>1. items' \in Seq(Items) /\ Len(items') = Len(items) + 1 /\ Len(items') <= Capacity
    BY <1>1, PriorityFacts DEF Enqueue, QueueTyped
  <2>2. ~EnqueueEvicts(item)
    BY <1>1, PriorityFacts DEF Enqueue, EnqueueEvicts, QueueTyped
  <2> QED BY <1>1, <2>1, <2>2 DEF Enqueue, QueueTyped, QueueTypeOK
<1>2. CASE EnqueueEvicts(item)
  <2>1. items' \in Seq(Items) /\ Len(items') = Len(items)
    BY <1>2, EvictionFacts
  <2>2. passed' \in [Priorities -> Nat]
    BY <1>2 DEF EnqueueEvicts, StillWaiting, QueueTyped, QueueTypeOK
  <2>3. ~Enqueue(item)
    BY <1>2, PriorityFacts DEF Enqueue, EnqueueEvicts, QueueTyped
  <2> QED BY <1>2, <2>1, <2>2, <2>3 DEF EnqueueEvicts, QueueTyped, QueueTypeOK
<1> QED BY <1>1, <1>2

NoTurns == [q \in Priorities |-> 0]

\* Whose turn it is: the first of the rest of the round, or of a new one.
LEMMA TurnFacts ==
    ASSUME QueueTyped, Dequeue
    PROVE  \E p \in Priorities :
              /\ Has(p)
              /\ \/ /\ Serve(p, quota_used)
                    /\ p \in ThisRound
                    /\ \A q \in ThisRound : p <= q
                 \/ /\ Serve(p, NoTurns)
                    /\ ThisRound = {}
                    /\ \A q \in Priorities : Has(q) => p <= q
<1>1. ThisRound \in SUBSET Nat /\ NextRound \in SUBSET Nat
  BY PriorityFacts DEF ThisRound, NextRound
<1>2. CASE ThisRound /= {} /\ Serve(Least(ThisRound), quota_used)
  <2>1. PICK p : p = Least(ThisRound)
    OBVIOUS
  <2>2. p \in ThisRound /\ \A q \in ThisRound : p <= q
    BY <1>1, <1>2, <2>1, LeastFacts
  <2> QED BY <1>2, <2>1, <2>2 DEF ThisRound
<1>3. CASE ThisRound = {} /\ Serve(Least(NextRound), NoTurns)
  <2>1. NextRound /= {}
    <3>1. 1 \in 1 .. Len(items) /\ items[1].priority \in Priorities
      BY ItemsStamped DEF QueueTyped, Dequeue, Items
    <3>2. Has(items[1].priority)
      BY <3>1 DEF Has, OfPriority, QueueTyped
    <3> QED BY <3>1, <3>2 DEF NextRound
  <2>2. PICK p : p = Least(NextRound)
    OBVIOUS
  <2>3. p \in NextRound /\ \A q \in NextRound : p <= q
    BY <1>1, <2>1, <2>2, LeastFacts
  <2> QED BY <1>3, <2>2, <2>3 DEF NextRound
<1> QED BY <1>2, <1>3 DEF Dequeue, NoTurns

LEMMA ServeTyped ==
    ASSUME QueueTyped, NEW p \in Priorities, Has(p),
           NEW used \in [Priorities -> Nat], Serve(p, used), used[p] < Quota[p],
           \A q \in Priorities : used[q] <= Quota[q]
    PROVE  QueueTyped' /\ Len(items') = Len(items) - 1
<1>1. Oldest(p) \in 1 .. Len(items)
  BY ItemsStamped, OldestFacts DEF QueueTyped
<1>2. items' \in Seq(Items) /\ Len(items') = Len(items) - 1
  BY <1>1, RemoveAtFacts DEF QueueTyped, Serve
<1>3. quota_used' \in [Priorities -> Nat] /\ \A q \in Priorities : quota_used'[q] <= Quota[q]
  BY PriorityFacts DEF Serve
<1>4. scheduler_priority' \in 0 .. PriorityCount
  BY PriorityFacts DEF Serve, Priorities
<1>5. passed' \in [Priorities -> Nat]
  BY DEF Serve, QueueTyped, QueueTypeOK
<1>6. Len(items') <= Capacity
  BY <1>2, PriorityFacts DEF QueueTyped, QueueTypeOK
<1> QED BY <1>2, <1>3, <1>4, <1>5, <1>6 DEF QueueTyped, QueueTypeOK

LEMMA DequeueTyped ==
    ASSUME QueueTyped, Dequeue
    PROVE  QueueTyped' /\ Len(items') = Len(items) - 1
<1>1. quota_used \in [Priorities -> Nat] /\ NoTurns \in [Priorities -> Nat]
  BY DEF QueueTyped, QueueTypeOK, NoTurns
<1>2. \A q \in Priorities : NoTurns[q] = 0 /\ NoTurns[q] < Quota[q] /\ NoTurns[q] <= Quota[q]
  BY PriorityFacts DEF NoTurns
<1>3. \A q \in Priorities : quota_used[q] <= Quota[q]
  BY DEF QueueTyped, QueueTypeOK
<1>4. \A q \in ThisRound : quota_used[q] < Quota[q]
  BY DEF ThisRound
<1> QED BY <1>1, <1>2, <1>3, <1>4, TurnFacts, ServeTyped

-----------------------------------------------------------------------------
(* The report of the gateway adds up.                                        *)

LEMMA BumpFacts ==
    ASSUME NEW c \in 0 .. CountMod - 1
    PROVE  /\ c \in Nat
           /\ Bump(c) \in 0 .. CountMod - 1
           /\ \A a \in Nat : (a + Bump(c)) % CountMod = (a + (c + 1)) % CountMod
<1>1. CountMod \in Nat \ {0} /\ c \in Nat /\ c + 1 \in Nat
  BY RouterAssumption
<1>2. Bump(c) \in 0 .. CountMod - 1
  BY <1>1, Divided DEF Bump
<1>3. ASSUME NEW a \in Nat PROVE (a + Bump(c)) % CountMod = (a + (c + 1)) % CountMod
  BY <1>1, WrapsInSum DEF Bump
<1> QED BY <1>1, <1>2, <1>3

Counts == /\ submitted \in 0 .. CountMod - 1
          /\ routed \in 0 .. CountMod - 1
          /\ reclaimed \in 0 .. CountMod - 1

AddsUp == submitted = (Len(items) + routed + reclaimed) % CountMod

\* One of the two counters is incremented, and the number of queued items
\* changes by what is submitted less that one.
LEMMA OneCounted ==
    ASSUME QueueTyped, QueueTyped', Counts, AddsUp,
           \/ Reclaimed
           \/ routed' = Bump(routed) /\ UNCHANGED reclaimed,
           \/ submitted' = Bump(submitted) /\ Len(items') = Len(items)
           \/ UNCHANGED submitted /\ Len(items') = Len(items) - 1
    PROVE  Counts' /\ AddsUp'
<1>1. /\ submitted \in Nat /\ routed \in Nat /\ reclaimed \in Nat
      /\ Len(items) \in Nat /\ Len(items') \in Nat
      /\ CountMod \in Nat \ {0}
  BY RouterAssumption DEF Counts, QueueTyped
<1>2. Counts'
  BY BumpFacts DEF Counts, Reclaimed
<1> DEFINE n == Len(items) + routed + reclaimed
           m == Len(items') + routed + reclaimed
<1>3. n \in Nat /\ m \in Nat /\ submitted = n % CountMod
  BY <1>1 DEF AddsUp
<1>4. (Len(items') + routed' + reclaimed') % CountMod = (m + 1) % CountMod
  <2>1. CASE Reclaimed
    <3>1. /\ Len(items') + routed \in Nat
          /\ m + 1 = (Len(items') + routed) + (reclaimed + 1)
      BY <1>1
    <3>2. routed' = routed /\ reclaimed' = Bump(reclaimed)
      BY <2>1 DEF Reclaimed
    <3> QED BY <3>1, <3>2, BumpFacts DEF Counts
  <2>2. CASE routed' = Bump(routed) /\ UNCHANGED reclaimed
    <3>1. Bump(routed) \in Nat
      BY <1>1, BumpFacts DEF Counts
    <3>2. /\ Len(items') + reclaimed \in Nat
          /\ m + 1 = (Len(items') + reclaimed) + (routed + 1)
          /\ Len(items') + Bump(routed) + reclaimed
               = (Len(items') + reclaimed) + Bump(routed)
      BY <1>1, <3>1
    <3>3. routed' = Bump(routed) /\ reclaimed' = reclaimed
      BY <2>2
    <3> QED BY <3>2, <3>3, BumpFacts DEF Counts
  <2> QED BY <2>1, <2>2
<1>5. submitted' = (m + 1) % CountMod
  <2>1. CASE submitted' = Bump(submitted) /\ Len(items') = Len(items)
    <3>1. m = n
      BY <2>1
    <3>2. (1 + (n % CountMod)) % CountMod = (1 + n) % CountMod
      BY <1>1, <1>3, WrapsInSum
    <3>3. 1 + (n % CountMod) = submitted + 1 /\ 1 + n = n + 1
      BY <1>1, <1>3
    <3> HIDE DEF n, m
    <3> QED BY <2>1, <3>1, <3>2, <3>3 DEF Bump
  <2>2. CASE UNCHANGED submitted /\ Len(items') = Len(items) - 1
    <3>1. m + 1 = n
      BY <1>1, <2>2
    <3> QED BY <1>3, <2>2, <3>1
  <2> QED BY <2>1, <2>2
<1> QED BY <1>2, <1>4, <1>5 DEF AddsUp

LEMMA QueuedCounted ==
    ASSUME QueueTyped, QueueTyped', Counts, AddsUp, Len(items') = Len(items) + 1,
           submitted' = Bump(submitted), UNCHANGED <<routed, reclaimed>>
    PROVE  Counts' /\ AddsUp'
<1>1. /\ submitted \in Nat /\ routed \in Nat /\ reclaimed \in Nat
      /\ Len(items) \in Nat /\ CountMod \in Nat \ {0}
  BY RouterAssumption DEF Counts, QueueTyped
<1>2. Counts'
  BY BumpFacts DEF Counts
<1> DEFINE n == Len(items) + routed + reclaimed
<1>3. n \in Nat /\ submitted = n % CountMod
  BY <1>1 DEF AddsUp
<1>4. Len(items') + routed' + reclaimed' = n + 1
  BY <1>1
<1>5. (1 + (n % CountMod)) % CountMod = (1 + n) % CountMod
  BY <1>1, <1>3, WrapsInSum
<1>6. 1 + (n % CountMod) = submitted + 1 /\ 1 + n = n + 1
  BY <1>1, <1>3
<1> HIDE DEF n
<1> QED BY <1>2, <1>4, <1>5, <1>6 DEF Bump, AddsUp

-----------------------------------------------------------------------------
(* What a step of the router does to its queue and its counters.             *)

Clock == now \in 0 .. TimeMod - 1

Counted == Reclaimed \/ (routed' = Bump(routed) /\ UNCHANGED reclaimed)

Grows == \E item \in Items :
            /\ item.time = now
            /\ Enqueue(item)
            /\ submitted' = Bump(submitted) /\ UNCHANGED <<routed, reclaimed>>
Evicts == \E item \in Items :
            /\ item.time = now
            /\ EnqueueEvicts(item)
            /\ submitted' = Bump(submitted) /\ Reclaimed
Refuses == UNCHANGED queueVars /\ submitted' = Bump(submitted) /\ Reclaimed
Shrinks == Dequeue /\ UNCHANGED submitted /\ Counted
Rests == UNCHANGED <<queueVars, counters>>

LEMMA QueueSteps ==
    ASSUME Clock, [Next]_vars
    PROVE  /\ Clock'
           /\ \/ UNCHANGED now /\ (Grows \/ Evicts \/ Refuses \/ Shrinks)
              \/ Rests
           /\ ~Wraps => now <= now'
<1>1. TimeMod \in Nat \ {0} /\ now \in Nat
  BY RouterAssumption DEF Clock
<1>2. ASSUME NEW x \in Inputs, Submit(x)
      PROVE  UNCHANGED now /\ (Grows \/ Evicts \/ Refuses)
  <2>1. PICK late \in {0, 1} :
           LET receive == (now + TimeMod - late) % TimeMod
           IN  SubmitReclaims(x, receive) \/ SubmitQueues(x, receive)
    BY <1>2 DEF Submit
  <2> DEFINE receive == (now + TimeMod - late) % TimeMod
  <2>2. receive \in 0 .. TimeMod - 1
    <3>1. now + TimeMod - late \in Nat
      BY <1>1
    <3> QED BY <1>1, <3>1, Divided
  <2>3. submitted' = Bump(submitted) /\ UNCHANGED now
    BY <1>2 DEF Submit
  <2>4. CASE SubmitReclaims(x, receive)
    BY <2>3, <2>4 DEF SubmitReclaims, Refuses
  <2>5. CASE SubmitQueues(x, receive)
    <3>1. x.priority \in Priorities
      BY <2>5 DEF SubmitQueues, Routable, Invalid
    <3>2. PICK item : item = ItemOf(x, receive)
      OBVIOUS
    <3> HIDE DEF receive
    <3>3. item \in Items /\ item.time = now
      BY <2>2, <3>1, <3>2 DEF Clock, ItemOf, Items
    <3>4. CASE Enqueue(item) /\ UNCHANGED <<routed, reclaimed>>
      BY <2>3, <3>3, <3>4 DEF Grows
    <3>5. CASE EnqueueEvicts(item) /\ Reclaimed
      BY <2>3, <3>3, <3>5 DEF Evicts
    <3>6. CASE EnqueueFull(item) /\ Reclaimed
      BY <2>3, <3>6 DEF Refuses, EnqueueFull
    <3> QED BY <2>3, <2>5, <3>2, <3>4, <3>5, <3>6 DEF SubmitQueues
  <2> QED BY <2>1, <2>4, <2>5
<1>3. ASSUME NEW x \in Inputs, NotCommitted(x)
      PROVE  Rests /\ UNCHANGED now
  BY <1>3 DEF NotCommitted, Rests
<1>4. ASSUME Schedule \/ ReclaimQueued PROVE Shrinks /\ UNCHANGED now
  BY <1>4 DEF Schedule, ReclaimQueued, Shrinks, Counted
<1>5. CASE Tick
  <2>1. now + 1 \in Nat /\ now' = (now + 1) % TimeMod
    BY <1>1, <1>5 DEF Tick
  <2>2. now' \in 0 .. TimeMod - 1
    BY <1>1, <2>1, Divided
  <2>3. ASSUME ~Wraps PROVE now' = now + 1
    <3>1. now + 1 \in 0 .. TimeMod - 1
      BY <1>1, <1>5, <2>3 DEF Tick
    <3>2. now + 1 = TimeMod * 0 + (now + 1)
      BY <1>1
    <3> QED BY <1>1, <2>1, <3>1, <3>2, Remainder
  <2>4. ~Wraps => now <= now'
    BY <1>1, <2>3
  <2>5. Rests
    BY <1>5 DEF Tick, Rests
  <2> QED BY <2>2, <2>4, <2>5 DEF Clock
<1>6. CASE UNCHANGED vars
  BY <1>6 DEF vars, Rests, Clock
<1>7. UNCHANGED now => Clock' /\ now <= now'
  BY <1>1 DEF Clock
<1> QED BY <1>2, <1>3, <1>4, <1>5, <1>6, <1>7, <1>1 DEF Next, Schedule, ReclaimQueued, vars

CountInv == QueueTyped /\ Clock /\ Counts /\ AddsUp

LEMMA CountInit == Init => CountInv
<1> SUFFICES ASSUME Init PROVE CountInv
  OBVIOUS
<1>1. QueueTyped
  BY PriorityFacts DEF Init, QueueInit, QueueTyped, QueueTypeOK
<1>2. TimeMod \in Nat \ {0} /\ CountMod \in Nat \ {0}
  BY RouterAssumption
<1>3. Clock /\ Counts
  BY <1>2 DEF Init, Clock, Counts
<1>4. (0 + 0 + 0) % CountMod = 0
  BY <1>2
<1>5. AddsUp
  BY <1>4 DEF Init, QueueInit, AddsUp
<1> QED BY <1>1, <1>3, <1>5 DEF CountInv

LEMMA CountStep == CountInv /\ [Next]_vars => CountInv'
<1> SUFFICES ASSUME CountInv, [Next]_vars PROVE CountInv'
  OBVIOUS
<1> USE DEF CountInv
<1>1. Clock'
  BY QueueSteps
<1>2. CASE Grows
  BY <1>1, <1>2, EnqueueTyped, QueuedCounted DEF Grows
<1>3. CASE Evicts
  BY <1>1, <1>3, EnqueueTyped, OneCounted DEF Evicts
<1>4. CASE Refuses
  <2>1. QueueTyped' /\ Len(items') = Len(items)
    BY <1>4 DEF Refuses, queueVars, QueueTyped, QueueTypeOK
  <2> QED BY <1>1, <1>4, <2>1, OneCounted DEF Refuses
<1>5. CASE Shrinks
  BY <1>1, <1>5, DequeueTyped, OneCounted DEF Shrinks, Counted
<1>6. CASE Rests
  BY <1>1, <1>6 DEF Rests, queueVars, counters, QueueTyped, QueueTypeOK, Counts, AddsUp
<1> QED BY <1>2, <1>3, <1>4, <1>5, <1>6, QueueSteps

\* Every descriptor submitted is queued, routed or on its way back, and counted
\* once as that, for every capacity, every quota and every width of the counters.
THEOREM RouterAccounts == Spec => []NothingUnaccounted
<1>1. Init => CountInv
  BY CountInit
<1>2. CountInv /\ [Next]_vars => CountInv'
  BY CountStep
<1>3. CountInv /\ RatingInv => NothingUnaccounted
  BY DEF CountInv, QueueTyped, Clock, Counts, AddsUp, RatingInv, RatingTypeOK,
         NothingUnaccounted, TypeOK
<1> QED BY <1>1, <1>2, <1>3, RatingInvariant, PTL DEF Spec

-----------------------------------------------------------------------------
(* The order of a priority.  The array is in the order of arrival and stays   *)
(* so, whatever is taken out of it; the time stamps agree with that as long   *)
(* as the clock has not wrapped.                                             *)

Sorted(s) == \A j, k \in DOMAIN s : j < k => s[j].time <= s[k].time
NotAfter(s, t) == \A k \in DOMAIN s : s[k].time <= t

LEMMA TimesNatural ==
    ASSUME NEW s \in Seq(Items)
    PROVE  DOMAIN s = 1 .. Len(s) /\ \A k \in 1 .. Len(s) : k \in Nat /\ s[k].time \in Nat
<1>1. TimeMod \in Nat \ {0}
  BY RouterAssumption
<1>2. \A x \in Items : x.time \in Nat
  BY <1>1 DEF Items
<1> QED BY <1>2

LEMMA RemovedSorted ==
    ASSUME NEW s \in Seq(Items), NEW i \in 1 .. Len(s), NEW t, Sorted(s), NotAfter(s, t)
    PROVE  Sorted(RemoveAt(s, i)) /\ NotAfter(RemoveAt(s, i), t)
<1> DEFINE r == RemoveAt(s, i)
           At(k) == IF k < i THEN k ELSE k + 1
<1>1. /\ Len(s) \in Nat /\ i \in Nat
      /\ DOMAIN s = 1 .. Len(s) /\ DOMAIN r = 1 .. Len(s) - 1
  BY RemoveAtFacts
<1>2. ASSUME NEW k \in 1 .. Len(s) - 1
      PROVE  At(k) \in 1 .. Len(s) /\ r[k] = s[At(k)]
  <2>1. r[k] = IF k < i THEN s[k] ELSE s[k + 1]
    BY RemoveAtFacts
  <2>2. At(k) \in 1 .. Len(s)
    BY <1>1
  <2> QED BY <2>1, <2>2
<1>3. \A j, k \in 1 .. Len(s) - 1 : j < k => At(j) < At(k)
  BY <1>1
<1> HIDE DEF r, At
<1>4. Sorted(r)
  BY <1>1, <1>2, <1>3 DEF Sorted
<1>5. NotAfter(r, t)
  BY <1>1, <1>2 DEF NotAfter
<1> QED BY <1>4, <1>5 DEF r

LEMMA AppendedSorted ==
    ASSUME NEW s \in Seq(Items), NEW x \in Items, Sorted(s), NotAfter(s, x.time)
    PROVE  Sorted(Append(s, x)) /\ NotAfter(Append(s, x), x.time)
<1>1. /\ Len(s) \in Nat /\ DOMAIN s = 1 .. Len(s)
      /\ DOMAIN Append(s, x) = 1 .. Len(s) + 1
      /\ \A k \in 1 .. Len(s) : Append(s, x)[k] = s[k]
      /\ Append(s, x)[Len(s) + 1] = x
  OBVIOUS
<1>2. x.time \in Nat
  BY RouterAssumption DEF Items
<1>3. \A k \in 1 .. Len(s) + 1 : k \in 1 .. Len(s) \/ k = Len(s) + 1
  BY <1>1
<1>4. x.time <= x.time
  BY <1>2
<1>5. NotAfter(Append(s, x), x.time)
  BY <1>1, <1>3, <1>4 DEF NotAfter
<1>6. \A j, k \in 1 .. Len(s) + 1 : j < k => j \in 1 .. Len(s)
  BY <1>1
<1>7. Sorted(Append(s, x))
  BY <1>1, <1>3, <1>6 DEF Sorted, NotAfter
<1> QED BY <1>5, <1>7

StampInv == Sorted(items) /\ NotAfter(items, now)

LEMMA StampStep ==
    ASSUME ~Wraps, CountInv, CountInv', StampInv, [Next]_vars
    PROVE  StampInv'
<1>1. /\ now \in Nat /\ now' \in Nat /\ now <= now'
      /\ items \in Seq(Items) /\ items' \in Seq(Items)
      /\ QueueTyped
  BY QueueSteps, RouterAssumption DEF CountInv, QueueTyped, Clock
<1>2. ASSUME Sorted(items'), NotAfter(items', now) PROVE StampInv'
  <2>1. \A k \in DOMAIN items' : items'[k].time \in Nat
    BY <1>1, TimesNatural
  <2> QED BY <1>1, <1>2, <2>1 DEF StampInv, Sorted, NotAfter
<1>3. ASSUME NEW item \in Items, item.time = now, Enqueue(item) PROVE StampInv'
  <2>1. items' = Append(items, item)
    BY <1>3 DEF Enqueue
  <2> QED BY <1>1, <1>2, <1>3, <2>1, AppendedSorted DEF StampInv
<1>4. ASSUME NEW item \in Items, item.time = now, EnqueueEvicts(item) PROVE StampInv'
  <2>1. PICK i \in 1 .. Len(items) : /\ items' = Append(RemoveAt(items, i), item)
                                     /\ RemoveAt(items, i) \in Seq(Items)
    BY <1>1, <1>4, EvictionFacts
  <2>2. Sorted(RemoveAt(items, i)) /\ NotAfter(RemoveAt(items, i), item.time)
    BY <1>1, <1>4, RemovedSorted DEF StampInv
  <2> QED BY <1>2, <1>4, <2>1, <2>2, AppendedSorted
<1>5. CASE Dequeue
  <2>1. PICK p \in Priorities : Has(p) /\ items' = RemoveAt(items, Oldest(p))
    BY <1>1, <1>5, TurnFacts DEF Serve
  <2>2. Oldest(p) \in 1 .. Len(items)
    BY <1>1, <2>1, ItemsStamped, OldestFacts
  <2> QED BY <1>1, <1>2, <2>1, <2>2, RemovedSorted DEF StampInv
<1>6. CASE UNCHANGED items
  BY <1>2, <1>6 DEF StampInv
<1> QED BY <1>3, <1>4, <1>5, <1>6, QueueSteps
        DEF CountInv, Grows, Evicts, Refuses, Shrinks, Rests, queueVars

LEMMA StampOrders ==
    ASSUME QueueTyped, StampInv
    PROVE  OldestFirst
<1> SUFFICES ASSUME NEW p \in Priorities, Has(p), NEW k \in OfPriority(p)
             PROVE  Oldest(p) <= k
  BY DEF OldestFirst
<1>1. /\ items \in Seq(Stamped)
      /\ DOMAIN items = 1 .. Len(items)
      /\ \A j \in 1 .. Len(items) : j \in Nat /\ items[j].time \in Nat
  BY ItemsStamped, TimesNatural DEF QueueTyped
<1>2. k \in 1 .. Len(items)
  BY <1>1 DEF OfPriority
<1>3. PICK o \in 1 .. Len(items) : o = Oldest(p)
  BY <1>1, OldestFacts
<1>4. items[o].time < items[k].time \/ o <= k
  BY <1>1, <1>3, OldestFacts
<1>5. k < o => items[k].time <= items[o].time
  BY <1>1, <1>2 DEF StampInv, Sorted
<1> QED BY <1>1, <1>2, <1>3, <1>4, <1>5

\* Within a priority items leave in the order they came, as long as the clock has
\* not wrapped.
THEOREM RouterOldestFirst ==
    ASSUME ~Wraps
    PROVE  Spec => []OldestFirst
<1>1. Init => CountInv /\ StampInv
  BY CountInit DEF Init, QueueInit, StampInv, Sorted, NotAfter
<1>2. CountInv /\ [Next]_vars => CountInv'
  BY CountStep
<1>3. CountInv /\ CountInv' /\ StampInv /\ [Next]_vars => StampInv'
  BY StampStep
<1>4. CountInv /\ StampInv => OldestFirst
  BY StampOrders DEF CountInv
<1> QED BY <1>1, <1>2, <1>3, <1>4, PTL DEF Spec

-----------------------------------------------------------------------------
(* Who loses an item when there is no room.                                  *)

LEMMA SameNotLost ==
    ASSUME items \in Seq(Items), UNCHANGED items, NEW p
    PROVE  ~Lost(p)
<1> DEFINE S == {k \in DOMAIN items : items[k].priority = p}
<1>1. S \subseteq 1 .. Len(items) /\ IsFiniteSet(1 .. Len(items))
  BY FS_Interval
<1>2. IsFiniteSet(S)
  BY <1>1, FS_Subset
<1>3. Cardinality(S) \in Nat
  BY <1>2, FS_CardinalityType
<1>4. Lost(p) <=> Cardinality(S) > Cardinality(S)
  BY DEF Lost
<1> HIDE DEF S
<1> QED BY <1>3, <1>4

\* An eviction takes from one priority only: the items of any other keep their
\* places, but for those that close up.
LEMMA OthersNotLost ==
    ASSUME items \in Seq(Items), NEW item \in Items, NEW i \in 1 .. Len(items),
           items' = Append(RemoveAt(items, i), item),
           NEW p, p /= items[i].priority
    PROVE  ~Lost(p)
<1> DEFINE S == {k \in DOMAIN items : items[k].priority = p}
           T == {k \in DOMAIN items' : items'[k].priority = p}
           At(k) == IF k < i THEN k ELSE k - 1
           f == [k \in S |-> At(k)]
<1>1. /\ RemoveAt(items, i) \in Seq(Items)
      /\ Len(RemoveAt(items, i)) = Len(items) - 1
      /\ \A k \in 1 .. Len(items) - 1 :
            RemoveAt(items, i)[k] = IF k < i THEN items[k] ELSE items[k + 1]
  BY RemoveAtFacts
<1>2. /\ DOMAIN items' = 1 .. Len(items)
      /\ \A k \in 1 .. Len(items) - 1 : items'[k] = RemoveAt(items, i)[k]
  BY <1>1
<1>3. /\ \A k \in S : k \in 1 .. Len(items) /\ items[k].priority = p /\ k /= i
      /\ S \subseteq 1 .. Len(items) /\ T \subseteq 1 .. Len(items)
  BY <1>2
<1>4. ASSUME NEW k \in S PROVE At(k) \in T
  <2>1. k \in 1 .. Len(items) /\ k /= i /\ i \in Nat /\ Len(items) \in Nat
    BY <1>3
  <2>2. CASE k < i
    <3>1. k \in 1 .. Len(items) - 1 /\ k \in DOMAIN items'
      BY <1>2, <2>1, <2>2
    <3>2. items'[k] = items[k]
      BY <1>1, <1>2, <2>2, <3>1
    <3> QED BY <1>3, <2>2, <3>1, <3>2
  <2>3. CASE ~(k < i)
    <3>1. k - 1 \in 1 .. Len(items) - 1 /\ ~(k - 1 < i) /\ (k - 1) + 1 = k
      BY <2>1, <2>3
    <3>2. items'[k - 1] = items[k] /\ k - 1 \in DOMAIN items'
      BY <1>1, <1>2, <3>1
    <3> QED BY <1>3, <2>3, <3>2
  <2> QED BY <2>2, <2>3
<1>5. \A j, k \in S : At(j) = At(k) => j = k
  BY <1>3
<1>6. IsFiniteSet(S) /\ IsFiniteSet(T)
  <2>1. IsFiniteSet(1 .. Len(items))
    BY FS_Interval
  <2> HIDE DEF S, T
  <2> QED BY <1>3, <2>1, FS_Subset
<1> HIDE DEF S, T, At
<1>7. f \in Injection(S, T)
  BY <1>4, <1>5 DEF Injection, IsInjective
<1>8. Cardinality(S) <= Cardinality(T) /\ Cardinality(S) \in Nat /\ Cardinality(T) \in Nat
  BY <1>6, <1>7, FS_Injection, FS_CardinalityType
<1>9. Lost(p) <=> Cardinality(S) > Cardinality(T)
  BY DEF Lost, S, T
<1> QED BY <1>8, <1>9

LEMMA EvictsLeast ==
    ASSUME QueueTyped, NEW item \in Items, EnqueueEvicts(item), NEW p \in Priorities, Lost(p)
    PROVE  p > 0 /\ \A k \in DOMAIN items' : items'[k].priority <= p
<1>1. item.priority \in Priorities /\ items \in Seq(Items)
  BY DEF Items, QueueTyped
<1>2. PICK i \in 1 .. Len(items) :
         /\ items' = Append(RemoveAt(items, i), item)
         /\ items[i].priority = Greatest(Evictable(item.priority))
         /\ RemoveAt(items, i) \in Seq(Items)
         /\ Len(items') = Len(items)
  BY EvictionFacts
<1>3. p = Greatest(Evictable(item.priority))
  BY <1>1, <1>2, OthersNotLost
<1>4. /\ p > 0 /\ item.priority <= p
      /\ \A q \in Priorities : Has(q) => q <= p
  BY <1>1, <1>3, EvictedFacts DEF EnqueueEvicts
<1>5. ASSUME NEW k \in DOMAIN items' PROVE items'[k].priority <= p
  <2>1. /\ Len(RemoveAt(items, i)) = Len(items) - 1
        /\ \A j \in 1 .. Len(items) - 1 :
              RemoveAt(items, i)[j] = IF j < i THEN items[j] ELSE items[j + 1]
    BY <1>1, RemoveAtFacts
  <2>2. Len(items) \in Nat /\ k \in 1 .. Len(items)
    BY <1>1, <1>2, <2>1
  <2>3. CASE k = Len(items)
    <3>1. items'[k] = item
      BY <1>2, <2>1, <2>2, <2>3
    <3> QED BY <1>4, <3>1
  <2>4. CASE k /= Len(items)
    <3>1. k \in 1 .. Len(items) - 1
      BY <2>2, <2>4
    <3>2. items'[k] = RemoveAt(items, i)[k]
      BY <1>2, <2>1, <3>1
    <3>3. PICK j \in 1 .. Len(items) : items'[k] = items[j]
      BY <2>1, <2>2, <3>1, <3>2
    <3>4. items[j].priority \in Priorities
      <4>1. items[j] \in Items
        BY <1>1
      <4> QED BY <4>1 DEF Items
    <3>5. j \in OfPriority(items[j].priority)
      BY <1>1 DEF OfPriority
    <3>6. Has(items[j].priority)
      BY <3>5 DEF Has
    <3> QED BY <1>4, <3>3, <3>4, <3>6
  <2> QED BY <2>3, <2>4
<1> QED BY <1>4, <1>5

\* Whatever makes room for a new item, nothing is lost that is more important
\* than what stays, and nothing of priority 0.
THEOREM RouterLeastLost == Spec => LeastImportantLost
<1> DEFINE Loss == \A p \in Priorities : Lost(p) =>
                      /\ p > 0
                      /\ \A k \in DOMAIN items' : items'[k].priority <= p
<1>1. Init => CountInv
  BY CountInit
<1>2. CountInv /\ [Next]_vars => CountInv'
  BY CountStep
<1>3. CountInv /\ CountInv' /\ [Next]_vars => [Len(items') = Len(items) => Loss]_queueVars
  <2> SUFFICES ASSUME CountInv, [Next]_vars, Len(items') = Len(items) PROVE Loss
    OBVIOUS
  <2>1. Len(items) \in Nat /\ items \in Seq(Items) /\ QueueTyped
    BY DEF CountInv, QueueTyped
  <2>2. CASE UNCHANGED items
    BY <2>1, <2>2, SameNotLost
  <2>3. ASSUME NEW item \in Items, EnqueueEvicts(item) PROVE Loss
    BY <2>1, <2>3, EvictsLeast
  <2>4. ~Grows /\ ~Shrinks
    BY <2>1, EnqueueTyped, DequeueTyped DEF Grows, Shrinks
  <2> QED BY <2>2, <2>3, <2>4, QueueSteps
          DEF CountInv, Evicts, Refuses, Rests, queueVars
<1> QED BY <1>1, <1>2, <1>3, PTL DEF Spec, LeastImportantLost

-----------------------------------------------------------------------------
(* No priority starves.  A turn is a pair of a priority and a number up to    *)
(* its quota.  While p waits, every dequeue takes a turn of another priority  *)
(* that has not been taken since p had its own: the scheduler goes on from    *)
(* where it is and starts a new round only when p, or one before p, is next.  *)

Past(s, u, p, q, m) ==
    IF q = s THEN m <= u[q]
    ELSE IF p < s THEN p < q /\ q < s
    ELSE q < s \/ p < q

Turn(p, q, m) == q \in Priorities /\ q /= p /\ m \in 1 .. Quota[q]

LEMMA SinceFacts ==
    ASSUME NEW p
    PROVE  /\ \A q, m : <<q, m>> \in TurnsOfOthers(p) <=> Turn(p, q, m)
           /\ \A t \in TurnsOfOthers(p) : t = <<t[1], t[2]>>
           /\ \A q, m : <<q, m>> \in TurnsSince(p)
                 <=> Turn(p, q, m) /\ Past(scheduler_priority, quota_used, p, q, m)
           /\ TurnsSince(p) \subseteq TurnsOfOthers(p)
<1>1. \A q, m : <<q, m>> \in TurnsOfOthers(p) <=> Turn(p, q, m)
  BY DEF TurnsOfOthers, Turn
<1>2. \A t \in TurnsOfOthers(p) : t = <<t[1], t[2]>>
  BY DEF TurnsOfOthers
<1>3. \A q, m : <<q, m>> \in TurnsSince(p)
         <=> Turn(p, q, m) /\ Past(scheduler_priority, quota_used, p, q, m)
  BY <1>1 DEF TurnsSince, Past
<1>4. TurnsSince(p) \subseteq TurnsOfOthers(p)
  BY DEF TurnsSince
<1> QED BY <1>1, <1>2, <1>3, <1>4

LEMMA TurnsFinite ==
    ASSUME NEW p
    PROVE  /\ IsFiniteSet(TurnsOfOthers(p)) /\ IsFiniteSet(TurnsSince(p))
           /\ Cardinality(TurnsSince(p)) <= Cardinality(TurnsOfOthers(p))
           /\ Cardinality(TurnsSince(p)) \in Nat
           /\ Cardinality(TurnsOfOthers(p)) \in Nat
<1> DEFINE S == Priorities \ {p}
           f == [q \in S |-> {q} \X (1 .. Quota[q])]
           T == {{q} \X (1 .. Quota[q]) : q \in S}
<1>1. IsFiniteSet(S)
  <2>1. IsFiniteSet(Priorities) /\ S \subseteq Priorities
    BY PriorityFacts, FS_Interval DEF Priorities
  <2> QED BY <2>1, FS_Subset
<1>2. ASSUME NEW q \in S PROVE IsFiniteSet({q} \X (1 .. Quota[q]))
  <2>1. Quota[q] \in Nat
    BY PriorityFacts
  <2>2. IsFiniteSet(1 .. Quota[q])
    BY <2>1, FS_Interval
  <2>3. IsFiniteSet({q})
    BY FS_Singleton
  <2> QED BY <2>2, <2>3, FS_Product
<1>3. IsFiniteSet(T)
  <2>1. f \in Surjection(S, T)
    BY DEF Surjection
  <2> HIDE DEF S, T, f
  <2> QED BY <1>1, <2>1, FS_Surjection
<1>4. IsFiniteSet(TurnsOfOthers(p))
  <2>1. \A U \in T : IsFiniteSet(U)
    BY <1>2
  <2>2. TurnsOfOthers(p) = UNION T
    BY DEF TurnsOfOthers
  <2> HIDE DEF S, T, f
  <2> QED BY <1>3, <2>1, <2>2, FS_UNION
<1> QED BY <1>4, SinceFacts, FS_Subset, FS_CardinalityType

\* The bound follows from the invariant.
LEMMA WaitBounded ==
    ASSUME QueueTyped, WaitInv
    PROVE  BoundedWait
<1> SUFFICES ASSUME NEW p \in Priorities
             PROVE  passed[p] <= Cardinality(TurnsOfOthers(p))
  BY DEF BoundedWait
<1>1. passed[p] \in Nat /\ passed[p] <= Cardinality(TurnsSince(p))
  BY DEF QueueTyped, QueueTypeOK, WaitInv
<1> QED BY <1>1, TurnsFinite

\* Where the scheduler is after an item of p0.
Served(p0, used) ==
    /\ p0 \in Priorities
    /\ used \in [Priorities -> Nat]
    /\ used[p0] < Quota[p0]
    /\ quota_used' = [used EXCEPT ![p0] = used[p0] + 1]
    /\ \/ scheduler_priority' = p0 + 1
       \/ scheduler_priority' = p0 /\ used[p0] + 1 < Quota[p0]

\* The next one is in the rest of the round, and p is not before it.
InRound(p0) ==
    /\ Served(p0, quota_used)
    /\ scheduler_priority <= p0

\* The round is over for all that wait, and a new one begins.
NewRound(p0) ==
    Served(p0, NoTurns)

RoundTyped ==
    /\ quota_used \in [Priorities -> Nat]
    /\ scheduler_priority \in Nat
    /\ RoundInv

LEMMA RoundStep ==
    ASSUME RoundTyped, NEW p0, InRound(p0) \/ NewRound(p0)
    PROVE  RoundInv'
<1> SUFFICES ASSUME NEW p \in Priorities
             PROVE  /\ p > scheduler_priority' => quota_used'[p] = 0
                    /\ p = scheduler_priority' => quota_used'[p] < Quota[p]
  BY DEF RoundInv
<1>1. p \in Nat /\ p0 \in Nat /\ p0 \in Priorities /\ Quota[p] > 0 /\ Quota[p] \in Nat
  BY PriorityFacts DEF InRound, NewRound, Served
<1>2. CASE p = p0
  BY <1>1, <1>2, PriorityFacts DEF InRound, NewRound, Served
<1>3. CASE p /= p0 /\ NewRound(p0)
  <2>1. quota_used'[p] = 0
    BY <1>3 DEF NewRound, Served, NoTurns
  <2> QED BY <1>1, <2>1
<1>4. CASE p /= p0 /\ InRound(p0)
  <2>1. quota_used'[p] = quota_used[p] /\ scheduler_priority <= p0
    BY <1>4 DEF InRound, Served
  <2>2. p > p0 => quota_used[p] = 0
    BY <1>1, <2>1 DEF RoundTyped, RoundInv
  <2>3. scheduler_priority' = p0 + 1 \/ scheduler_priority' = p0
    BY <1>4 DEF InRound, Served
  <2> QED BY <1>1, <1>4, <2>1, <2>2, <2>3
<1> QED BY <1>2, <1>3, <1>4

\* p0 takes a turn that has not been taken while p waited, and none is untaken.
LEMMA TurnTaken ==
    ASSUME RoundTyped, NEW p0, NEW p \in Priorities, p /= p0,
           \/ /\ InRound(p0)
              /\ p >= scheduler_priority => p0 < p
           \/ /\ NewRound(p0)
              /\ p < scheduler_priority /\ p0 < p
    PROVE  \E n : /\ n \notin TurnsSince(p)
                  /\ n \in TurnsSince(p)'
                  /\ TurnsSince(p) \subseteq TurnsSince(p)'
<1> DEFINE s == scheduler_priority
           r == scheduler_priority'
           u == quota_used
           v == quota_used'
           m == v[p0]
<1>1. /\ p \in Nat /\ p0 \in Nat /\ p0 \in Priorities /\ s \in Nat /\ r \in Nat
      /\ r = p0 + 1 \/ (r = p0 /\ m < Quota[p0])
      /\ m \in 1 .. Quota[p0] /\ Quota[p0] \in Nat
      /\ \A q \in Priorities : q \in Nat /\ Quota[q] \in Nat /\ u[q] \in Nat
  <2>1. PICK used : Served(p0, used)
    BY DEF InRound, NewRound
  <2>2. /\ p0 \in Priorities /\ used[p0] \in Nat
        /\ m = used[p0] + 1
        /\ used[p0] < Quota[p0]
        /\ r = p0 + 1 \/ (r = p0 /\ used[p0] + 1 < Quota[p0])
    BY <2>1 DEF Served
  <2>3. \A q \in Priorities : q \in Nat /\ Quota[q] \in Nat /\ u[q] \in Nat
    BY PriorityFacts DEF RoundTyped
  <2>4. s \in Nat
    BY DEF RoundTyped
  <2> HIDE DEF s, r, u, v, m
  <2>5. p \in Nat /\ p0 \in Nat /\ Quota[p0] \in Nat
    BY <2>2, <2>3
  <2> QED BY <2>2, <2>3, <2>4, <2>5
<1>2. Turn(p, p0, m)
  BY <1>1 DEF Turn
<1>3. \/ /\ s <= p0 /\ (p >= s => p0 < p)
         /\ m = u[p0] + 1
      \/ p < s /\ p0 < p
  BY <1>1 DEF InRound, Served
<1>4. p0 > s => u[p0] = 0
  BY <1>1 DEF RoundTyped, RoundInv
<1>5. ~Past(s, u, p, p0, m)
  <2> HIDE DEF s, r, u, v, m
  <2> QED BY <1>1, <1>3 DEF Past
<1>6. Past(r, v, p, p0, m)
  <2>1. m = v[p0]
    OBVIOUS
  <2> HIDE DEF s, r, u, v, m
  <2> QED BY <1>1, <1>3, <2>1 DEF Past
<1>7. ASSUME NEW q, NEW k, Turn(p, q, k), Past(s, u, p, q, k)
      PROVE  Past(r, v, p, q, k)
  <2>1. q \in Priorities /\ q \in Nat /\ q /= p /\ k \in Nat
    BY <1>1, <1>7 DEF Turn
  <2>2. r = p0 \/ r = p0 + 1
    BY <1>1
  <2>3. CASE s <= p0 /\ (p >= s => p0 < p) /\ m = u[p0] + 1
    <3> HIDE DEF s, r, u, v
    <3>1. u[p0] \in Nat /\ v[p0] = u[p0] + 1
      BY <1>1, <2>3
    <3>2. CASE q = s
      <4>1. CASE r = s
        <5>1. q = p0 /\ k <= u[p0]
          BY <1>1, <1>7, <2>1, <2>2, <2>3, <3>2, <4>1 DEF Past
        <5>2. k <= v[p0]
          BY <2>1, <3>1, <5>1
        <5> QED BY <3>2, <4>1, <5>1, <5>2 DEF Past
      <4>2. CASE r /= s
        BY <1>1, <2>1, <2>2, <2>3, <3>2, <4>2 DEF Past
      <4> QED BY <4>1, <4>2
    <3>3. CASE q /= s
      <4>1. IF p < s THEN p < q /\ q < s ELSE q < s \/ p < q
        BY <1>7, <3>3 DEF Past
      <4>2. q /= r
        BY <1>1, <2>1, <2>2, <2>3, <4>1
      <4> QED BY <1>1, <2>1, <2>2, <2>3, <4>1, <4>2 DEF Past
    <3> QED BY <3>2, <3>3
  <2>4. CASE p < s /\ p0 < p
    <3> HIDE DEF s, r, u, v, m
    <3>1. p < q
      BY <1>1, <1>7, <2>1, <2>4 DEF Past
    <3> QED BY <1>1, <2>1, <2>2, <2>4, <3>1 DEF Past
  <2> QED BY <1>3, <2>3, <2>4
<1>8. <<p0, m>> \notin TurnsSince(p)
  BY <1>5, SinceFacts
<1>9. \A q, k : <<q, k>> \in TurnsSince(p)' <=> Turn(p, q, k) /\ Past(r, v, p, q, k)
  <2>1. TurnsOfOthers(p)' = TurnsOfOthers(p)
    BY DEF TurnsOfOthers
  <2> QED BY <2>1, SinceFacts DEF TurnsSince, Past
<1>10. <<p0, m>> \in TurnsSince(p)'
  BY <1>2, <1>6, <1>9
<1>11. TurnsSince(p) \subseteq TurnsSince(p)'
  <2> SUFFICES ASSUME NEW t \in TurnsSince(p) PROVE t \in TurnsSince(p)'
    OBVIOUS
  <2>1. t = <<t[1], t[2]>>
    BY SinceFacts
  <2>2. Turn(p, t[1], t[2]) /\ Past(s, u, p, t[1], t[2])
    BY <2>1, SinceFacts
  <2> QED BY <1>7, <1>9, <2>1, <2>2
<1> QED BY <1>8, <1>10, <1>11

LEMMA ServeWaits ==
    ASSUME QueueTyped, RoundTyped, WaitInv, NEW p0 \in Priorities, Has(p0),
           NEW used \in [Priorities -> Nat], Serve(p0, used),
           ASSUME NEW p \in Priorities, p /= p0, Has(p)
           PROVE  \/ InRound(p0) /\ (p >= scheduler_priority => p0 < p)
                  \/ NewRound(p0) /\ p < scheduler_priority /\ p0 < p
    PROVE  WaitInv'
<1>1. PICK i \in 1 .. Len(items) : i = Oldest(p0) /\ items[i].priority = p0
  BY ItemsStamped, OldestFacts DEF QueueTyped
<1>2. items' = RemoveAt(items, i) /\ items \in Seq(Items)
  BY <1>1 DEF Serve, QueueTyped
<1>3. \A p : Waits(p) <=> Has(p)'
  BY DEF Waits, Has, OfPriority
<1>4. \A p : p /= p0 => (Waits(p) <=> Has(p))
  BY <1>1, <1>2, RemovedFacts DEF Waits
<1> SUFFICES ASSUME NEW p \in Priorities
             PROVE  /\ passed'[p] <= Cardinality(TurnsSince(p)')
                    /\ ~Waits(p) => passed'[p] = 0
  BY <1>3 DEF WaitInv
<1>5. passed'[p] = IF p = p0 \/ ~Waits(p) THEN 0 ELSE passed[p] + 1
  BY DEF Serve
<1>6. Cardinality(TurnsSince(p)') \in Nat /\ IsFiniteSet(TurnsSince(p)')
  <2>1. TurnsSince(p)' \subseteq TurnsOfOthers(p)
    BY DEF TurnsSince, TurnsOfOthers
  <2> QED BY <2>1, TurnsFinite, FS_Subset, FS_CardinalityType
<1>7. CASE p = p0 \/ ~Waits(p)
  BY <1>5, <1>6, <1>7
<1>8. CASE p /= p0 /\ Waits(p)
  <2>1. Has(p)
    BY <1>4, <1>8
  <2>2. PICK n : /\ n \notin TurnsSince(p)
                 /\ n \in TurnsSince(p)'
                 /\ TurnsSince(p) \subseteq TurnsSince(p)'
    BY <1>8, <2>1, TurnTaken
  <2>3. Cardinality(TurnsSince(p) \cup {n}) = Cardinality(TurnsSince(p)) + 1
    BY <2>2, TurnsFinite, FS_AddElement
  <2>4. Cardinality(TurnsSince(p) \cup {n}) <= Cardinality(TurnsSince(p)')
    BY <1>6, <2>2, FS_Subset
  <2>5. passed[p] <= Cardinality(TurnsSince(p)) /\ passed[p] \in Nat
    BY DEF WaitInv, QueueTyped, QueueTypeOK
  <2>6. passed'[p] <= Cardinality(TurnsSince(p)')
    BY <1>5, <1>6, <1>8, <2>3, <2>4, <2>5, TurnsFinite
  <2> QED BY <1>8, <2>6
<1> QED BY <1>7, <1>8

LEMMA DequeueWaits ==
    ASSUME QueueTyped, RoundInv, WaitInv, Dequeue
    PROVE  RoundInv' /\ WaitInv'
<1>1. RoundTyped
  BY PriorityFacts DEF RoundTyped, QueueTyped, QueueTypeOK
<1>2. /\ quota_used \in [Priorities -> Nat]
      /\ NoTurns \in [Priorities -> Nat]
      /\ scheduler_priority \in Nat
  BY <1>1 DEF RoundTyped, NoTurns
<1>3. ASSUME NEW p \in Priorities, Has(p), p >= scheduler_priority PROVE p \in ThisRound
  <2>1. quota_used[p] < Quota[p]
    <3>1. CASE p > scheduler_priority
      BY <3>1, PriorityFacts DEF RoundInv
    <3>2. CASE p = scheduler_priority
      BY <3>2 DEF RoundInv
    <3>3. p \in Nat
      BY PriorityFacts
    <3> QED BY <1>2, <1>3, <3>1, <3>2, <3>3
  <2> QED BY <1>3, <2>1 DEF ThisRound
<1>4. ASSUME NEW p0 \in Priorities, NEW used \in [Priorities -> Nat],
             Serve(p0, used), used[p0] < Quota[p0]
      PROVE  Served(p0, used)
  <2>1. quota_used' = [used EXCEPT ![p0] = used[p0] + 1]
    BY <1>4 DEF Serve
  <2>2. /\ quota_used'[p0] = used[p0] + 1
        /\ used[p0] + 1 \in Nat /\ Quota[p0] \in Nat
    BY <2>1, PriorityFacts
  <2>3. scheduler_priority' = IF used[p0] + 1 >= Quota[p0] \/ ~Waits(p0)
                              THEN p0 + 1 ELSE p0
    BY <1>4, <2>2 DEF Serve
  <2> QED BY <1>4, <2>1, <2>2, <2>3 DEF Served
<1>5. PICK p0 \in Priorities :
         /\ Has(p0)
         /\ \/ /\ Serve(p0, quota_used)
               /\ p0 \in ThisRound
               /\ \A q \in ThisRound : p0 <= q
            \/ /\ Serve(p0, NoTurns)
               /\ ThisRound = {}
               /\ \A q \in Priorities : Has(q) => p0 <= q
  BY TurnFacts
<1>6. CASE /\ Serve(p0, quota_used)
           /\ p0 \in ThisRound
           /\ \A q \in ThisRound : p0 <= q
  <2>1. InRound(p0)
    BY <1>2, <1>4, <1>6 DEF InRound, ThisRound
  <2>2. ASSUME NEW p \in Priorities, p /= p0, Has(p)
        PROVE  p >= scheduler_priority => p0 < p
    BY <1>3, <1>6, <2>2, PriorityFacts
  <2> QED BY <1>1, <1>2, <1>5, <1>6, <2>1, <2>2, RoundStep, ServeWaits
<1>7. CASE /\ Serve(p0, NoTurns)
           /\ ThisRound = {}
           /\ \A q \in Priorities : Has(q) => p0 <= q
  <2>1. NoTurns[p0] < Quota[p0]
    BY PriorityFacts DEF NoTurns
  <2>2. NewRound(p0)
    BY <1>2, <1>4, <1>7, <2>1 DEF NewRound
  <2>3. ASSUME NEW p \in Priorities, p /= p0, Has(p)
        PROVE  p < scheduler_priority /\ p0 < p
    BY <1>2, <1>3, <1>7, <2>3, PriorityFacts
  <2> QED BY <1>1, <1>2, <1>5, <1>7, <2>2, <2>3, RoundStep, ServeWaits
<1> QED BY <1>5, <1>6, <1>7

LEMMA RestWaits ==
    ASSUME QueueTyped, RoundInv, WaitInv, UNCHANGED queueVars
    PROVE  RoundInv' /\ WaitInv'
<1>1. UNCHANGED <<items, quota_used, scheduler_priority, passed>>
  BY DEF queueVars
<1>2. \A p : TurnsSince(p)' = TurnsSince(p) /\ (Has(p)' <=> Has(p))
  BY <1>1 DEF TurnsSince, TurnsOfOthers, Has, OfPriority
<1> QED BY <1>1, <1>2 DEF RoundInv, WaitInv

LEMMA EnqueueWaits ==
    ASSUME QueueTyped, RoundInv, WaitInv, NEW item \in Items,
           Enqueue(item) \/ EnqueueEvicts(item)
    PROVE  RoundInv' /\ WaitInv'
<1>1. UNCHANGED <<quota_used, scheduler_priority>>
  BY DEF Enqueue, EnqueueEvicts
<1>2. \A p : TurnsSince(p)' = TurnsSince(p)
  BY <1>1 DEF TurnsSince, TurnsOfOthers
<1>3. RoundInv'
  BY <1>1 DEF RoundInv
<1>4. CASE Enqueue(item)
  <2>1. items' = Append(items, item) /\ passed' = passed /\ items \in Seq(Items)
    BY <1>4 DEF Enqueue, QueueTyped
  <2>2. \A k \in DOMAIN items : k \in DOMAIN items' /\ items'[k] = items[k]
    BY <2>1
  <2>3. \A p : Has(p) => Has(p)'
    BY <2>2 DEF Has, OfPriority
  <2> QED BY <1>2, <1>3, <2>1, <2>3 DEF WaitInv
<1>5. CASE EnqueueEvicts(item)
  <2>1. passed' = [p \in Priorities |-> IF Waits(p) THEN passed[p] ELSE 0]
    BY <1>5 DEF EnqueueEvicts, StillWaiting
  <2>2. \A p : Waits(p) <=> Has(p)'
    BY DEF Waits, Has, OfPriority
  <2>3. \A p : Cardinality(TurnsSince(p)) \in Nat
    BY TurnsFinite
  <2>4. ASSUME NEW p \in Priorities
        PROVE  /\ passed'[p] <= Cardinality(TurnsSince(p))
               /\ ~Waits(p) => passed'[p] = 0
    BY <2>1, <2>3 DEF WaitInv
  <2> QED BY <1>2, <1>3, <2>2, <2>4 DEF WaitInv
<1> QED BY <1>4, <1>5

WaitStepInv == CountInv /\ RoundInv /\ WaitInv

LEMMA WaitInit == Init => WaitStepInv
<1> SUFFICES ASSUME Init PROVE RoundInv /\ WaitInv
  BY CountInit DEF WaitStepInv
<1>1. /\ quota_used = [p \in Priorities |-> 0]
      /\ passed = [p \in Priorities |-> 0]
  BY DEF Init, QueueInit
<1>2. RoundInv
  BY <1>1, PriorityFacts DEF RoundInv
<1>3. \A p : Cardinality(TurnsSince(p)) \in Nat
  BY TurnsFinite
<1>4. WaitInv
  BY <1>1, <1>3 DEF WaitInv
<1> QED BY <1>2, <1>4

LEMMA WaitStep == WaitStepInv /\ [Next]_vars => WaitStepInv'
<1> SUFFICES ASSUME WaitStepInv, [Next]_vars PROVE RoundInv' /\ WaitInv'
  BY CountStep DEF WaitStepInv
<1>1. QueueTyped /\ Clock /\ RoundInv /\ WaitInv
  BY DEF WaitStepInv, CountInv
<1>2. CASE Grows
  BY <1>1, <1>2, EnqueueWaits DEF Grows
<1>3. CASE Evicts
  BY <1>1, <1>3, EnqueueWaits DEF Evicts
<1>4. CASE Refuses
  BY <1>1, <1>4, RestWaits DEF Refuses
<1>5. CASE Shrinks
  BY <1>1, <1>5, DequeueWaits DEF Shrinks
<1>6. CASE Rests
  BY <1>1, <1>6, RestWaits DEF Rests
<1> QED BY <1>1, <1>2, <1>3, <1>4, <1>5, <1>6, QueueSteps

\* A priority that has something to send is passed over at most once by the
\* quota of every other, whatever comes and is evicted meanwhile
\* (rtos_priority_queue_dequeue).
THEOREM RouterBoundedWait == Spec => []BoundedWait
<1>1. Init => WaitStepInv
  BY WaitInit
<1>2. WaitStepInv /\ [Next]_vars => WaitStepInv'
  BY WaitStep
<1>3. WaitStepInv => BoundedWait
  BY WaitBounded DEF WaitStepInv, CountInv
<1> QED BY <1>1, <1>2, <1>3, PTL DEF Spec
=============================================================================
