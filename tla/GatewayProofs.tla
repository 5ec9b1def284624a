--------------------------- MODULE GatewayProofs ---------------------------
(***************************************************************************)
(* Both sides together and across restarts.  The invariant of LinuxIpc holds  *)
(* whatever the firmware has kept from an earlier boot and puts into the     *)
(* rings of this one, the invariant of RtosTasks whenever Linux dies.        *)
(***************************************************************************)
EXTENDS Gateway, FiniteSetTheorems, TLAPS

-----------------------------------------------------------------------------
(* What is proved of the pool and of Linux holds here.  Of the RTOS of        *)
(* FramePool we only need to say what it holds: what the tasks have           *)
(* references to.                                                           *)

P == INSTANCE FramePoolProofs WITH held <- {refs[f] : f \in InUse}

\* What FramePoolProofs assumes of the constants is assumed here.
LEMMA PoolAssumptions ==
    /\ P!Frames = Frames
    /\ IsFiniteSet(Interfaces)
    /\ P!IsFiniteSet(Interfaces)
<1> QED BY RegionAssumption DEF Frames, P!Frames, IsFiniteSet, P!IsFiniteSet

LEMMA SameCardinality ==
    ASSUME NEW S
    PROVE  P!Cardinality(S) = Cardinality(S)
<1> QED BY DEF Cardinality, P!Cardinality

\* Linux is the same on both levels.
LEMMA SameLinuxNext == LinuxNext <=> P!LinuxNext
<1> QED
  BY DEF LinuxNext, P!LinuxNext, Alloc, P!Alloc, FinishSubmit, P!FinishSubmit,
         Oversize, P!Oversize, CommitFails, P!CommitFails, Commit, P!Commit,
         Committable, P!Committable, Egress, P!Egress, TakeTx, P!TakeTx,
         RejectTx, P!RejectTx, EgressRelease, P!EgressRelease,
         TxAcceptable, P!TxAcceptable, ReclaimAcceptable, P!ReclaimAcceptable,
         Release, P!Release, Releasable, P!Releasable, FreeFrame, P!FreeFrame,
         Decrement, P!Decrement, DrainReclaim, P!DrainReclaim,
         TakeReclaim, P!TakeReclaim, RejectReclaim, P!RejectReclaim,
         Frames, P!Frames, pool, P!pool, rings, P!rings, header, P!header

\* The facts of FramePoolProofs about frames and about Linux, in the words of
\* this module.
LEMMA FramesFinite ==
    ASSUME NEW S, S \subseteq Frames
    PROVE  IsFiniteSet(S)
<1>1. IsFiniteSet(Frames)
  BY FS_Interval, RegionAssumption DEF Frames
<1> QED BY <1>1, FS_Subset

LEMMA SameRings ==
    /\ P!Descriptors = Descriptors
    /\ \A r : P!FramesOf(r) = FramesOf(r) /\ (P!NoneTwice(r) <=> NoneTwice(r))
    /\ RegionTypeOK <=> P!RegionTypeOK
    /\ RegionTypeOK' <=> P!RegionTypeOK'
<1>1. P!Descriptors = Descriptors
  BY PoolAssumptions DEF Descriptors, P!Descriptors
<1>2. \A r : P!FramesOf(r) = FramesOf(r) /\ (P!NoneTwice(r) <=> NoneTwice(r))
  BY DEF FramesOf, P!FramesOf, NoneTwice, P!NoneTwice
<1>3. RegionTypeOK <=> P!RegionTypeOK
  BY <1>1 DEF RegionTypeOK, P!RegionTypeOK
<1>4. RegionTypeOK' <=> P!RegionTypeOK'
  BY <1>3, PTL
<1> QED BY <1>1, <1>2, <1>3, <1>4

LEMMA AppendFrames ==
    ASSUME NEW r \in Seq(Descriptors), NEW d \in Descriptors
    PROVE  /\ Append(r, d) \in Seq(Descriptors)
           /\ FramesOf(Append(r, d)) = FramesOf(r) \cup {d.frame}
           /\ NoneTwice(r) /\ d.frame \notin FramesOf(r) => NoneTwice(Append(r, d))
<1>1. r \in Seq(P!Descriptors) /\ d \in P!Descriptors
  BY SameRings
<1> QED
  BY <1>1, P!AppendFrames, SameRings, PoolAssumptions, RegionAssumption, LinuxAssumption

LEMMA TailFrames ==
    ASSUME NEW r \in Seq(Descriptors), r /= <<>>
    PROVE  /\ Head(r) \in Descriptors /\ Tail(r) \in Seq(Descriptors)
           /\ 1 \in DOMAIN r /\ Head(r) = r[1]
           /\ Head(r).frame \in FramesOf(r)
           /\ FramesOf(Tail(r)) \subseteq FramesOf(r)
           /\ FramesOf(r) = FramesOf(Tail(r)) \cup {Head(r).frame}
           /\ NoneTwice(r) => /\ NoneTwice(Tail(r))
                              /\ Head(r).frame \notin FramesOf(Tail(r))
           /\ \A k \in DOMAIN Tail(r) : k + 1 \in DOMAIN r /\ Tail(r)[k] = r[k + 1]
<1>1. r \in Seq(P!Descriptors)
  BY SameRings
<1> QED
  BY <1>1, P!TailFrames, SameRings, PoolAssumptions, RegionAssumption, LinuxAssumption

LEMMA SameLinuxInv == (LinuxInv <=> P!LinuxInv) /\ (LinuxInv' <=> P!LinuxInv')
<1>1. LinuxTypeOK <=> P!LinuxTypeOK
  BY PoolAssumptions DEF LinuxTypeOK, P!LinuxTypeOK, FrameStates, P!FrameStates
<1>2. \A i \in Interfaces : Cardinality(Owned(i)) = P!Cardinality(P!Owned(i))
  BY SameCardinality DEF Owned, P!Owned
<1>3. Cardinality(bitmap) = P!Cardinality(bitmap)
  BY SameCardinality
<1>4. (CountersExact <=> P!CountersExact) /\ (WithinQuota <=> P!WithinQuota)
  BY <1>2, <1>3 DEF CountersExact, P!CountersExact, WithinQuota, P!WithinQuota
<1>5. (SourcesKnown <=> P!SourcesKnown) /\ (SentByOne <=> P!SentByOne)
  BY DEF SourcesKnown, P!SourcesKnown, SentByOne, P!SentByOne
<1>6. FilledByOwner <=> P!FilledByOwner
  BY DEF FilledByOwner, P!FilledByOwner, Committable, P!Committable
<1>7. LinuxInv <=> P!LinuxInv
  BY <1>1, <1>4, <1>5, <1>6 DEF LinuxInv, P!LinuxInv
<1>8. LinuxInv' <=> P!LinuxInv'
  BY <1>7, PTL
<1> QED BY <1>7, <1>8

LEMMA LinuxInvInit ==
    ASSUME LinuxInit
    PROVE  LinuxInv
<1>1. /\ AllFree = P!AllFree /\ NoMetadata = P!NoMetadata
      /\ NoneUsed = P!NoneUsed /\ IdleThreads = P!IdleThreads
  BY PoolAssumptions DEF AllFree, P!AllFree, NoMetadata, P!NoMetadata, NoneUsed,
     P!NoneUsed, IdleThreads, P!IdleThreads
<1>2. P!LinuxInv
  BY <1>1, P!LinuxInvInit, PoolAssumptions, RegionAssumption, LinuxAssumption DEF LinuxInit
<1> QED BY <1>2, SameLinuxInv

LEMMA LinuxInvStep ==
    ASSUME LinuxInv, LinuxNext
    PROVE  LinuxInv'
<1>1. P!LinuxInv'
  BY P!LinuxInvStep, SameLinuxNext, SameLinuxInv, PoolAssumptions, RegionAssumption,
     LinuxAssumption
<1> QED BY <1>1, SameLinuxInv

LEMMA LinuxStutter ==
    ASSUME LinuxInv, UNCHANGED linuxVars
    PROVE  LinuxInv'
<1>1. UNCHANGED P!linuxVars
  BY DEF linuxVars, P!linuxVars, pool, P!pool
<1>2. P!LinuxInv'
  BY <1>1, P!LinuxStutter, SameLinuxInv, PoolAssumptions, RegionAssumption, LinuxAssumption
<1> QED BY <1>2, SameLinuxInv

LEMMA LinuxRegionStep ==
    ASSUME RegionTypeOK, LinuxInv, LinuxNext
    PROVE  RegionTypeOK'
<1>1. P!RegionTypeOK'
  BY P!LinuxRegionStep, SameLinuxNext, SameLinuxInv, SameRings, PoolAssumptions,
     RegionAssumption, LinuxAssumption
<1> QED BY <1>1, SameRings

LEMMA LinuxInvReleases ==
    ASSUME LinuxInv
    PROVE  NeverRefused
<1> QED BY DEF LinuxInv, FilledByOwner, SentByOne, Committable, NeverRefused, Releasable

-----------------------------------------------------------------------------
(* The invariant of the tasks of the firmware, for every region, whatever    *)
(* Linux does to it between two of their steps: types, and a queue that      *)
(* never mixes the items of two boots.                                      *)

\* What a step needs to know about descriptors.
LEMMA DescriptorFacts ==
    ASSUME NEW d \in Descriptors
    PROVE  /\ d.frame \in Frames
           /\ d.source \in Interfaces
           /\ d.epoch \in Epochs
           /\ d /= NoDescriptor
           /\ \A t \in Interfaces : /\ [d EXCEPT !.target = t] \in Descriptors
                                    /\ [d EXCEPT !.target = t].epoch = d.epoch
<1>1. d /= NoDescriptor
  BY RtosAssumption
<1> QED BY <1>1 DEF Descriptors

LEMMA ScanFacts ==
    /\ Cardinality(Interfaces) \in Nat
    /\ 1 \in DOMAIN ScanOrder
    /\ DOMAIN ScanOrder = 1 .. Cardinality(Interfaces)
    /\ \A n \in DOMAIN ScanOrder : ScanOrder[n] \in Interfaces
<1>1. Cardinality(Interfaces) \in Nat /\ Cardinality(Interfaces) /= 0
  BY RegionAssumption, FS_CardinalityType, FS_EmptySet
<1> QED BY <1>1, RtosAssumption

\* The reclaim sink, called for a frame of the pool.
LEMMA SinkTyped ==
    ASSUME RegionTypeOK, RtosTypeOK, NEW f \in Frames, SinkDone(f) \/ SinkFails(f)
    PROVE  /\ reclaim' \in Seq(Descriptors)
           /\ refs' \in [Frames -> Descriptors \cup {NoDescriptor}]
           /\ frozen' \in Seq(Descriptors)
           /\ state' \in States
<1>1. CASE SinkWrites(f)
  BY <1>1 DEF SinkWrites, ClearRef, RegionTypeOK, RtosTypeOK
<1>2. CASE SinkFreezes(f)
  <2>1. refs[f] \in Descriptors
    BY <1>2 DEF SinkFreezes, RtosTypeOK
  <2> QED BY <1>2, <2>1 DEF SinkFreezes, RegionTypeOK, RtosTypeOK, States
<1>3. CASE SinkFails(f)
  BY <1>3 DEF SinkFails, RegionTypeOK, RtosTypeOK
<1> QED BY <1>1, <1>2, <1>3 DEF SinkDone

\* The retries, from wherever they are called.
LEMMA RetryTyped ==
    ASSUME RegionTypeOK, RtosTypeOK, NEW at, NEW next, Retry(at, next)
    PROVE  /\ pc' \in {at, next}
           /\ rx' = rx /\ tx' = tx /\ queue' = queue
           /\ reclaim' \in Seq(Descriptors)
           /\ refs' \in [Frames -> Descriptors \cup {NoDescriptor}]
           /\ frozen' \in Seq(Descriptors)
           /\ state' \in States
           /\ UNCHANGED <<run, scan, local>>
<1>1. CASE RetryWrites(at, next)
  <2>1. Head(frozen) \in Descriptors /\ Tail(frozen) \in Seq(Descriptors)
    BY <1>1 DEF RetryWrites, RtosTypeOK
  <2>2. Append(reclaim, Head(frozen)) \in Seq(Descriptors)
    BY <2>1 DEF RegionTypeOK
  <2>3. state' \in States
    BY <1>1 DEF RetryWrites, StateWhenThawed, RtosTypeOK, States
  <2>4. refs' \in [Frames -> Descriptors \cup {NoDescriptor}]
    BY <1>1, <2>1 DEF RetryWrites, ClearRef, RtosTypeOK
  <2> QED BY <1>1, <2>1, <2>2, <2>3, <2>4 DEF Retry, RetryWrites
<1>2. CASE RetryStops(at, next)
  <2>1. state' \in States
    BY <1>2 DEF RetryStops, StateWhenThawed, RtosTypeOK, States
  <2> QED BY <1>2, <2>1 DEF Retry, RetryStops, Goto, frameVars, rings, RegionTypeOK, RtosTypeOK
<1> QED BY <1>1, <1>2 DEF Retry

\* The number of attempts left stays within the limits.
LEMMA TriesFacts ==
    ASSUME tries \in {0} \cup UNION {0 .. n : n \in RetryLimits}
    PROVE  /\ tries > 0 => tries - 1 \in {0} \cup UNION {0 .. n : n \in RetryLimits}
           /\ RetryLimits \subseteq {0} \cup UNION {0 .. n : n \in RetryLimits}
<1>1. RetryLimits \subseteq {0} \cup UNION {0 .. n : n \in RetryLimits}
  BY RtosAssumption
<1>2. ASSUME tries > 0
      PROVE  tries - 1 \in {0} \cup UNION {0 .. n : n \in RetryLimits}
  <2>1. PICK n \in RetryLimits : tries \in 0 .. n
    BY <1>2
  <2>2. n \in Nat
    BY RtosAssumption
  <2>3. tries - 1 \in 0 .. n
    BY <1>2, <2>1, <2>2
  <2> QED BY <2>3
<1> QED BY <1>1, <1>2

-----------------------------------------------------------------------------
(* The kinds of step a run consists of. *)

\* A step that ends with no item in hand.
LEMMA EmptyHand ==
    ASSUME pc' \in PCs \ ItemPCs
    PROVE  HasItem'
<1> QED BY DEF HasItem, ItemPCs

LEMMA JumpStep ==
    ASSUME RegionTypeOK, RtosInv, UNCHANGED header,
           NEW from, NEW to, to \in PCs \ ItemPCs, Jump(from, to)
    PROVE  RegionTypeOK' /\ RtosInv'
<1>1. pc' = to /\ UNCHANGED <<rings, header>>
      /\ UNCHANGED <<run, scan, local, frameVars, state>>
  BY DEF Jump, Goto
<1>2. HasItem'
  BY <1>1, EmptyHand
<1>3. RegionTypeOK'
  BY <1>1 DEF RegionTypeOK, rings, header
<1>4. RtosTypeOK'
  BY <1>1 DEF RtosInv, RtosTypeOK, run, recoveryVars, scan, local, frameVars
<1>5. QueueOfOneBoot'
  BY <1>1 DEF RtosInv, QueueOfOneBoot, run, recoveryVars, frameVars
<1> QED BY <1>2, <1>3, <1>4, <1>5 DEF RtosInv

LEMMA RetryStep ==
    ASSUME RegionTypeOK, RtosInv, UNCHANGED header,
           NEW at \in PCs \ ItemPCs, NEW next \in PCs \ ItemPCs, Retry(at, next)
    PROVE  RegionTypeOK' /\ RtosInv'
<1>1. /\ pc' \in PCs \ ItemPCs
      /\ rx' = rx /\ tx' = tx /\ queue' = queue
      /\ reclaim' \in Seq(Descriptors)
      /\ refs' \in [Frames -> Descriptors \cup {NoDescriptor}]
      /\ frozen' \in Seq(Descriptors)
      /\ state' \in States
      /\ UNCHANGED <<run, scan, local>>
  BY RetryTyped DEF RtosInv
<1>2. HasItem'
  BY <1>1, EmptyHand
<1>3. RegionTypeOK'
  BY <1>1 DEF RegionTypeOK, header
<1>4. RtosTypeOK'
  BY <1>1 DEF RtosInv, RtosTypeOK, run, recoveryVars, scan, local
<1>5. QueueOfOneBoot'
  BY <1>1 DEF RtosInv, QueueOfOneBoot, run, recoveryVars
<1> QED BY <1>2, <1>3, <1>4, <1>5 DEF RtosInv

\* A step that hands an item to the reclaim sink.
LEMMA SinkStep ==
    ASSUME RegionTypeOK, RtosInv, UNCHANGED header,
           NEW f \in Frames, SinkDone(f) \/ SinkFails(f),
           pc' \in PCs \ ItemPCs, LocalsEnd,
           UNCHANGED <<run, queue, rx, tx>>,
           UNCHANGED scan \/ LoopEnds
    PROVE  RegionTypeOK' /\ RtosInv'
<1>1. /\ reclaim' \in Seq(Descriptors)
      /\ refs' \in [Frames -> Descriptors \cup {NoDescriptor}]
      /\ frozen' \in Seq(Descriptors)
      /\ state' \in States
  BY SinkTyped DEF RtosInv
<1>2. HasItem'
  BY EmptyHand
<1>3. RegionTypeOK'
  BY <1>1 DEF RegionTypeOK, header
<1>4. port' \in DOMAIN ScanOrder /\ served' \in BOOLEAN
  BY ScanFacts DEF LoopEnds, scan, RtosInv, RtosTypeOK
<1>5. RtosTypeOK'
  BY <1>1, <1>4 DEF RtosInv, RtosTypeOK, run, recoveryVars, LocalsEnd
<1>6. QueueOfOneBoot'
  BY DEF RtosInv, QueueOfOneBoot, run, recoveryVars
<1> QED BY <1>2, <1>3, <1>5, <1>6 DEF RtosInv

\* A step that changes nothing but the state of the tasks and their control.
LEMMA ControlStep ==
    ASSUME RegionTypeOK, RtosInv, UNCHANGED header,
           UNCHANGED <<rings, frameVars, item, tries>>,
           pc' \in PCs \ ItemPCs, periodic' \in BOOLEAN, late' \in BOOLEAN,
           port' \in DOMAIN ScanOrder, served' \in BOOLEAN, state' \in States,
           recovery_pending' \in BOOLEAN, recovery_active' \in BOOLEAN,
           last_epoch' \in Epochs, router_epoch' \in Epochs,
           router_epoch' = router_epoch \/ queue = {},
           heartbeat' \in {"normal", "suspect", "lost"}
    PROVE  RegionTypeOK' /\ RtosInv'
<1>1. HasItem'
  BY EmptyHand
<1>2. RegionTypeOK'
  BY DEF RegionTypeOK, rings, header
<1>3. RtosTypeOK'
  BY DEF RtosInv, RtosTypeOK, frameVars
<1>4. QueueOfOneBoot'
  BY DEF RtosInv, QueueOfOneBoot, frameVars
<1> QED BY <1>1, <1>2, <1>3, <1>4 DEF RtosInv

-----------------------------------------------------------------------------
(* The steps that put descriptors somewhere. *)

\* A step of the intake: the descriptor taken is in hand.
LEMMA RxTakeStep ==
    ASSUME RegionTypeOK, RtosInv, UNCHANGED header, RxTake
    PROVE  RegionTypeOK' /\ RtosInv'
<1> DEFINE i == ScanOrder[port]
           d == Head(rx[i])
<1>1. i \in Interfaces
  BY ScanFacts DEF RtosInv, RtosTypeOK
<1>2. rx[i] \in Seq(Descriptors) /\ rx[i] /= <<>>
  BY <1>1 DEF RxTake, RxReadable, RegionTypeOK
<1>3. d \in Descriptors /\ Tail(rx[i]) \in Seq(Descriptors)
  BY <1>2
<1>4. /\ rx' = [rx EXCEPT ![i] = Tail(rx[i])]
      /\ UNCHANGED <<run, port, tries, queue, frozen, state, tx, reclaim>>
      /\ served' = TRUE
      /\ \/ refs' = [refs EXCEPT ![d.frame] = d] /\ item' = d /\ pc' = "submit"
         \/ UNCHANGED <<refs, item, pc>> /\ pc = "rx"
  BY DEF RxTake
<1> HIDE DEF d, i
<1>5. RegionTypeOK'
  BY <1>1, <1>3, <1>4 DEF RegionTypeOK, header
<1>6. RtosTypeOK'
  BY <1>3, <1>4 DEF RtosInv, RtosTypeOK, run, recoveryVars, PCs
<1>7. HasItem'
  BY <1>3, <1>4 DEF HasItem, ItemPCs
<1>8. QueueOfOneBoot'
  BY <1>4 DEF RtosInv, QueueOfOneBoot, run, recoveryVars
<1> QED BY <1>5, <1>6, <1>7, <1>8 DEF RtosInv

\* What submit puts into the queue is of the router's epoch.
LEMMA SubmitStep ==
    ASSUME RegionTypeOK, RtosInv, UNCHANGED header, SubmitQueues \/ SubmitEvicts
    PROVE  RegionTypeOK' /\ RtosInv'
<1>1. pc = "submit" /\ item \in Descriptors /\ item.epoch = router_epoch
  BY DEF SubmitQueues, SubmitEvicts, Goto, RtosInv, HasItem, ItemPCs
<1>2. PICK t \in Targets, x \in queue \cup {item} :
         /\ queue' \subseteq queue \cup {[item EXCEPT !.target = t]}
         /\ \/ pc' = "rx" /\ LocalsEnd
            \/ pc' = "evict" /\ item' = x /\ tries' = tries
  BY DEF SubmitQueues, SubmitEvicts, Goto
<1>3. UNCHANGED <<run, scan, refs, frozen, state, rings>>
  BY DEF SubmitQueues, SubmitEvicts
<1>4. /\ [item EXCEPT !.target = t] \in Descriptors
      /\ [item EXCEPT !.target = t].epoch = router_epoch
  BY <1>1, DescriptorFacts, RegionAssumption
<1>5. x \in Descriptors
  BY <1>1 DEF RtosInv, RtosTypeOK
<1>6. RegionTypeOK'
  BY <1>3 DEF RegionTypeOK, rings, header
<1>7. RtosTypeOK'
  BY <1>2, <1>3, <1>4, <1>5 DEF RtosInv, RtosTypeOK, run, recoveryVars, scan, LocalsEnd, PCs
<1>8. HasItem'
  BY <1>2, <1>5 DEF HasItem, ItemPCs
<1>9. QueueOfOneBoot'
  BY <1>2, <1>3, <1>4 DEF RtosInv, QueueOfOneBoot, run, recoveryVars
<1> QED BY <1>6, <1>7, <1>8, <1>9 DEF RtosInv

\* An item leaves the queue, in the hand of the scheduler or of the recovery.
LEMMA TakeItemStep ==
    ASSUME RegionTypeOK, RtosInv, UNCHANGED header, RecTakeItem \/ PickNext
    PROVE  RegionTypeOK' /\ RtosInv'
<1>1. PICK x \in queue :
         /\ item' = x /\ queue' = queue \ {x}
         /\ pc' \in {"rec_drop", "tx", "drop"}
         /\ tries' \in RetryLimits \cup {tries}
         /\ port' = port /\ served' \in BOOLEAN
  BY DEF RecTakeItem, PickNext, Pick, Goto, scan, RtosInv, RtosTypeOK
<1>2. UNCHANGED <<run, refs, frozen, state, rings>>
  BY DEF RecTakeItem, PickNext, Pick
<1>3. x \in Descriptors
  BY DEF RtosInv, RtosTypeOK
<1>4. RegionTypeOK'
  BY <1>2 DEF RegionTypeOK, rings, header
<1>5. tries' \in {0} \cup UNION {0 .. n : n \in RetryLimits}
  BY <1>1, TriesFacts DEF RtosInv, RtosTypeOK
<1>6. RtosTypeOK'
  BY <1>1, <1>2, <1>3, <1>5 DEF RtosInv, RtosTypeOK, run, recoveryVars, PCs
<1>7. HasItem'
  BY <1>1, <1>3 DEF HasItem, ItemPCs
<1>8. QueueOfOneBoot'
  BY <1>1, <1>2 DEF RtosInv, QueueOfOneBoot, run, recoveryVars
<1> QED BY <1>4, <1>6, <1>7, <1>8 DEF RtosInv

LEMMA TxWritesStep ==
    ASSUME RegionTypeOK, RtosInv, UNCHANGED header, TxWrites
    PROVE  RegionTypeOK' /\ RtosInv'
<1>1. item \in Descriptors
  BY DEF TxWrites, RtosInv, HasItem, ItemPCs
<1>2. item.target \in Interfaces /\ item.frame \in Frames
  BY <1>1 DEF Descriptors
<1>3. tx' \in [Interfaces -> Seq(Descriptors)]
  BY <1>1, <1>2 DEF TxWrites, RegionTypeOK
<1>4. refs' \in [Frames -> Descriptors \cup {NoDescriptor}]
  BY <1>2 DEF TxWrites, ClearRef, RtosInv, RtosTypeOK
<1>5. /\ pc' = "queue" /\ LocalsEnd
      /\ UNCHANGED <<run, scan, queue, frozen, state, rx, reclaim>>
  BY DEF TxWrites
<1>6. RegionTypeOK'
  BY <1>3, <1>5 DEF RegionTypeOK, header
<1>7. RtosTypeOK'
  BY <1>4, <1>5 DEF RtosInv, RtosTypeOK, run, recoveryVars, scan, LocalsEnd, PCs
<1>8. HasItem'
  BY <1>5 DEF HasItem, ItemPCs
<1>9. QueueOfOneBoot'
  BY <1>5 DEF RtosInv, QueueOfOneBoot, run, recoveryVars
<1> QED BY <1>6, <1>7, <1>8, <1>9 DEF RtosInv

LEMMA TxFailsStep ==
    ASSUME RegionTypeOK, RtosInv, UNCHANGED header, TxFails
    PROVE  RegionTypeOK' /\ RtosInv'
<1>1. /\ pc = "tx" /\ pc' \in {"tx", "drop"}
      /\ tries' = tries \/ (tries > 0 /\ tries' = tries - 1)
      /\ UNCHANGED <<run, scan, item, frameVars, state, rings>>
  BY DEF TxFails
<1>2. tries' \in {0} \cup UNION {0 .. n : n \in RetryLimits}
  BY <1>1, TriesFacts DEF RtosInv, RtosTypeOK
<1>3. RegionTypeOK'
  BY <1>1 DEF RegionTypeOK, rings, header
<1>4. RtosTypeOK'
  BY <1>1, <1>2 DEF RtosInv, RtosTypeOK, run, recoveryVars, scan, frameVars, PCs
<1>5. HasItem'
  BY <1>1 DEF RtosInv, HasItem, ItemPCs
<1>6. QueueOfOneBoot'
  BY <1>1 DEF RtosInv, QueueOfOneBoot, run, recoveryVars, frameVars
<1> QED BY <1>3, <1>4, <1>5, <1>6 DEF RtosInv

-----------------------------------------------------------------------------
(* The steps that hand a frame to the reclaim sink. *)

LEMMA DropSteps ==
    ASSUME RegionTypeOK, RtosInv, UNCHANGED header,
           RecDrop \/ SubmitDrops \/ EvictDrops \/ ItemDrops
    PROVE  RegionTypeOK' /\ RtosInv'
<1>1. pc \in {"submit", "evict", "rec_drop", "drop"}
  BY DEF RecDrop, SubmitDrops, EvictDrops, ItemDrops, Goto
<1>2. item \in Descriptors
  BY <1>1 DEF RtosInv, HasItem, ItemPCs
<1>3. item.frame \in Frames
  BY <1>2, DescriptorFacts
<1>4. pc' \in {"rx", "rec_queue", "rec_orphans", "rec_finish", "queue", "heartbeat"}
  BY DEF RecDrop, SubmitDrops, EvictDrops, ItemDrops, Goto, ToOrphans
<1>5. pc' \in PCs \ ItemPCs
  BY <1>4 DEF PCs, ItemPCs
<1>6. /\ SinkDone(item.frame) \/ SinkFails(item.frame)
      /\ LocalsEnd
      /\ UNCHANGED <<run, queue, rx, tx>>
      /\ UNCHANGED scan \/ LoopEnds
  BY DEF RecDrop, SubmitDrops, EvictDrops, ItemDrops
<1> QED BY <1>3, <1>5, <1>6, SinkStep

LEMMA OrphanStep ==
    ASSUME RegionTypeOK, RtosInv, UNCHANGED header, RecOrphan
    PROVE  RegionTypeOK' /\ RtosInv'
<1>1. PICK f \in Orphans : SinkDone(f)
  BY DEF RecOrphan
<1>2. f \in Frames
  BY DEF Orphans, InUse
<1>3. pc' \in PCs \ ItemPCs
  BY DEF RecOrphan, PCs, ItemPCs
<1>4. LocalsEnd /\ UNCHANGED <<run, queue, rx, tx>> /\ UNCHANGED scan
  BY DEF RecOrphan
<1> QED BY <1>1, <1>2, <1>3, <1>4, SinkStep

-----------------------------------------------------------------------------
(* The steps that only move the control and the state of the tasks. *)

LEMMA StartStep ==
    ASSUME RegionTypeOK, RtosInv, UNCHANGED header, Start
    PROVE  RegionTypeOK' /\ RtosInv'
<1>1. pc' = "preflight" /\ periodic' \in BOOLEAN /\ late' = FALSE
  BY DEF Start, Goto
<1>2. UNCHANGED <<scan, local, frameVars, state, recoveryVars, heartbeat, rings>>
  BY DEF Start
<1> QED BY <1>1, <1>2, ControlStep
        DEF RtosInv, RtosTypeOK, scan, local, recoveryVars, PCs, ItemPCs

LEMMA MonitorStep ==
    ASSUME RegionTypeOK, RtosInv, UNCHANGED header,
           NEW at, NEW next \in PCs \ ItemPCs, Monitor(at, next)
    PROVE  RegionTypeOK' /\ RtosInv'
<1>1. pc' \in PCs \ ItemPCs
  BY DEF Monitor, PCs, ItemPCs
<1>2. /\ recovery_pending' \in BOOLEAN /\ state' \in States
      /\ last_epoch' \in Epochs
  BY DEF Monitor, RtosInv, RtosTypeOK, RegionTypeOK, States
<1>3. UNCHANGED <<periodic, late, scan, local, frameVars, recovery_active,
                  router_epoch, heartbeat, rings>>
  BY DEF Monitor
<1> QED BY <1>1, <1>2, <1>3, ControlStep DEF RtosInv, RtosTypeOK, scan, local

LEMMA RecoverStartStep ==
    ASSUME RegionTypeOK, RtosInv, UNCHANGED header, RecoverStart
    PROVE  RegionTypeOK' /\ RtosInv'
<1>1. pc' \in PCs \ ItemPCs
  BY DEF RecoverStart, Goto, PCs, ItemPCs
<1>2. recovery_active' \in BOOLEAN /\ recovery_pending' \in BOOLEAN
  BY DEF RecoverStart
<1>3. UNCHANGED <<periodic, late, scan, local, frameVars, state, last_epoch,
                  router_epoch, heartbeat, rings>>
  BY DEF RecoverStart
<1> QED BY <1>1, <1>2, <1>3, ControlStep DEF RtosInv, RtosTypeOK, scan, local

LEMMA RecEnterStep ==
    ASSUME RegionTypeOK, RtosInv, UNCHANGED header, RecEnter
    PROVE  RegionTypeOK' /\ RtosInv'
<1>1. pc' \in PCs \ ItemPCs
  BY DEF RecEnter, PCs, ItemPCs
<1>2. UNCHANGED <<run, scan, local, frameVars, state, rings>>
  BY DEF RecEnter
<1> QED BY <1>1, <1>2, ControlStep
        DEF RtosInv, RtosTypeOK, run, recoveryVars, scan, local

\* The router changes its epoch only when its queue is empty.
LEMMA RecFinishStep ==
    ASSUME RegionTypeOK, RtosInv, UNCHANGED header, RecFinish
    PROVE  RegionTypeOK' /\ RtosInv'
<1>1. pc' \in PCs \ ItemPCs
  BY DEF RecFinish, Goto, AfterRecovery, PCs, ItemPCs
<1>2. /\ UNCHANGED <<periodic, late, scan, local, frameVars, heartbeat, rings>>
      /\ \/ UNCHANGED recoveryVars /\ state' \in States
         \/ RecDone
  BY DEF RecFinish, RecBlocked, RecUnfinished, RecAttachFails, States
<1>3. /\ recovery_pending' \in BOOLEAN /\ recovery_active' \in BOOLEAN
      /\ last_epoch' \in Epochs /\ router_epoch' \in Epochs
      /\ state' \in States
      /\ router_epoch' = router_epoch \/ queue = {}
  BY <1>2 DEF RecDone, RecClean, recoveryVars, RtosInv, RtosTypeOK, RegionTypeOK, States
<1> QED BY <1>1, <1>2, <1>3, ControlStep DEF RtosInv, RtosTypeOK, scan, local

LEMMA LoopSteps ==
    ASSUME RegionTypeOK, RtosInv, UNCHANGED header,
           RxNextRing \/ RxBlocked \/ QueueLeave
    PROVE  RegionTypeOK' /\ RtosInv'
<1>1. pc' \in PCs \ ItemPCs
  BY DEF RxNextRing, RxBlocked, QueueLeave, Goto, PCs, ItemPCs
<1>2. UNCHANGED <<run, local, frameVars, state, rings>>
  BY DEF RxNextRing, RxBlocked, QueueLeave
<1>3. /\ served' = FALSE
      /\ port' = 1 \/ (port < Cardinality(Interfaces) /\ port' = port + 1)
  BY DEF RxNextRing, RxBlocked, QueueLeave, LoopEnds
<1>4. port \in 1 .. Cardinality(Interfaces)
  BY ScanFacts DEF RtosInv, RtosTypeOK
<1>5. port' \in 1 .. Cardinality(Interfaces)
  BY <1>3, <1>4, ScanFacts
<1>6. port' \in DOMAIN ScanOrder
  BY <1>5, ScanFacts
<1> QED BY <1>1, <1>2, <1>3, <1>6, ControlStep
        DEF RtosInv, RtosTypeOK, run, recoveryVars, local

LEMMA HeartbeatSteps ==
    ASSUME RegionTypeOK, RtosInv, UNCHANGED header, HeartbeatTask \/ ObserveHeartbeat
    PROVE  RegionTypeOK' /\ RtosInv'
<1>1. pc' \in PCs \ ItemPCs
  BY DEF HeartbeatTask, ObserveHeartbeat, Goto, PCs, ItemPCs
<1>2. /\ heartbeat' \in {"normal", "suspect", "lost"}
      /\ state' \in States
      /\ late' \in BOOLEAN /\ recovery_pending' \in BOOLEAN
  BY DEF HeartbeatTask, ObserveHeartbeat, recoveryVars, RtosInv, RtosTypeOK, States
<1>3. /\ UNCHANGED <<periodic, scan, local, frameVars, rings>>
      /\ UNCHANGED <<recovery_active, last_epoch, router_epoch>>
  BY DEF HeartbeatTask, ObserveHeartbeat, recoveryVars
<1> QED BY <1>1, <1>2, <1>3, ControlStep DEF RtosInv, RtosTypeOK, scan, local

LEMMA JumpSteps ==
    ASSUME RegionTypeOK, RtosInv, UNCHANGED header,
           \/ Preflight \/ SkipRetry \/ SkipRecovery \/ RecQueueEmpty
           \/ RecOrphansDone \/ DrainEnter \/ ScheduleEnter \/ EndDoorbellRun
    PROVE  RegionTypeOK' /\ RtosInv'
<1>1. \E from, to \in PCs \ ItemPCs : Jump(from, to)
  BY DEF Preflight, SkipRetry, SkipRecovery, RecQueueEmpty, RecOrphansDone, DrainEnter,
         ScheduleEnter, EndDoorbellRun, AfterRecovery, ToOrphans, PCs, ItemPCs
<1> QED BY <1>1, JumpStep

LEMMA RetrySteps ==
    ASSUME RegionTypeOK, RtosInv, UNCHANGED header,
           \/ RetryFirst \/ Retry("rec_retry", "rec_enter")
           \/ Retry("ipc_retry", "schedule") \/ Retry("sched_retry", "heartbeat")
    PROVE  RegionTypeOK' /\ RtosInv'
<1>1. \E at, next \in PCs \ ItemPCs : Retry(at, next)
  BY DEF RetryFirst, PCs, ItemPCs
<1> QED BY <1>1, RetryStep

-----------------------------------------------------------------------------
\* Every step of the tasks preserves their invariant and the types of the region.
THEOREM RtosInvStep ==
    ASSUME RegionTypeOK, RtosInv, UNCHANGED header, RtosNext
    PROVE  RegionTypeOK' /\ RtosInv'
<1>1. CASE Start
  BY <1>1, StartStep
<1>2. CASE PickNext
  BY <1>2, TakeItemStep
<1>3. CASE ObserveHeartbeat
  BY <1>3, HeartbeatSteps
<1>4. CASE Run
  <2>1. "retry" \in PCs \ ItemPCs /\ "recover" \in PCs \ ItemPCs
    BY DEF PCs, ItemPCs
  <2>2. CASE Monitor("pre_monitor", "retry") \/ Monitor("monitor", "recover")
    BY <2>1, <2>2, MonitorStep
  <2>3. CASE \/ Preflight \/ SkipRetry \/ SkipRecovery \/ RecQueueEmpty
             \/ RecOrphansDone \/ DrainEnter \/ ScheduleEnter \/ EndDoorbellRun
    BY <2>3, JumpSteps
  <2>4. CASE \/ RetryFirst \/ Retry("rec_retry", "rec_enter")
             \/ Retry("ipc_retry", "schedule") \/ Retry("sched_retry", "heartbeat")
    BY <2>4, RetrySteps
  <2>5. CASE RecoverStart \/ RecEnter \/ RecFinish
    BY <2>5, RecoverStartStep, RecEnterStep, RecFinishStep
  <2>6. CASE RxNextRing \/ RxBlocked \/ QueueLeave
    BY <2>6, LoopSteps
  <2>7. CASE RecDrop \/ SubmitDrops \/ EvictDrops \/ ItemDrops
    BY <2>7, DropSteps
  <2>8. CASE RecOrphan \/ RecTakeItem
    BY <2>8, OrphanStep, TakeItemStep
  <2>9. CASE RxTake \/ SubmitQueues \/ SubmitEvicts
    BY <2>9, RxTakeStep, SubmitStep
  <2>10. CASE TxWrites \/ TxFails \/ HeartbeatTask
    BY <2>10, TxWritesStep, TxFailsStep, HeartbeatSteps
  <2> QED BY <1>4, <2>2, <2>3, <2>4, <2>5, <2>6, <2>7, <2>8, <2>9, <2>10 DEF Run
<1> QED BY <1>1, <1>2, <1>3, <1>4 DEF RtosNext

\* The tasks are not touched: Linux runs, dies or starts again.
LEMMA RtosStutter ==
    ASSUME RtosInv, UNCHANGED rtosVars
    PROVE  RtosInv'
<1>1. UNCHANGED <<pc, run, scan, local, frameVars, state>>
  BY DEF rtosVars
<1>2. RtosTypeOK'
  BY <1>1 DEF RtosInv, RtosTypeOK, run, recoveryVars, scan, local, frameVars
<1>3. HasItem'
  BY <1>1 DEF RtosInv, HasItem, local
<1>4. QueueOfOneBoot'
  BY <1>1 DEF RtosInv, QueueOfOneBoot, run, recoveryVars, frameVars
<1> QED BY <1>2, <1>3, <1>4 DEF RtosInv

\* The firmware starts on a region that has been formatted.
LEMMA RtosInvInit ==
    ASSUME RtosInit, linux_epoch \in Epochs
    PROVE  RtosInv
<1>1. RtosTypeOK
  <2>1. port \in DOMAIN ScanOrder /\ tries \in {0} \cup UNION {0 .. n : n \in RetryLimits}
    BY ScanFacts DEF RtosInit
  <2>2. refs \in [Frames -> Descriptors \cup {NoDescriptor}]
    BY DEF RtosInit
  <2>3. frozen \in Seq(Descriptors) /\ queue \subseteq Descriptors
    BY DEF RtosInit
  <2> QED BY <2>1, <2>2, <2>3 DEF RtosInit, RtosTypeOK, PCs, States
<1>2. HasItem /\ QueueOfOneBoot
  BY DEF RtosInit, HasItem, ItemPCs, QueueOfOneBoot
<1> QED BY <1>1, <1>2 DEF RtosInv

-----------------------------------------------------------------------------
(* Backpressure. *)

\* A step of the sink: what it freezes blocks the intake.
LEMMA SinkBack ==
    ASSUME RtosTypeOK, Backpressure, NEW f, SinkDone(f) \/ SinkFails(f)
    PROVE  Backpressure'
<1>1. CASE SinkWrites(f) \/ SinkFails(f)
  BY <1>1 DEF SinkWrites, SinkFails, Backpressure
<1>2. CASE SinkFreezes(f)
  <2>1. f \in FrozenFrames => frozen /= <<>>
    BY DEF FrozenFrames
  <2>2. refs[f] /= NoDescriptor /\ frozen \in Seq(Descriptors)
    BY <1>2 DEF SinkFreezes, RtosTypeOK
  <2>3. Append(frozen, refs[f]) /= <<>>
    BY <2>2
  <2>4. frozen' /= <<>>
    BY <1>2, <2>1, <2>3 DEF SinkFreezes
  <2>5. state' \in {"reclaim_full", "reclaim_blocked"}
    BY <1>2 DEF SinkFreezes
  <2> QED BY <2>4, <2>5 DEF Backpressure
<1> QED BY <1>1, <1>2 DEF SinkDone

LEMMA RetryBack ==
    ASSUME RtosTypeOK, Backpressure, NEW at, NEW next, Retry(at, next)
    PROVE  Backpressure'
<1>1. StateWhenThawed \in {"recovery", "normal"}
  BY DEF StateWhenThawed
<1>2. CASE RetryWrites(at, next)
  BY <1>1, <1>2 DEF RetryWrites, Backpressure
<1>3. CASE RetryStops(at, next)
  <2>1. frozen' = frozen
    BY <1>3 DEF RetryStops, frameVars
  <2>2. CASE frozen = <<>>
    BY <1>1, <1>3, <2>1, <2>2 DEF RetryStops, Backpressure
  <2>3. CASE frozen /= <<>>
    BY <1>3, <2>1, <2>3 DEF RetryStops, Backpressure
  <2> QED BY <2>2, <2>3
<1> QED BY <1>2, <1>3 DEF Retry

\* While a reclaim is frozen no step of the tasks makes their state normal, and
\* none leaves them blocked when the last one has been written.
LEMMA BackStep ==
    ASSUME RtosTypeOK, Backpressure, RtosNext
    PROVE  Backpressure'
<1>1. CASE \/ RetryFirst \/ Retry("rec_retry", "rec_enter")
           \/ Retry("ipc_retry", "schedule") \/ Retry("sched_retry", "heartbeat")
  BY <1>1, RetryBack DEF RetryFirst
<1>2. CASE RecDrop \/ SubmitDrops \/ EvictDrops \/ ItemDrops \/ RecOrphan
  BY <1>2, SinkBack DEF RecDrop, SubmitDrops, EvictDrops, ItemDrops, RecOrphan
<1>3. CASE Monitor("pre_monitor", "retry") \/ Monitor("monitor", "recover")
  BY <1>3 DEF Monitor, frameVars, Backpressure
<1>4. CASE RecFinish
  BY <1>4 DEF RecFinish, RecBlocked, RecUnfinished, RecAttachFails, RecDone, RecClean,
              frameVars, Backpressure
<1>5. CASE HeartbeatTask
  BY <1>5 DEF HeartbeatTask, frameVars, Backpressure
<1>6. CASE \/ Start \/ Preflight \/ SkipRetry \/ SkipRecovery \/ RecoverStart \/ RecEnter
           \/ RecTakeItem \/ RecQueueEmpty \/ RecOrphansDone \/ DrainEnter
           \/ RxTake \/ RxNextRing \/ RxBlocked \/ SubmitQueues \/ SubmitEvicts
           \/ ScheduleEnter \/ QueueLeave \/ TxWrites \/ TxFails
           \/ EndDoorbellRun \/ PickNext \/ ObserveHeartbeat
  <2>1. UNCHANGED <<frozen, state>>
    BY <1>6 DEF Start, Preflight, SkipRetry, SkipRecovery, RecoverStart, RecEnter,
       RecTakeItem, RecQueueEmpty, RecOrphansDone, DrainEnter, RxTake, RxNextRing,
       RxBlocked, SubmitQueues, SubmitEvicts, ScheduleEnter, QueueLeave, TxWrites,
       TxFails, EndDoorbellRun, PickNext, Pick, ObserveHeartbeat, Jump, frameVars
  <2> QED BY <2>1 DEF Backpressure
<1> QED BY <1>1, <1>2, <1>3, <1>4, <1>5, <1>6 DEF RtosNext, Run

-----------------------------------------------------------------------------
(* The invariants of the two sides, beside each other and across restarts.   *)

LEMMA GatewayInvInit ==
    ASSUME Init
    PROVE  LinuxInv
<1> QED BY LinuxInvInit DEF Init

\* A restart formats the pool.
LEMMA FormatStep ==
    ASSUME FormatBegin
    PROVE  LinuxInv'
<1>1. /\ bitmap' = {} /\ fstate' = AllFree
      /\ fsource' = NoMetadata /\ ftarget' = NoMetadata
      /\ used' = 0 /\ qused' = NoneUsed
      /\ filling' = IdleThreads /\ sending' = IdleThreads
  BY DEF FormatBegin
<1>2. Cardinality({}) = 0
  BY FS_EmptySet
<1>3. \A i \in Interfaces : Owned(i)' = {} /\ Quota[i] \in Nat
  BY <1>1, LinuxAssumption DEF Owned
<1>4. CountersExact' /\ WithinQuota'
  BY <1>1, <1>2, <1>3 DEF CountersExact, WithinQuota, NoneUsed
<1>5. LinuxTypeOK'
  BY <1>1 DEF LinuxTypeOK, AllFree, NoMetadata, NoneUsed, IdleThreads, FrameStates
<1>6. SourcesKnown' /\ FilledByOwner' /\ SentByOne'
  BY <1>1 DEF SourcesKnown, FilledByOwner, SentByOne, IdleThreads
<1> QED BY <1>4, <1>5, <1>6 DEF LinuxInv

LEMMA GatewayInvStep ==
    ASSUME LinuxInv, [Next]_vars
    PROVE  LinuxInv'
<1>1. CASE Linux
  BY <1>1, LinuxInvStep DEF Linux
<1>2. CASE Rtos
  BY <1>2, LinuxStutter DEF Rtos
<1>3. CASE FormatBegin
  BY <1>3, FormatStep
<1>4. CASE FormatHeader \/ FormatRings
  BY <1>4, LinuxStutter DEF FormatHeader, FormatRings
<1>5. CASE UNCHANGED vars
  BY <1>5, LinuxStutter DEF vars
<1> QED BY <1>1, <1>2, <1>3, <1>4, <1>5 DEF Next

\* The inductive invariant of the Linux side, across restarts.
THEOREM GatewayInvariant == Spec => []LinuxInv
<1> QED BY GatewayInvInit, GatewayInvStep, PTL DEF Spec

\* The release API never refuses what a thread hands it, in any boot.
THEOREM GatewayNeverRefused == Spec => []NeverRefused
<1> QED BY LinuxInvReleases, GatewayInvariant, PTL

-----------------------------------------------------------------------------
FirmwareInv == RegionTypeOK /\ RtosInv

LEMMA FirmwareInvInit ==
    ASSUME Init
    PROVE  FirmwareInv
<1>1. RegionTypeOK
  BY DEF Init, LinuxInit, RegionTypeOK, EmptyRings
<1> QED BY <1>1, RtosInvInit DEF Init, LinuxInit, FirmwareInv

LEMMA FirmwareInvStep ==
    ASSUME LinuxInv, FirmwareInv, [Next]_vars
    PROVE  FirmwareInv'
<1>1. CASE Linux
  BY <1>1, LinuxRegionStep, RtosStutter DEF Linux, FirmwareInv
<1>2. CASE Rtos
  BY <1>2, RtosInvStep DEF Rtos, FirmwareInv
<1>3. CASE FormatBegin
  <2>1. RegionTypeOK'
    BY <1>3 DEF FormatBegin, FirmwareInv, RegionTypeOK, EmptyRings
  <2> QED BY <1>3, <2>1, RtosStutter DEF FormatBegin, FirmwareInv
<1>4. CASE FormatHeader \/ FormatRings
  <2>1. RegionTypeOK'
    BY <1>4 DEF FormatHeader, FormatRings, FirmwareInv, RegionTypeOK, rings
  <2> QED BY <1>4, <2>1, RtosStutter DEF FormatHeader, FormatRings, FirmwareInv
<1>5. CASE UNCHANGED vars
  <2>1. RegionTypeOK'
    BY <1>5 DEF vars, FirmwareInv, RegionTypeOK, rings, header
  <2> QED BY <1>5, <2>1, RtosStutter DEF vars, FirmwareInv
<1> QED BY <1>1, <1>2, <1>3, <1>4, <1>5 DEF Next

\* The inductive invariant of the firmware and of what it reads.
THEOREM FirmwareInvariant == Spec => []FirmwareInv
<1> QED BY FirmwareInvInit, FirmwareInvStep, GatewayInvariant, PTL DEF Spec

\* The types of the whole system.
THEOREM GatewayTypeOK == Spec => []TypeOK
<1>1. LinuxInv /\ FirmwareInv => TypeOK
  BY DEF LinuxInv, FirmwareInv, RtosInv, TypeOK
<1> QED BY <1>1, GatewayInvariant, FirmwareInvariant, PTL

\* Whenever Linux starts again, the queue never mixes the items of two boots.
THEOREM GatewayQueueOfOneBoot == Spec => []QueueOfOneBoot
<1>1. FirmwareInv => QueueOfOneBoot
  BY DEF FirmwareInv, RtosInv
<1> QED BY <1>1, FirmwareInvariant, PTL

-----------------------------------------------------------------------------
(* The references of the tasks: each step, for the frames it moves.  NoOrphan  *)
(* is kept by a step on a region that is ready, RefsInv by every step.       *)

NoOrphanKept == region = "ready" /\ NoOrphan => NoOrphan'

LEMMA FrozenFramesOf ==
    FrozenFrames = FramesOf(frozen) /\ FrozenFrames' = FramesOf(frozen')
<1> QED BY DEF FrozenFrames, FramesOf

\* A step that leaves the references and the item alone.
LEMMA RefsKept ==
    ASSUME RefsInv, UNCHANGED <<refs, queue, frozen, item>>,
           pc \in ItemPCs <=> pc' \in ItemPCs,
           pc = "submit" => pc' = "submit",
           pc' = "rec_orphans" => queue = {}
    PROVE  RefsInv' /\ NoOrphanKept
<1>1. /\ QueuedFrames' = QueuedFrames /\ FrozenFrames' = FrozenFrames
      /\ InUse' = InUse /\ InHand' = InHand
  BY DEF QueuedFrames, FrozenFrames, InUse, InHand
<1>2. EmptyHanded' /\ (pc' = "rec_orphans" => queue' = {})
  BY DEF RefsInv, EmptyHanded
<1>3. RefsApart'
  BY <1>1 DEF RefsInv, RefsApart
<1>4. RefsTrue'
  BY <1>1 DEF RefsInv, RefsTrue, SameFrame
<1> QED BY <1>1, <1>2, <1>3, <1>4 DEF RefsInv, NoOrphanKept, NoOrphan

\* A reference is given up whose frame nothing else refers to.
LEMMA RefsCleared ==
    ASSUME RtosInv, RefsInv, NEW f \in Frames, ClearRef(f),
           queue' = queue, frozen \in Seq(Descriptors), frozen' \in Seq(Descriptors),
           item' = NoDescriptor, pc' \notin ItemPCs,
           pc' = "rec_orphans" => queue = {},
           f \notin QueuedFrames, InHand \subseteq {f},
           NoneTwice(frozen'), FrozenFrames' = FrozenFrames \ {f},
           \A k \in DOMAIN frozen' : \E l \in DOMAIN frozen : frozen'[k] = frozen[l]
    PROVE  RefsInv' /\ NoOrphanKept
<1>1. refs' = [refs EXCEPT ![f] = NoDescriptor] /\ refs \in [Frames -> Descriptors \cup {NoDescriptor}]
  BY DEF ClearRef, RtosInv, RtosTypeOK
<1>2. InUse' = InUse \ {f} /\ \A g \in Frames \ {f} : refs'[g] = refs[g]
  BY <1>1 DEF InUse
<1>3. QueuedFrames' = QueuedFrames /\ InHand' = {}
  BY DEF QueuedFrames, InHand
<1>4. EmptyHanded' /\ (pc' = "rec_orphans" => queue' = {})
  BY DEF EmptyHanded
<1>5. RefsApart'
  BY <1>2, <1>3 DEF RefsInv, RefsApart
<1>6. RefsTrue'
  <2>1. ASSUME NEW x \in queue PROVE SameFrame(x)' /\ x.target \in Targets
    <3>1. x.frame \in Frames \ {f} /\ SameFrame(x) /\ x.target \in Targets
      BY DEF RefsInv, RefsApart, RefsTrue, QueuedFrames, InUse
    <3> QED BY <1>2, <3>1 DEF SameFrame
  <2>2. ASSUME NEW k \in DOMAIN frozen' PROVE frozen'[k] = refs'[frozen'[k].frame]
    <3>1. PICK l \in DOMAIN frozen : frozen'[k] = frozen[l]
      OBVIOUS
    <3>2. frozen[l] = refs[frozen[l].frame]
      BY DEF RefsInv, RefsTrue
    <3>3. frozen'[k].frame \in FrozenFrames'
      BY DEF FrozenFrames
    <3>4. frozen'[k].frame \in Frames \ {f}
      BY <3>3 DEF RefsInv, RefsApart, InUse
    <3> QED BY <1>2, <3>1, <3>2, <3>4
  <2>3. \A g \in InUse' : refs'[g].frame = g
    BY <1>2 DEF RefsInv, RefsTrue, InUse
  <2> QED BY <2>1, <2>2, <2>3 DEF RefsTrue
<1>7. NoOrphanKept
  BY <1>2, <1>3 DEF NoOrphanKept, NoOrphan
<1> QED BY <1>4, <1>5, <1>6, <1>7 DEF RefsInv

\* The reclaim sink with the frame in hand, or with an orphan.
LEMMA SinkRefs ==
    ASSUME RtosInv, RefsInv, NEW f \in InUse, SinkDone(f) \/ SinkFails(f),
           f \notin QueuedFrames \cup FrozenFrames, InHand \subseteq {f},
           queue' = queue, item' = NoDescriptor, pc' \notin ItemPCs,
           pc' = "rec_orphans" => queue = {}
    PROVE  RefsInv' /\ NoOrphanKept
<1>1. f \in Frames /\ frozen \in Seq(Descriptors) /\ refs[f] \in Descriptors /\ refs[f].frame = f
  BY DEF InUse, RtosInv, RtosTypeOK, RefsInv, RefsTrue
<1>2. NoneTwice(frozen)
  BY DEF RefsInv, RefsApart
<1>3. CASE SinkWrites(f)
  <2>1. ClearRef(f) /\ frozen' = frozen /\ FrozenFrames' = FrozenFrames
    BY <1>3 DEF SinkWrites, FrozenFrames
  <2> QED BY <1>1, <1>2, <2>1, RefsCleared
<1>4. CASE SinkFreezes(f)
  <2>1. frozen' = Append(frozen, refs[f]) /\ refs' = refs
    BY <1>4 DEF SinkFreezes
  <2>2. /\ FrozenFrames' = FrozenFrames \cup {f}
        /\ NoneTwice(frozen')
        /\ \A k \in DOMAIN frozen' :
              \/ k \in DOMAIN frozen /\ frozen'[k] = frozen[k]
              \/ frozen'[k] = refs[f]
    BY <1>1, <1>2, <2>1, FrozenFramesOf, AppendFrames
  <2>3. QueuedFrames' = QueuedFrames /\ InHand' = {} /\ InUse' = InUse
    BY <2>1 DEF QueuedFrames, InHand, InUse
  <2>4. EmptyHanded' /\ (pc' = "rec_orphans" => queue' = {})
    BY DEF EmptyHanded
  <2>5. RefsApart'
    BY <2>2, <2>3 DEF RefsInv, RefsApart
  <2>6. RefsTrue'
    BY <1>1, <2>1, <2>2, <2>3 DEF RefsInv, RefsTrue, SameFrame
  <2>7. NoOrphanKept
    BY <2>2, <2>3 DEF NoOrphanKept, NoOrphan
  <2> QED BY <2>4, <2>5, <2>6, <2>7 DEF RefsInv
<1>5. CASE SinkFails(f)
  <2>1. region /= "ready" /\ frozen' = frozen /\ refs' = refs
    BY <1>5 DEF SinkFails, InUse
  <2>2. /\ QueuedFrames' = QueuedFrames /\ InHand' = {} /\ InUse' = InUse
        /\ FrozenFrames' = FrozenFrames
    BY <2>1 DEF QueuedFrames, InHand, InUse, FrozenFrames
  <2>3. EmptyHanded' /\ (pc' = "rec_orphans" => queue' = {})
    BY DEF EmptyHanded
  <2>4. RefsApart'
    BY <2>1, <2>2 DEF RefsInv, RefsApart
  <2>5. RefsTrue'
    BY <2>1, <2>2 DEF RefsInv, RefsTrue, SameFrame
  <2> QED BY <2>1, <2>3, <2>4, <2>5 DEF RefsInv, NoOrphanKept
<1> QED BY <1>3, <1>4, <1>5 DEF SinkDone

LEMMA RetryRefs ==
    ASSUME RtosInv, RefsInv, NEW at \in PCs \ ItemPCs, NEW next \in PCs \ ItemPCs,
           at /= "rec_orphans", next /= "rec_orphans", Retry(at, next)
    PROVE  RefsInv' /\ NoOrphanKept
<1>1. UNCHANGED <<item, queue>> /\ pc = at /\ pc' \in {at, next}
  BY DEF Retry, RetryWrites, RetryStops, Goto, local, frameVars
<1>2. item = NoDescriptor
  BY <1>1 DEF RefsInv, EmptyHanded
<1>3. CASE RetryWrites(at, next)
  <2> DEFINE f == Head(frozen).frame
  <2>1. frozen \in Seq(Descriptors) /\ frozen /= <<>>
    BY <1>3 DEF RetryWrites, RtosInv, RtosTypeOK
  <2>2. ClearRef(f) /\ frozen' = Tail(frozen)
    BY <1>3 DEF RetryWrites
  <2>3. NoneTwice(frozen)
    BY DEF RefsInv, RefsApart
  <2>4. /\ Head(frozen) \in Descriptors /\ frozen' \in Seq(Descriptors)
        /\ f \in FrozenFrames /\ FrozenFrames' = FrozenFrames \ {f}
        /\ NoneTwice(frozen')
        /\ \A k \in DOMAIN frozen' : k + 1 \in DOMAIN frozen /\ frozen'[k] = frozen[k + 1]
    BY <2>1, <2>2, <2>3, TailFrames, FrozenFramesOf
  <2>5. f \in Frames /\ f \notin QueuedFrames
    BY <2>4 DEF RefsInv, RefsApart, InUse
  <2>6. InHand = {}
    BY <1>2 DEF InHand
  <2> HIDE DEF f
  <2> QED BY <1>1, <1>2, <2>1, <2>2, <2>4, <2>5, <2>6, RefsCleared
<1>4. CASE RetryStops(at, next)
  <2>1. UNCHANGED <<refs, frozen>>
    BY <1>4 DEF RetryStops, frameVars
  <2> QED BY <1>1, <2>1, RefsKept DEF ItemPCs
<1> QED BY <1>3, <1>4 DEF Retry

\* A frame comes in that the tasks do not have: nothing refers to it.
LEMMA RxTakeRefs ==
    ASSUME RegionTypeOK, RtosInv, RefsInv, RxTake
    PROVE  RefsInv' /\ NoOrphanKept
<1>1. pc = "rx" /\ item = NoDescriptor
  BY DEF RxTake, RefsInv, EmptyHanded, ItemPCs
<1>2. PICK d \in Descriptors :
         \/ /\ refs[d.frame] = NoDescriptor
            /\ refs' = [refs EXCEPT ![d.frame] = d]
            /\ item' = d /\ pc' = "submit"
         \/ UNCHANGED <<refs, item, pc>>
  <2>1. ScanOrder[port] \in Interfaces
    BY ScanFacts DEF RtosInv, RtosTypeOK
  <2>2. rx[ScanOrder[port]] \in Seq(Descriptors) /\ rx[ScanOrder[port]] /= <<>>
    BY <2>1 DEF RxTake, RxReadable, RegionTypeOK
  <2>3. Head(rx[ScanOrder[port]]) \in Descriptors
    BY <2>2
  <2> QED BY <2>3 DEF RxTake
<1>3. UNCHANGED <<queue, frozen>>
  BY DEF RxTake
<1>4. CASE UNCHANGED <<refs, item, pc>>
  BY <1>1, <1>3, <1>4, RefsKept
<1>5. CASE /\ refs[d.frame] = NoDescriptor
           /\ refs' = [refs EXCEPT ![d.frame] = d]
           /\ item' = d /\ pc' = "submit"
  <2>1. d.frame \in Frames \ InUse /\ d /= NoDescriptor /\ refs \in [Frames -> Descriptors \cup {NoDescriptor}]
    BY <1>5, DescriptorFacts DEF InUse, RtosInv, RtosTypeOK
  <2>2. /\ InUse' = InUse \cup {d.frame}
        /\ \A g \in Frames \ {d.frame} : refs'[g] = refs[g]
        /\ refs'[d.frame] = d
    BY <1>5, <2>1 DEF InUse
  <2>3. /\ QueuedFrames' = QueuedFrames /\ FrozenFrames' = FrozenFrames
        /\ InHand = {} /\ InHand' = {d.frame}
    BY <1>1, <1>3, <1>5, <2>1 DEF QueuedFrames, FrozenFrames, InHand
  <2>4. EmptyHanded' /\ (pc' = "rec_orphans" => queue' = {})
    BY <1>5 DEF EmptyHanded, ItemPCs
  <2>5. RefsApart'
    BY <1>3, <2>1, <2>2, <2>3 DEF RefsInv, RefsApart
  <2>6. RefsTrue'
    <3>1. ASSUME NEW x \in queue PROVE SameFrame(x)' /\ x.target \in Targets
      <4>1. x.frame \in InUse /\ x.frame \in Frames \ {d.frame}
        BY <2>1 DEF RefsInv, RefsApart, QueuedFrames, InUse
      <4> QED BY <2>2, <4>1 DEF RefsInv, RefsTrue, SameFrame
    <3>2. ASSUME NEW k \in DOMAIN frozen PROVE frozen[k] = refs'[frozen[k].frame]
      <4>1. frozen[k].frame \in InUse /\ frozen[k].frame \in Frames \ {d.frame}
        BY <2>1 DEF RefsInv, RefsApart, FrozenFrames, InUse
      <4> QED BY <2>2, <4>1 DEF RefsInv, RefsTrue
    <3>3. SameFrame(item)'
      BY <1>5, <2>2 DEF SameFrame
    <3>4. \A g \in InUse' : refs'[g].frame = g
      BY <2>1, <2>2 DEF RefsInv, RefsTrue, InUse
    <3> QED BY <1>3, <1>5, <3>1, <3>2, <3>3, <3>4 DEF RefsTrue
  <2>7. NoOrphanKept
    BY <2>2, <2>3 DEF NoOrphanKept, NoOrphan
  <2> QED BY <2>4, <2>5, <2>6, <2>7 DEF RefsInv
<1> QED BY <1>2, <1>4, <1>5

\* The item goes from the hand into the queue; an evicted one comes into the
\* hand instead.
LEMMA SubmitRefs ==
    ASSUME RtosInv, RefsInv, SubmitQueues \/ SubmitEvicts
    PROVE  RefsInv' /\ NoOrphanKept
<1>1. /\ pc = "submit" /\ item \in Descriptors /\ item /= NoDescriptor
      /\ UNCHANGED <<refs, frozen>>
  BY DescriptorFacts DEF SubmitQueues, SubmitEvicts, Goto, RtosInv, HasItem, ItemPCs
<1>2. PICK t \in Targets, y \in Descriptors :
         /\ y.frame = item.frame /\ y.source = item.source /\ y.epoch = item.epoch
         /\ y.target = t
         /\ \/ pc' = "rx" /\ item' = NoDescriptor /\ queue' = queue \cup {y}
            \/ /\ pc' = "evict" /\ item' \in queue
               /\ queue' = (queue \ {item'}) \cup {y}
  <2>1. PICK t \in Targets :
           \/ pc' = "rx" /\ item' = NoDescriptor /\ queue' = queue \cup {[item EXCEPT !.target = t]}
           \/ /\ pc' = "evict" /\ item' \in queue
              /\ queue' = (queue \ {item'}) \cup {[item EXCEPT !.target = t]}
    BY DEF SubmitQueues, SubmitEvicts, Goto, LocalsEnd
  <2>2. t \in Interfaces
    BY RegionAssumption
  <2>3. PICK y \in Descriptors : y = [item EXCEPT !.target = t]
    BY <1>1, <2>2, DescriptorFacts
  <2>4. /\ y.frame = item.frame /\ y.source = item.source /\ y.epoch = item.epoch
        /\ y.target = t
    BY <1>1, <2>3 DEF Descriptors
  <2> QED BY <2>1, <2>3, <2>4
<1>3. InUse' = InUse /\ FrozenFrames' = FrozenFrames /\ InHand = {item.frame}
  BY <1>1 DEF InUse, FrozenFrames, InHand
<1>4. item.frame \in InUse \ (QueuedFrames \cup FrozenFrames)
  BY <1>3 DEF RefsInv, RefsApart
<1>5. /\ \A x \in queue : x.frame /= item.frame
      /\ \A x, z \in queue : x.frame = z.frame => x = z
      /\ \A x \in queue : x.frame \in InUse \ FrozenFrames
  BY <1>4 DEF QueuedFrames, RefsInv, RefsApart
<1>6. SameFrame(y)
  BY <1>1, <1>2 DEF RefsInv, RefsTrue, SameFrame
<1>7. queue \subseteq Descriptors
  BY DEF RtosInv, RtosTypeOK
<1>8. EmptyHanded' /\ (pc' = "rec_orphans" => queue' = {})
  BY <1>2 DEF EmptyHanded, ItemPCs
<1>9. CASE pc' = "rx" /\ item' = NoDescriptor /\ queue' = queue \cup {y}
  <2>1. QueuedFrames' = QueuedFrames \cup {item.frame} /\ InHand' = {}
    BY <1>2, <1>9 DEF QueuedFrames, InHand
  <2>2. RefsApart'
    <3>1. \A x, z \in queue' : x.frame = z.frame => x = z
      BY <1>2, <1>5, <1>9
    <3> QED BY <1>1, <1>3, <1>4, <2>1, <3>1 DEF RefsInv, RefsApart
  <2>3. RefsTrue'
    <3>1. ASSUME NEW x \in queue' PROVE SameFrame(x)' /\ x.target \in Targets
      BY <1>1, <1>2, <1>6, <1>9 DEF RefsInv, RefsTrue, SameFrame
    <3> QED BY <1>1, <1>3, <1>9, <3>1 DEF RefsInv, RefsTrue
  <2>4. NoOrphanKept
    BY <1>3, <2>1 DEF NoOrphanKept, NoOrphan
  <2> QED BY <1>8, <2>2, <2>3, <2>4 DEF RefsInv
<1>10. CASE /\ pc' = "evict" /\ item' \in queue
            /\ queue' = (queue \ {item'}) \cup {y}
  <2>1. PICK x \in queue : x = item'
    BY <1>10
  <2>2. x \in Descriptors /\ x /= NoDescriptor
    BY <1>7, DescriptorFacts
  <2>3. InHand' = {x.frame}
    BY <2>1, <2>2 DEF InHand
  <2>4. QueuedFrames' = (QueuedFrames \ {x.frame}) \cup {item.frame}
    BY <1>2, <1>5, <1>10, <2>1 DEF QueuedFrames
  <2>5. x.frame \in QueuedFrames
    BY DEF QueuedFrames
  <2>6. RefsApart'
    <3>1. \A v, z \in queue' : v.frame = z.frame => v = z
      BY <1>2, <1>5, <1>10
    <3> QED BY <1>1, <1>3, <1>4, <1>5, <2>3, <2>4, <2>5, <3>1 DEF RefsInv, RefsApart
  <2>7. RefsTrue'
    <3>1. ASSUME NEW z \in queue' PROVE SameFrame(z)' /\ z.target \in Targets
      BY <1>1, <1>2, <1>6, <1>10 DEF RefsInv, RefsTrue, SameFrame
    <3>2. SameFrame(item)' /\ item'.target \in Targets
      BY <1>1, <2>1 DEF RefsInv, RefsTrue, SameFrame
    <3> QED BY <1>1, <1>3, <3>1, <3>2 DEF RefsInv, RefsTrue
  <2>8. NoOrphanKept
    BY <1>3, <2>3, <2>4, <2>5 DEF NoOrphanKept, NoOrphan
  <2> QED BY <1>8, <2>6, <2>7, <2>8 DEF RefsInv
<1> QED BY <1>2, <1>9, <1>10

\* An item goes from the queue into the hand.
LEMMA TakeItemRefs ==
    ASSUME RtosInv, RefsInv, RecTakeItem \/ PickNext
    PROVE  RefsInv' /\ NoOrphanKept
<1>1. PICK x \in queue :
         /\ item' = x /\ queue' = queue \ {x}
         /\ pc' \in {"rec_drop", "tx", "drop"} /\ pc \in {"rec_queue", "queue"}
  BY DEF RecTakeItem, PickNext, Pick, Goto
<1>2. UNCHANGED <<refs, frozen>>
  BY DEF RecTakeItem, PickNext, Pick
<1>3. x \in Descriptors /\ x /= NoDescriptor /\ item = NoDescriptor
  BY <1>1, DescriptorFacts DEF RtosInv, RtosTypeOK, RefsInv, EmptyHanded, ItemPCs
<1>4. /\ InHand = {} /\ InHand' = {x.frame} /\ InUse' = InUse
      /\ FrozenFrames' = FrozenFrames
  BY <1>1, <1>2, <1>3 DEF InHand, InUse, FrozenFrames
<1>5. QueuedFrames' = QueuedFrames \ {x.frame} /\ x.frame \in QueuedFrames
  BY <1>1 DEF QueuedFrames, RefsInv, RefsApart
<1>6. EmptyHanded' /\ (pc' = "rec_orphans" => queue' = {})
  BY <1>1 DEF EmptyHanded, ItemPCs
<1>7. RefsApart'
  BY <1>1, <1>2, <1>4, <1>5 DEF RefsInv, RefsApart
<1>8. RefsTrue'
  BY <1>1, <1>2, <1>4 DEF RefsInv, RefsTrue, SameFrame
<1>9. NoOrphanKept
  BY <1>4, <1>5 DEF NoOrphanKept, NoOrphan
<1> QED BY <1>6, <1>7, <1>8, <1>9 DEF RefsInv

LEMMA TxWritesRefs ==
    ASSUME RtosInv, RefsInv, TxWrites
    PROVE  RefsInv' /\ NoOrphanKept
<1>1. item \in Descriptors /\ item /= NoDescriptor
  BY DescriptorFacts DEF TxWrites, RtosInv, HasItem, ItemPCs
<1>2. /\ ClearRef(item.frame) /\ UNCHANGED <<queue, frozen>>
      /\ item' = NoDescriptor /\ pc' = "queue"
  BY DEF TxWrites, LocalsEnd
<1>3. InHand = {item.frame} /\ item.frame \in Frames /\ frozen \in Seq(Descriptors)
  BY <1>1, DescriptorFacts DEF InHand, RtosInv, RtosTypeOK
<1>4. item.frame \notin QueuedFrames \cup FrozenFrames /\ NoneTwice(frozen)
  BY <1>3 DEF RefsInv, RefsApart
<1>5. FrozenFrames' = FrozenFrames \ {item.frame}
  BY <1>2, <1>4 DEF FrozenFrames
<1> QED BY <1>2, <1>3, <1>4, <1>5, RefsCleared DEF ItemPCs

LEMMA DropRefs ==
    ASSUME RtosInv, RefsInv, RecDrop \/ SubmitDrops \/ EvictDrops \/ ItemDrops
    PROVE  RefsInv' /\ NoOrphanKept
<1>1. pc \in ItemPCs
  BY DEF RecDrop, SubmitDrops, EvictDrops, ItemDrops, Goto, ItemPCs
<1>2. item \in Descriptors /\ item /= NoDescriptor
  BY <1>1, DescriptorFacts DEF RtosInv, HasItem
<1>3. InHand = {item.frame}
  BY <1>2 DEF InHand
<1>4. item.frame \in InUse /\ item.frame \notin QueuedFrames \cup FrozenFrames
  BY <1>3 DEF RefsInv, RefsApart
<1>5. /\ SinkDone(item.frame) \/ SinkFails(item.frame)
      /\ item' = NoDescriptor /\ queue' = queue
      /\ pc' \in {"rx", "rec_queue", "rec_orphans", "rec_finish", "queue", "heartbeat"}
      /\ pc' = "rec_orphans" => queue = {}
  BY DEF RecDrop, SubmitDrops, EvictDrops, ItemDrops, Goto, ToOrphans, LocalsEnd
<1>6. pc' \notin ItemPCs
  BY <1>5 DEF ItemPCs
<1> QED BY <1>3, <1>4, <1>5, <1>6, SinkRefs

LEMMA OrphanRefs ==
    ASSUME RtosInv, RefsInv, RecOrphan
    PROVE  RefsInv' /\ NoOrphanKept
<1>1. PICK f \in InUse \ FrozenFrames : SinkDone(f)
  BY DEF RecOrphan, Orphans
<1>2. pc = "rec_orphans" /\ queue = {} /\ item = NoDescriptor
  BY DEF RecOrphan, RefsInv, EmptyHanded, ItemPCs
<1>3. QueuedFrames = {} /\ InHand = {}
  BY <1>2 DEF QueuedFrames, InHand
<1>4. item' = NoDescriptor /\ queue' = queue /\ pc' \notin ItemPCs
  BY DEF RecOrphan, LocalsEnd, ItemPCs
<1> QED BY <1>1, <1>2, <1>3, <1>4, SinkRefs

\* Everything else moves the control only.
LEMMA ControlRefs ==
    ASSUME RtosInv, RefsInv,
           \/ Start \/ Preflight \/ SkipRetry \/ SkipRecovery \/ RecQueueEmpty
           \/ RecOrphansDone \/ DrainEnter \/ ScheduleEnter \/ EndDoorbellRun
           \/ Monitor("pre_monitor", "retry") \/ Monitor("monitor", "recover")
           \/ RecoverStart \/ RecEnter \/ RecFinish
           \/ RxNextRing \/ RxBlocked \/ QueueLeave \/ TxFails
           \/ HeartbeatTask \/ ObserveHeartbeat
    PROVE  RefsInv' /\ NoOrphanKept
<1>1. UNCHANGED <<refs, queue, frozen, item>>
  BY DEF Start, Preflight, SkipRetry, SkipRecovery, RecQueueEmpty, RecOrphansDone,
         DrainEnter, ScheduleEnter, EndDoorbellRun, Jump, Monitor, RecoverStart, RecEnter,
         RecFinish, RxNextRing, RxBlocked, QueueLeave, TxFails, HeartbeatTask,
         ObserveHeartbeat, local, frameVars
<1>2. /\ pc \in ItemPCs <=> pc' \in ItemPCs
      /\ pc = "submit" => pc' = "submit"
      /\ pc' = "rec_orphans" => queue = {}
  BY DEF Start, Preflight, SkipRetry, SkipRecovery, RecQueueEmpty, RecOrphansDone,
         DrainEnter, ScheduleEnter, EndDoorbellRun, Jump, Monitor, RecoverStart, RecEnter,
         RecFinish, RxNextRing, RxBlocked, QueueLeave, TxFails, HeartbeatTask,
         ObserveHeartbeat, Goto, AfterRecovery, ToOrphans, ItemPCs, RefsInv
<1> QED BY <1>1, <1>2, RefsKept

\* Every step of the tasks keeps the references in order.
LEMMA RefsStep ==
    ASSUME RegionTypeOK, RtosInv, RefsInv, RtosNext
    PROVE  RefsInv' /\ NoOrphanKept
<1>1. CASE \/ RetryFirst \/ Retry("rec_retry", "rec_enter")
           \/ Retry("ipc_retry", "schedule") \/ Retry("sched_retry", "heartbeat")
  <2>1. \E at, next \in PCs \ ItemPCs :
           at /= "rec_orphans" /\ next /= "rec_orphans" /\ Retry(at, next)
    BY <1>1 DEF RetryFirst, PCs, ItemPCs
  <2> QED BY <2>1, RetryRefs
<1>2. CASE RxTake
  BY <1>2, RxTakeRefs
<1>3. CASE SubmitQueues \/ SubmitEvicts
  BY <1>3, SubmitRefs
<1>4. CASE RecTakeItem \/ PickNext
  BY <1>4, TakeItemRefs
<1>5. CASE TxWrites
  BY <1>5, TxWritesRefs
<1>6. CASE RecDrop \/ SubmitDrops \/ EvictDrops \/ ItemDrops
  BY <1>6, DropRefs
<1>7. CASE RecOrphan
  BY <1>7, OrphanRefs
<1> QED BY <1>1, <1>2, <1>3, <1>4, <1>5, <1>6, <1>7, ControlRefs DEF RtosNext, Run

-----------------------------------------------------------------------------
(* The references, across restarts. *)

\* The counts that RefsConsistent is about.
LEMMA RefsCounted ==
    ASSUME RtosInv, RefsInv
    PROVE  RefsConsistent
<1>1. IsFiniteSet(QueuedFrames) /\ IsFiniteSet(FrozenFrames)
  BY FramesFinite DEF RefsInv, RefsApart, InUse
<1>2. Cardinality(QueuedFrames) = Cardinality(queue)
  <2> DEFINE g == [f \in QueuedFrames |-> CHOOSE x \in queue : x.frame = f]
  <2>1. \A f \in QueuedFrames : g[f] \in queue /\ g[f].frame = f
    BY DEF QueuedFrames
  <2>2. \A x \in queue : x.frame \in QueuedFrames /\ g[x.frame] = x
    BY <2>1 DEF QueuedFrames, RefsInv, RefsApart
  <2>3. g \in [QueuedFrames -> queue]
    BY <2>1
  <2> HIDE DEF g
  <2>4. g \in Bijection(QueuedFrames, queue)
    BY <2>1, <2>2, <2>3 DEF Bijection, Injection, Surjection, IsInjective
  <2> QED BY <1>1, <2>4, FS_Bijection DEF ExistsBijection
<1>3. Cardinality(FrozenFrames) = Len(frozen)
  <2> DEFINE n == Len(frozen)
             g == [k \in 1 .. n |-> frozen[k].frame]
  <2>1. n \in Nat /\ DOMAIN frozen = 1 .. n
    BY DEF RtosInv, RtosTypeOK
  <2> HIDE DEF n
  <2>2. g \in [1 .. n -> FrozenFrames] /\ \A f \in FrozenFrames : \E k \in 1 .. n : g[k] = f
    BY <2>1 DEF FrozenFrames
  <2>3. \A k, l \in 1 .. n : g[k] = g[l] => k = l
    BY <2>1 DEF RefsInv, RefsApart, NoneTwice
  <2> HIDE DEF g
  <2>4. g \in Bijection(1 .. n, FrozenFrames)
    BY <2>2, <2>3 DEF Bijection, Injection, Surjection, IsInjective
  <2>5. IsFiniteSet(1 .. n) /\ Cardinality(1 .. n) = n
    BY <2>1, FS_Interval
  <2> QED BY <2>4, <2>5, FS_Bijection DEF ExistsBijection, n
<1> QED BY <1>2, <1>3 DEF RefsConsistent, RefsInv, RefsApart

TasksInv == FirmwareInv /\ RefsInv /\ Backpressure

LEMMA TasksInvInit ==
    ASSUME Init
    PROVE  TasksInv /\ NoOrphan /\ region = "ready"
<1>1. RtosInit /\ region = "ready"
  BY DEF Init, LinuxInit
<1>2. /\ InUse = {} /\ InHand = {} /\ QueuedFrames = {} /\ FrozenFrames = {}
      /\ NoneTwice(frozen)
  BY <1>1 DEF RtosInit, InUse, InHand, QueuedFrames, FrozenFrames, NoneTwice
<1>3. RefsInv
  BY <1>1, <1>2 DEF RtosInit, RefsInv, EmptyHanded, RefsApart, RefsTrue
<1>4. Backpressure /\ NoOrphan
  BY <1>1, <1>2 DEF RtosInit, Backpressure, NoOrphan
<1> QED BY <1>1, <1>3, <1>4, FirmwareInvInit DEF TasksInv

LEMMA TasksStutter ==
    ASSUME RefsInv, Backpressure, UNCHANGED rtosVars
    PROVE  RefsInv' /\ Backpressure' /\ (NoOrphan => NoOrphan')
<1>1. UNCHANGED <<pc, item, refs, queue, frozen, state>>
  BY DEF rtosVars, local, frameVars
<1>2. RefsInv'
  BY <1>1, RefsKept DEF RefsInv
<1> QED BY <1>1, <1>2 DEF Backpressure, NoOrphan, InUse, InHand, QueuedFrames, FrozenFrames

LEMMA TasksInvStep ==
    ASSUME LinuxInv, TasksInv, [Next]_vars
    PROVE  TasksInv' /\ NoOrphanKept
<1>1. FirmwareInv'
  BY FirmwareInvStep DEF TasksInv
<1>2. CASE Rtos
  BY <1>1, <1>2, RefsStep, BackStep DEF Rtos, TasksInv, FirmwareInv, RtosInv
<1>3. CASE UNCHANGED rtosVars
  BY <1>1, <1>3, TasksStutter DEF TasksInv, NoOrphanKept
<1>4. Rtos \/ UNCHANGED rtosVars
  BY DEF Next, Linux, FormatBegin, FormatHeader, FormatRings, vars
<1> QED BY <1>2, <1>3, <1>4

\* The inductive invariant of the tasks with their references.
THEOREM TasksInvariant == Spec => []TasksInv
<1> QED BY TasksInvInit, TasksInvStep, GatewayInvariant, PTL DEF Spec

\* Every frame the tasks know is in the hand, in the queue or frozen, in one
\* of them only, and has a reference to be sent or reclaimed with.
THEOREM GatewayRefsConsistent == Spec => []RefsConsistent
<1>1. TasksInv => RefsConsistent
  BY RefsCounted DEF TasksInv, FirmwareInv
<1> QED BY <1>1, TasksInvariant, PTL

\* The intake is shut while a reclaim is frozen, and not shut by one that has
\* been written.
THEOREM GatewayBackpressure == Spec => []Backpressure
<1>1. TasksInv => Backpressure
  BY DEF TasksInv
<1> QED BY <1>1, TasksInvariant, PTL

\* Only a format touches the header.
LEMMA LinuxHeader ==
    ASSUME LinuxNext
    PROVE  UNCHANGED header
<1> QED BY DEF LinuxNext, Alloc, FinishSubmit, Oversize, CommitFails, Commit, Egress,
       TakeTx, RejectTx, EgressRelease, DrainReclaim, TakeReclaim, RejectReclaim

\* As long as Linux is not started again no reference is left behind.
THEOREM GatewayNoOrphan == Spec /\ [][~FormatBegin]_vars => []NoOrphan
<1> DEFINE Inv == NoOrphan /\ region = "ready"
<1>1. Init => Inv
  BY TasksInvInit
<1>2. ASSUME LinuxInv, TasksInv, Inv, [Next]_vars, [~FormatBegin]_vars
      PROVE  Inv'
  <2>1. region' = "ready"
    <3>1. UNCHANGED header \/ FormatBegin \/ FormatHeader \/ FormatRings
      BY <1>2, LinuxHeader DEF Next, Rtos, vars, Linux
    <3>2. vars' = vars \/ ~FormatBegin
      BY <1>2
    <3>3. ~(FormatHeader \/ FormatRings)
      BY <1>2 DEF FormatHeader, FormatRings
    <3>4. UNCHANGED header
      BY <3>1, <3>2, <3>3 DEF vars
    <3> QED BY <1>2, <3>4 DEF header
  <2> QED BY <1>2, <2>1, TasksInvStep DEF NoOrphanKept
<1>3. Inv => NoOrphan
  OBVIOUS
<1> HIDE DEF Inv
<1> QED BY <1>1, <1>2, <1>3, GatewayInvariant, TasksInvariant, PTL DEF Spec

-----------------------------------------------------------------------------
(* The firmware does what FramePool expects of the RTOS: what it holds are    *)
(* its references.  The invariant of the pool is needed for one step: the     *)
(* intake would drop a descriptor whose frame the tasks have already, and     *)
(* that there never is one is what the pool and the tasks see to together.   *)

Held == {refs[f] : f \in InUse}

LEMMA HeldFacts ==
    ASSUME RtosInv, RefsInv
    PROVE  /\ \A f \in InUse : f \in Frames /\ refs[f] \in Held /\ refs[f] \in Descriptors
                               /\ refs[f].frame = f
           /\ \A f \in InUse : ClearRef(f) => Held' = Held \ {refs[f]}
<1>1. \A f \in InUse : f \in Frames /\ refs[f] \in Held /\ refs[f] \in Descriptors
                       /\ refs[f].frame = f
  BY DEF RtosInv, RtosTypeOK, RefsInv, RefsTrue, InUse, Held
<1>2. ASSUME NEW f \in InUse, ClearRef(f) PROVE Held' = Held \ {refs[f]}
  <2>1. refs' = [refs EXCEPT ![f] = NoDescriptor] /\ refs \in [Frames -> Descriptors \cup {NoDescriptor}]
    BY <1>2 DEF ClearRef, RtosInv, RtosTypeOK
  <2>2. InUse' = InUse \ {f} /\ \A g \in InUse \ {f} : refs'[g] = refs[g]
    BY <2>1 DEF InUse
  <2>3. \A g \in InUse \ {f} : refs[g] /= refs[f]
    BY <1>1
  <2> QED BY <2>2, <2>3 DEF Held
<1> QED BY <1>1, <1>2

\* The sink hands back what the reference says, or nothing.
LEMMA SinkPool ==
    ASSUME RtosInv, RefsInv, NEW f \in InUse, SinkDone(f) \/ SinkFails(f),
           UNCHANGED <<linuxVars, header, rx, tx>>
    PROVE  P!RtosNext \/ UNCHANGED P!vars
<1>1. CASE SinkWrites(f)
  <2>1. refs[f] \in Held /\ Held' = Held \ {refs[f]}
    BY <1>1, HeldFacts DEF SinkWrites
  <2>2. /\ Len(reclaim) < ReclaimDepth
        /\ reclaim' = Append(reclaim, refs[f])
        /\ UNCHANGED <<pool, filling, sending>>
    BY <1>1 DEF SinkWrites, ReclaimRoom, linuxVars
  <2>3. PICK d \in Held : d = refs[f]
    BY <2>1
  <2>4. P!RtosReclaim(d)
    BY <2>1, <2>2, <2>3 DEF P!RtosReclaim, P!pool, pool, P!header, header, Held
  <2>5. P!RtosNext
    BY <2>4 DEF P!RtosNext, Held
  <2> QED BY <2>5
<1>2. CASE SinkFreezes(f) \/ SinkFails(f)
  <2>1. UNCHANGED <<refs, reclaim>>
    BY <1>2 DEF SinkFreezes, SinkFails
  <2> QED BY <2>1 DEF P!vars, P!linuxVars, P!pool, linuxVars, pool, P!rings, P!header,
                      header, InUse
<1> QED BY <1>1, <1>2 DEF SinkDone

LEMMA RetryPool ==
    ASSUME RtosInv, RefsInv, NEW at, NEW next, Retry(at, next),
           UNCHANGED <<linuxVars, header>>
    PROVE  P!RtosNext \/ UNCHANGED P!vars
<1>1. CASE RetryWrites(at, next)
  <2>1. frozen \in Seq(Descriptors) /\ frozen /= <<>>
    BY <1>1 DEF RetryWrites, RtosInv, RtosTypeOK
  <2>2. PICK f \in InUse : f = Head(frozen).frame /\ Head(frozen) = refs[f]
    BY <2>1, TailFrames DEF RefsInv, RefsTrue, RefsApart, FrozenFrames
  <2>3. refs[f] \in Held /\ Held' = Held \ {refs[f]}
    BY <1>1, <2>2, HeldFacts DEF RetryWrites
  <2>4. /\ Len(reclaim) < ReclaimDepth
        /\ reclaim' = Append(reclaim, refs[f])
        /\ UNCHANGED <<rx, tx, pool, filling, sending>>
    BY <1>1, <2>2 DEF RetryWrites, ReclaimRoom, linuxVars
  <2>5. PICK d \in Held : d = refs[f]
    BY <2>3
  <2>6. P!RtosReclaim(d)
    BY <2>3, <2>4, <2>5 DEF P!RtosReclaim, P!pool, pool, P!header, header, Held
  <2>7. P!RtosNext
    BY <2>6 DEF P!RtosNext, Held
  <2> QED BY <2>7
<1>2. CASE RetryStops(at, next)
  <2>1. UNCHANGED <<refs, rings>>
    BY <1>2 DEF RetryStops, frameVars
  <2> QED BY <2>1 DEF P!vars, P!linuxVars, P!pool, linuxVars, pool, P!rings, rings,
                      P!header, header, InUse
<1> QED BY <1>1, <1>2 DEF Retry

\* An item is written to a TX ring as its reference has it, with the target of
\* the route.
LEMMA TxWritesPool ==
    ASSUME RtosInv, RefsInv, TxWrites, UNCHANGED <<linuxVars, header>>
    PROVE  P!RtosNext
<1>1. item \in Descriptors /\ item /= NoDescriptor /\ pc = "tx"
  BY DescriptorFacts DEF TxWrites, RtosInv, HasItem, ItemPCs
<1>2. PICK f \in InUse : f = item.frame
  BY <1>1 DEF RefsInv, RefsApart, InHand
<1>3. PICK t \in Targets : t = item.target
  BY <1>1 DEF RefsInv, RefsTrue
<1>4. refs[f] \in Descriptors /\ refs[f] \in Held /\ refs[f].frame = f
  BY HeldFacts
<1>5. refs[f].source = item.source /\ refs[f].epoch = item.epoch
  BY <1>1, <1>2 DEF RefsInv, RefsTrue, SameFrame
<1>6. [refs[f] EXCEPT !.target = t] = item
  BY <1>1, <1>2, <1>3, <1>4, <1>5 DEF Descriptors
<1>7. Held' = Held \ {refs[f]}
  BY <1>2, HeldFacts DEF TxWrites
<1>8. /\ Len(tx[t]) < RingDepth
      /\ tx' = [tx EXCEPT ![t] = Append(@, item)]
      /\ UNCHANGED <<rx, reclaim, pool, filling, sending>>
  BY <1>3 DEF TxWrites, TxRoom, linuxVars
<1>9. P!RtosForward(refs[f], t)
  BY <1>4, <1>6, <1>7, <1>8 DEF P!RtosForward, P!pool, pool, P!header, header, Held
<1> QED BY <1>4, <1>9 DEF P!RtosNext, Held

\* No descriptor comes in whose frame the tasks have already.
LEMMA RxTakePool ==
    ASSUME RegionTypeOK, RtosInv, RefsInv, P!OnePlace, RxTake, UNCHANGED <<linuxVars, header>>
    PROVE  P!RtosNext
<1>1. PICK i \in Interfaces : i = ScanOrder[port]
  BY ScanFacts DEF RtosInv, RtosTypeOK
<1>2. rx[i] \in Seq(Descriptors) /\ rx[i] /= <<>>
  BY <1>1 DEF RxTake, RxReadable, RegionTypeOK
<1>3. PICK d \in Descriptors : d = Head(rx[i]) /\ d.frame \in FramesOf(rx[i])
  BY <1>2, TailFrames
<1>4. d.frame \notin InUse
  <2>1. P!FramesOf(rx[i]) = FramesOf(rx[i])
    BY DEF P!FramesOf, FramesOf
  <2>2. ASSUME d.frame \in InUse PROVE d.frame \in P!HeldFrames
    <3>1. refs[d.frame] \in Held /\ refs[d.frame].frame = d.frame
      BY <2>2, HeldFacts
    <3> QED BY <3>1 DEF P!HeldFrames, Held
  <2> QED BY <1>3, <2>1, <2>2 DEF P!OnePlace
<1>5. d.frame \in Frames /\ d /= NoDescriptor /\ refs \in [Frames -> Descriptors \cup {NoDescriptor}]
  BY DescriptorFacts DEF RtosInv, RtosTypeOK
<1>6. /\ refs[d.frame] = NoDescriptor
      /\ refs' = [refs EXCEPT ![d.frame] = d]
      /\ rx' = [rx EXCEPT ![i] = Tail(rx[i])]
      /\ UNCHANGED <<tx, reclaim, pool, filling, sending>>
  BY <1>1, <1>3, <1>4, <1>5 DEF RxTake, InUse, linuxVars
<1>7. Held' = Held \cup {d}
  <2>1. /\ InUse' = InUse \cup {d.frame}
        /\ \A g \in InUse : refs'[g] = refs[g]
        /\ refs'[d.frame] = d
    BY <1>4, <1>5, <1>6 DEF InUse
  <2> QED BY <2>1 DEF Held
<1>8. P!RtosTake(i)
  BY <1>2, <1>3, <1>6, <1>7 DEF P!RtosTake, P!pool, pool, P!header, header, Held
<1> QED BY <1>8 DEF P!RtosNext

\* A step of the firmware is a step of the RTOS of FramePool, or none.
LEMMA RtosPool ==
    ASSUME RegionTypeOK, RtosInv, RefsInv, P!OnePlace, Rtos
    PROVE  P!RtosNext \/ UNCHANGED P!vars
<1>1. RtosNext /\ UNCHANGED <<linuxVars, header>>
  BY DEF Rtos
<1>2. CASE \/ RetryFirst \/ Retry("rec_retry", "rec_enter")
           \/ Retry("ipc_retry", "schedule") \/ Retry("sched_retry", "heartbeat")
  BY <1>1, <1>2, RetryPool DEF RetryFirst
<1>3. CASE RxTake
  BY <1>1, <1>3, RxTakePool
<1>4. CASE TxWrites
  BY <1>1, <1>4, TxWritesPool
<1>5. CASE RecDrop \/ SubmitDrops \/ EvictDrops \/ ItemDrops
  <2>1. pc \in ItemPCs
    BY <1>5 DEF RecDrop, SubmitDrops, EvictDrops, ItemDrops, Goto, ItemPCs
  <2>2. item.frame \in InUse
    BY <2>1, DescriptorFacts DEF RtosInv, HasItem, RefsInv, RefsApart, InHand
  <2>3. SinkDone(item.frame) \/ SinkFails(item.frame)
    BY <1>5 DEF RecDrop, SubmitDrops, EvictDrops, ItemDrops
  <2>4. UNCHANGED <<rx, tx>>
    BY <1>5 DEF RecDrop, SubmitDrops, EvictDrops, ItemDrops
  <2> QED BY <1>1, <2>2, <2>3, <2>4, SinkPool
<1>6. CASE RecOrphan
  <2>1. PICK f \in InUse : SinkDone(f)
    BY <1>6 DEF RecOrphan, Orphans
  <2>2. UNCHANGED <<rx, tx>>
    BY <1>6 DEF RecOrphan
  <2> QED BY <1>1, <2>1, <2>2, SinkPool
<1>7. CASE UNCHANGED <<refs, rings>>
  BY <1>1, <1>7 DEF P!vars, P!linuxVars, P!pool, linuxVars, pool, P!rings, rings,
                    P!header, header, InUse
<1>8. CASE \/ Start \/ Preflight \/ SkipRetry \/ SkipRecovery \/ RecQueueEmpty
           \/ RecOrphansDone \/ DrainEnter \/ ScheduleEnter \/ EndDoorbellRun
           \/ Monitor("pre_monitor", "retry") \/ Monitor("monitor", "recover")
           \/ RecoverStart \/ RecEnter \/ RecFinish
           \/ RxNextRing \/ RxBlocked \/ QueueLeave \/ TxFails
           \/ HeartbeatTask \/ ObserveHeartbeat
           \/ SubmitQueues \/ SubmitEvicts \/ RecTakeItem \/ PickNext
  <2>1. UNCHANGED <<refs, rings>>
    BY <1>8 DEF Start, Preflight, SkipRetry, SkipRecovery, RecQueueEmpty, RecOrphansDone,
         DrainEnter, ScheduleEnter, EndDoorbellRun, Jump, Monitor, RecoverStart, RecEnter,
         RecFinish, RxNextRing, RxBlocked, QueueLeave, TxFails, HeartbeatTask,
         ObserveHeartbeat, SubmitQueues, SubmitEvicts, RecTakeItem, PickNext, Pick, frameVars
  <2> QED BY <1>7, <2>1
<1> QED BY <1>1, <1>2, <1>3, <1>4, <1>5, <1>6, <1>8 DEF RtosNext, Run

\* A step of Linux is one of the pool.
LEMMA LinuxPool ==
    ASSUME LinuxNext, UNCHANGED rtosVars
    PROVE  P!Next
<1>1. UNCHANGED Held
  BY DEF Held, InUse, rtosVars, frameVars
<1>2. P!LinuxNext
  BY SameLinuxNext
<1> QED BY <1>1, <1>2 DEF P!Next, Held

LEMMA InitPool ==
    ASSUME Init
    PROVE  P!Init
<1>1. Held = {}
  BY DEF Init, RtosInit, Held, InUse
<1> QED BY <1>1 DEF Init, LinuxInit, P!Init, P!LinuxInit, Held, Frames, P!Frames,
                    AllFree, P!AllFree, NoMetadata, P!NoMetadata, NoneUsed, P!NoneUsed,
                    IdleThreads, P!IdleThreads, EmptyRings, P!EmptyRings

LEMMA PoolStep ==
    ASSUME P!PoolInv, [P!Next]_(P!vars)
    PROVE  P!PoolInv'
<1>1. P!LinuxInv /\ P!TypeOK
  BY DEF P!PoolInv
<1>2. P!LinuxInv'
  BY <1>1, P!PoolInvStep, PoolAssumptions, RegionAssumption, LinuxAssumption
<1>3. P!TypeOK'
  BY <1>1, P!PoolTypeStep, PoolAssumptions, RegionAssumption, LinuxAssumption
<1>4. P!RefInv'
  BY P!PoolRefsStep, PoolAssumptions, RegionAssumption, LinuxAssumption
<1> QED BY <1>2, <1>3, <1>4 DEF P!PoolInv

\* The invariant of the pool is one of the gateway while the region is good.
GoodPool == region = "ready" /\ P!PoolInv

LEMMA GoodPoolStep ==
    ASSUME TasksInv, GoodPool, [Next]_vars, [~FormatBegin]_vars
    PROVE  [P!Next]_(P!vars) /\ GoodPool'
<1>1. CASE FormatHeader \/ FormatRings
  BY <1>1 DEF FormatHeader, FormatRings, GoodPool
<1>2. CASE Linux
  <2>1. P!Next
    BY <1>2, LinuxPool DEF Linux
  <2>2. region' = "ready"
    BY <1>2, LinuxHeader DEF Linux, header, GoodPool
  <2>3. P!PoolInv'
    BY <2>1, PoolStep DEF GoodPool
  <2> QED BY <2>1, <2>2, <2>3 DEF GoodPool
<1>3. CASE Rtos \/ UNCHANGED vars
  <2>1. RegionTypeOK /\ RtosInv /\ RefsInv /\ P!OnePlace
    BY DEF TasksInv, FirmwareInv, GoodPool, P!PoolInv, P!RefInv
  <2>2. [P!Next]_(P!vars)
    <3>1. CASE Rtos
      BY <2>1, <3>1, RtosPool DEF P!Next
    <3>2. CASE UNCHANGED vars
      BY <3>2 DEF vars, P!vars, P!linuxVars, P!pool, linuxVars, pool, P!rings, rings,
                  P!header, header, InUse, rtosVars, frameVars
    <3> QED BY <1>3, <3>1, <3>2
  <2>3. region' = "ready"
    BY <1>3 DEF Rtos, header, GoodPool, vars
  <2>4. P!PoolInv'
    BY <2>2, PoolStep DEF GoodPool
  <2> QED BY <2>2, <2>3, <2>4 DEF GoodPool
<1>4. ~FormatBegin \/ UNCHANGED vars
  OBVIOUS
<1> QED BY <1>1, <1>2, <1>3, <1>4 DEF Next

LEMMA GoodPoolInit ==
    ASSUME Init
    PROVE  P!Init /\ GoodPool
<1>1. ASSUME P!Init PROVE P!PoolInv
  BY <1>1, P!PoolInvInit, P!PoolTypeInit, P!PoolRefsInit, PoolAssumptions,
     RegionAssumption, LinuxAssumption DEF P!PoolInv
<1> QED BY <1>1, InitPool, TasksInvInit DEF GoodPool

\* The two instances speak of one module.
LEMMA SameSpec ==
    /\ P!Init <=> Pool!Init
    /\ [P!Next]_(P!vars) <=> [Pool!Next]_(Pool!vars)
<1> USE DEF P!pool, Pool!pool, P!rings, Pool!rings, P!header, Pool!header,
            P!Frames, Pool!Frames
<1>1. P!Init <=> Pool!Init
  BY DEF P!Init, Pool!Init, P!LinuxInit, Pool!LinuxInit, P!AllFree, Pool!AllFree,
         P!NoMetadata, Pool!NoMetadata, P!NoneUsed, Pool!NoneUsed,
         P!IdleThreads, Pool!IdleThreads, P!EmptyRings, Pool!EmptyRings
<1>2. P!LinuxNext <=> Pool!LinuxNext
  BY DEF P!LinuxNext, Pool!LinuxNext, P!Alloc, Pool!Alloc, P!FinishSubmit,
         Pool!FinishSubmit, P!Oversize, Pool!Oversize, P!CommitFails, Pool!CommitFails,
         P!Commit, Pool!Commit, P!Committable, Pool!Committable, P!Egress, Pool!Egress,
         P!TakeTx, Pool!TakeTx, P!RejectTx, Pool!RejectTx, P!EgressRelease,
         Pool!EgressRelease, P!TxAcceptable, Pool!TxAcceptable, P!ReclaimAcceptable,
         Pool!ReclaimAcceptable, P!Release, Pool!Release, P!Releasable, Pool!Releasable,
         P!FreeFrame, Pool!FreeFrame, P!Decrement, Pool!Decrement, P!DrainReclaim,
         Pool!DrainReclaim, P!TakeReclaim, Pool!TakeReclaim, P!RejectReclaim,
         Pool!RejectReclaim
<1>3. P!RtosNext <=> Pool!RtosNext
  BY DEF P!RtosNext, Pool!RtosNext, P!RtosTake, Pool!RtosTake, P!RtosForward,
         Pool!RtosForward, P!RtosReclaim, Pool!RtosReclaim
<1>4. P!vars = Pool!vars
  BY DEF P!vars, Pool!vars, P!linuxVars, Pool!linuxVars
<1>5. P!vars' = Pool!vars'
  BY DEF P!vars, Pool!vars, P!linuxVars, Pool!linuxVars
<1> QED BY <1>1, <1>2, <1>3, <1>4, <1>5 DEF P!Next, Pool!Next

\* As long as Linux is not started again, the two sides together, with all the
\* states, recoveries and frozen reclaims of the firmware, do what FramePool
\* says of the frames.
THEOREM GatewayImplementsPool == Spec /\ [][~FormatBegin]_vars => ImplementsPool
<1>1. Init => Pool!Init /\ GoodPool
  BY GoodPoolInit, SameSpec
<1>2. TasksInv /\ GoodPool /\ [Next]_vars /\ [~FormatBegin]_vars
        => [Pool!Next]_(Pool!vars) /\ GoodPool'
  BY GoodPoolStep, SameSpec
<1> QED BY <1>1, <1>2, TasksInvariant, PTL DEF Spec, ImplementsPool, Pool!Spec

\* So no frame is leaked by the firmware either, none is referred to twice by
\* what it keeps, and nothing it hands back is turned down.
THEOREM GatewaySoleOwner ==
    Spec /\ [][~FormatBegin]_vars => [](P!SoleOwner /\ P!NothingTurnedDown)
<1>1. Init => GoodPool
  BY GoodPoolInit
<1>2. TasksInv /\ GoodPool /\ [Next]_vars /\ [~FormatBegin]_vars => GoodPool'
  BY GoodPoolStep
<1>3. GoodPool => P!SoleOwner /\ P!NothingTurnedDown
  BY P!SoleOwnerOfInv, PoolAssumptions, RegionAssumption, LinuxAssumption
  DEF GoodPool, P!PoolInv, P!RefInv
<1> QED BY <1>1, <1>2, <1>3, TasksInvariant, PTL DEF Spec
=============================================================================
