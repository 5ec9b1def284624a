-------------------------- MODULE FramePoolProofs --------------------------
(***************************************************************************)
(* The frame pool, for every number of frames, every set of interfaces and   *)
(* every quota: no sequence of allocations, commits, egress and reclaims of  *)
(* the threads makes a counter wrong, a quota exceeded or a release refused. *)
(***************************************************************************)
EXTENDS FramePool, FiniteSetTheorems, TLAPS

-----------------------------------------------------------------------------
(* The invariant of the Linux side, whatever the RTOS puts into the rings:   *)
(* no step of this proof says anything about the descriptors.               *)

\* Sets of frames are finite, so that they can be counted.
LEMMA FramesFinite ==
    ASSUME NEW S, S \subseteq Frames
    PROVE  IsFiniteSet(S) /\ Cardinality(S) \in Nat
<1>1. IsFiniteSet(Frames)
  BY FS_Interval, RegionAssumption DEF Frames
<1>2. IsFiniteSet(S)
  BY <1>1, FS_Subset
<1> QED BY <1>2, FS_CardinalityType

\* Appending a descriptor adds its frame.
LEMMA AppendFrames ==
    ASSUME NEW r \in Seq(Descriptors), NEW d \in Descriptors
    PROVE  /\ Append(r, d) \in Seq(Descriptors)
           /\ FramesOf(Append(r, d)) = FramesOf(r) \cup {d.frame}
           /\ NoneTwice(r) /\ d.frame \notin FramesOf(r) => NoneTwice(Append(r, d))
           /\ \A k \in DOMAIN Append(r, d) :
                 \/ k \in DOMAIN r /\ Append(r, d)[k] = r[k]
                 \/ Append(r, d)[k] = d
<1> DEFINE s == Append(r, d)
           n == Len(r)
<1>1. /\ n \in Nat /\ DOMAIN r = 1 .. n /\ DOMAIN s = 1 .. n + 1
      /\ s \in Seq(Descriptors)
      /\ \A k \in 1 .. n : s[k] = r[k]
      /\ s[n + 1] = d
  OBVIOUS
<1> HIDE DEF s, n
<1>2. \A k \in DOMAIN s : (k \in DOMAIN r /\ s[k] = r[k]) \/ (k = n + 1 /\ s[k] = d)
  BY <1>1
<1>3. FramesOf(s) = FramesOf(r) \cup {d.frame}
  <2>1. n + 1 \in DOMAIN s /\ DOMAIN r \subseteq DOMAIN s
    BY <1>1
  <2> QED BY <1>1, <1>2, <2>1 DEF FramesOf
<1>4. NoneTwice(r) /\ d.frame \notin FramesOf(r) => NoneTwice(s)
  BY <1>1, <1>2 DEF NoneTwice, FramesOf
<1> QED BY <1>1, <1>2, <1>3, <1>4 DEF s

\* Taking the oldest descriptor takes its frame away, if no other refers to it.
LEMMA TailFrames ==
    ASSUME NEW r \in Seq(Descriptors), r /= <<>>
    PROVE  /\ Head(r) \in Descriptors /\ Tail(r) \in Seq(Descriptors)
           /\ 1 \in DOMAIN r /\ Head(r) = r[1]
           /\ Head(r).frame \in FramesOf(r)
           /\ FramesOf(Tail(r)) \subseteq FramesOf(r)
           /\ FramesOf(r) = FramesOf(Tail(r)) \cup {Head(r).frame}
           /\ NoneTwice(r) => /\ NoneTwice(Tail(r))
                              /\ Head(r).frame \notin FramesOf(Tail(r))
           /\ \A k \in DOMAIN Tail(r) : k + 1 \in DOMAIN r /\ Tail(r)[k] = r[k + 1]
<1> DEFINE s == Tail(r)
           n == Len(r)
<1>1. /\ n \in Nat \ {0} /\ DOMAIN r = 1 .. n /\ DOMAIN s = 1 .. n - 1
      /\ s \in Seq(Descriptors) /\ Head(r) = r[1] /\ Head(r) \in Descriptors
      /\ \A k \in 1 .. n - 1 : s[k] = r[k + 1]
  OBVIOUS
<1> HIDE DEF s, n
<1>2. 1 \in DOMAIN r /\ \A k \in DOMAIN s : k + 1 \in DOMAIN r /\ s[k] = r[k + 1]
  BY <1>1
<1>3. \A k \in DOMAIN r : k = 1 \/ (k - 1 \in DOMAIN s /\ r[k] = s[k - 1])
  BY <1>1
<1>4. FramesOf(s) \subseteq FramesOf(r) /\ Head(r).frame \in FramesOf(r)
  BY <1>1, <1>2 DEF FramesOf
<1>5. FramesOf(r) = FramesOf(s) \cup {Head(r).frame}
  <2>1. ASSUME NEW f \in FramesOf(r), f /= Head(r).frame PROVE f \in FramesOf(s)
    <3>1. PICK k \in DOMAIN r : f = r[k].frame
      BY DEF FramesOf
    <3>2. k - 1 \in DOMAIN s /\ r[k] = s[k - 1]
      BY <1>1, <1>3, <2>1, <3>1
    <3> QED BY <3>1, <3>2 DEF FramesOf
  <2> QED BY <1>4, <2>1
<1>6. NoneTwice(r) => NoneTwice(s) /\ Head(r).frame \notin FramesOf(s)
  <2> SUFFICES ASSUME NoneTwice(r) PROVE NoneTwice(s) /\ Head(r).frame \notin FramesOf(s)
    OBVIOUS
  <2>1. ASSUME NEW k \in DOMAIN s, NEW l \in DOMAIN s, s[k].frame = s[l].frame
        PROVE  k = l
    <3>1. k + 1 = l + 1
      BY <1>2, <2>1 DEF NoneTwice
    <3> QED BY <1>1, <3>1
  <2>2. ASSUME NEW k \in DOMAIN s PROVE s[k].frame /= Head(r).frame
    <3>1. k + 1 \in DOMAIN r /\ s[k] = r[k + 1] /\ k + 1 /= 1
      BY <1>1, <1>2
    <3> QED BY <1>1, <1>2, <3>1 DEF NoneTwice
  <2> QED BY <2>1, <2>2 DEF NoneTwice, FramesOf
<1> QED BY <1>1, <1>2, <1>4, <1>5, <1>6 DEF s

\* What an interface owns is what its quota is about.
LEMMA OwnedFrames ==
    ASSUME LinuxTypeOK, NEW i \in Interfaces
    PROVE  Owned(i) \subseteq Frames /\ Cardinality(Owned(i)) \in Nat
<1>1. Owned(i) \subseteq Frames
  BY DEF Owned, LinuxTypeOK
<1> QED BY <1>1, FramesFinite

\* The counters after a frame has been allocated to interface i.
LEMMA AllocCounts ==
    ASSUME LinuxInv, NEW i \in Interfaces, NEW f \in Frames \ bitmap,
           qused[i] < Quota[i],
           bitmap' = bitmap \cup {f},
           fsource' = [fsource EXCEPT ![f] = i],
           used' = used + 1,
           qused' = [qused EXCEPT ![i] = @ + 1]
    PROVE  CountersExact' /\ WithinQuota' /\ SourcesKnown'
<1> USE DEF LinuxInv
<1>1. used' = Cardinality(bitmap')
  <2>1. IsFiniteSet(bitmap)
    BY FramesFinite DEF LinuxTypeOK
  <2> QED BY <2>1, FS_AddElement DEF CountersExact
<1>2. ASSUME NEW j \in Interfaces
      PROVE  /\ qused'[j] = Cardinality(Owned(j)')
             /\ Cardinality(Owned(j)') <= Quota[j]
  <2>1. qused[j] = Cardinality(Owned(j)) /\ Cardinality(Owned(j)) <= Quota[j]
    BY DEF CountersExact, WithinQuota
  <2>2. Owned(j)' = IF j = i THEN Owned(j) \cup {f} ELSE Owned(j)
    BY DEF Owned, LinuxTypeOK
  <2>3. IsFiniteSet(Owned(j)) /\ f \notin Owned(j) /\ Cardinality(Owned(j)) \in Nat
    BY OwnedFrames, FramesFinite DEF Owned
  <2>4. Cardinality(Owned(j) \cup {f}) = Cardinality(Owned(j)) + 1
    BY <2>3, FS_AddElement
  <2>5. qused'[j] = IF j = i THEN qused[j] + 1 ELSE qused[j]
    BY DEF LinuxTypeOK
  <2>6. Quota[j] \in Nat
    BY LinuxAssumption
  <2> QED BY <2>1, <2>2, <2>3, <2>4, <2>5, <2>6
<1>3. SourcesKnown'
  BY DEF SourcesKnown, LinuxTypeOK
<1> QED BY <1>1, <1>2, <1>3 DEF CountersExact, WithinQuota

\* The counters after a frame has been freed.
LEMMA FreeCounts ==
    ASSUME LinuxInv, NEW f \in bitmap, FreeFrame(f)
    PROVE  CountersExact' /\ WithinQuota' /\ SourcesKnown'
<1> USE DEF LinuxInv, FreeFrame
<1> DEFINE s == fsource[f]
<1>1. s \in Interfaces /\ f \in Frames /\ f \in Owned(s)
  BY DEF SourcesKnown, LinuxTypeOK, Owned
<1>2. used' = Cardinality(bitmap')
  <2>1. IsFiniteSet(bitmap) /\ Cardinality(bitmap) \in Nat
    BY FramesFinite DEF LinuxTypeOK
  <2>2. Cardinality(bitmap \ {f}) = Cardinality(bitmap) - 1
    BY <2>1, FS_RemoveElement
  <2>3. Cardinality(bitmap \ {f}) \in Nat
    BY <2>1, FS_RemoveElement, FS_CardinalityType
  <2> QED BY <2>1, <2>2, <2>3 DEF CountersExact, Decrement
<1>3. ASSUME NEW j \in Interfaces
      PROVE  /\ qused'[j] = Cardinality(Owned(j)')
             /\ Cardinality(Owned(j)') <= Quota[j]
  <2>1. qused[j] = Cardinality(Owned(j)) /\ Cardinality(Owned(j)) <= Quota[j]
    BY DEF CountersExact, WithinQuota
  <2>2. Owned(j)' = Owned(j) \ {f}
    BY DEF Owned, LinuxTypeOK
  <2>3. IsFiniteSet(Owned(j)) /\ Cardinality(Owned(j)) \in Nat /\ Quota[j] \in Nat
    BY OwnedFrames, FramesFinite, LinuxAssumption
  <2>4. CASE j = s
    <3>1. Cardinality(Owned(j) \ {f}) = Cardinality(Owned(j)) - 1
      BY <1>1, <2>3, <2>4, FS_RemoveElement
    <3>2. Cardinality(Owned(j) \ {f}) \in Nat
      BY <2>3, FS_RemoveElement, FS_CardinalityType
    <3>3. qused'[j] = Decrement(qused[j])
      BY <2>4 DEF LinuxTypeOK
    <3> QED BY <2>1, <2>2, <2>3, <3>1, <3>2, <3>3 DEF Decrement
  <2>5. CASE j /= s
    <3>1. Owned(j) \ {f} = Owned(j)
      BY <2>5 DEF Owned
    <3>2. qused'[j] = qused[j]
      BY <2>5 DEF LinuxTypeOK
    <3> QED BY <2>1, <2>2, <3>1, <3>2
  <2> QED BY <2>4, <2>5
<1>4. SourcesKnown'
  BY DEF SourcesKnown, LinuxTypeOK
<1> QED BY <1>2, <1>3, <1>4 DEF CountersExact, WithinQuota

\* A frame may be freed when the only thread that holds it lets go of it.
LEMMA FreeStep ==
    ASSUME LinuxInv, NEW f \in bitmap, FreeFrame(f),
           filling' \in [Interfaces -> Frames \cup {NoFrame}],
           sending' \in [Interfaces -> Frames \cup {NoFrame}],
           \A i \in Interfaces :
               /\ filling'[i] /= NoFrame => filling'[i] = filling[i] /\ filling[i] /= f
               /\ sending'[i] /= NoFrame => sending'[i] = sending[i] /\ sending[i] /= f
    PROVE  LinuxInv'
<1>1. CountersExact' /\ WithinQuota' /\ SourcesKnown'
  BY FreeCounts
<1>2. LinuxTypeOK'
  <2>1. Decrement(used) \in Nat /\ \A n \in Nat : Decrement(n) \in Nat
    BY DEF LinuxInv, LinuxTypeOK, Decrement
  <2> QED BY <2>1 DEF LinuxInv, LinuxTypeOK, FreeFrame, FrameStates
<1>3. FilledByOwner'
  BY DEF LinuxInv, LinuxTypeOK, FilledByOwner, Committable, FreeFrame
<1>4. SentByOne'
  BY DEF LinuxInv, LinuxTypeOK, SentByOne, FreeFrame
<1> QED BY <1>1, <1>2, <1>3, <1>4 DEF LinuxInv

\* The adapter gives up: its frame is nobody else's.
LEMMA GiveUpStep ==
    ASSUME LinuxInv, NEW i \in Interfaces, filling[i] /= NoFrame,
           Release(filling[i]), filling' = [filling EXCEPT ![i] = NoFrame],
           UNCHANGED sending
    PROVE  LinuxInv'
<1>1. Committable(filling[i], i)
  BY DEF LinuxInv, FilledByOwner
<1>2. filling[i] \in bitmap /\ FreeFrame(filling[i])
  BY <1>1 DEF Release, Releasable, Committable
<1>3. ASSUME NEW j \in Interfaces
      PROVE  /\ filling'[j] /= NoFrame => filling'[j] = filling[j] /\ filling[j] /= filling[i]
             /\ sending'[j] /= NoFrame => sending'[j] = sending[j] /\ sending[j] /= filling[i]
  <2>1. filling[j] /= NoFrame => fsource[filling[j]] = j
    BY DEF LinuxInv, FilledByOwner, Committable
  <2>2. sending[j] /= NoFrame => fstate[sending[j]] = "tx_ready"
    BY DEF LinuxInv, SentByOne
  <2> QED BY <1>1, <2>1, <2>2 DEF LinuxInv, LinuxTypeOK, Committable
<1>4. /\ filling' \in [Interfaces -> Frames \cup {NoFrame}]
      /\ sending' \in [Interfaces -> Frames \cup {NoFrame}]
  BY DEF LinuxInv, LinuxTypeOK
<1> QED BY <1>2, <1>3, <1>4, FreeStep

LEMMA AllocStep ==
    ASSUME LinuxInv, NEW i \in Interfaces, Alloc(i)
    PROVE  LinuxInv'
<1>1. PICK f \in Frames \ bitmap :
          /\ bitmap' = bitmap \cup {f}
          /\ fstate' = [fstate EXCEPT ![f] = "allocated"]
          /\ fsource' = [fsource EXCEPT ![f] = i]
          /\ ftarget' = [ftarget EXCEPT ![f] = NoInterface]
          /\ filling' = [filling EXCEPT ![i] = f]
  BY DEF Alloc
<1>2. /\ qused[i] < Quota[i]
      /\ used' = used + 1
      /\ qused' = [qused EXCEPT ![i] = @ + 1]
      /\ sending' = sending
  BY DEF Alloc
<1>3. CountersExact' /\ WithinQuota' /\ SourcesKnown'
  BY <1>1, <1>2, AllocCounts
<1>4. LinuxTypeOK'
  BY <1>1, <1>2 DEF LinuxInv, LinuxTypeOK, FrameStates
<1>5. FilledByOwner'
  BY <1>1 DEF LinuxInv, LinuxTypeOK, FilledByOwner, Committable
<1>6. SentByOne'
  BY <1>1, <1>2 DEF LinuxInv, LinuxTypeOK, SentByOne
<1> QED BY <1>3, <1>4, <1>5, <1>6 DEF LinuxInv

LEMMA CommitStep ==
    ASSUME LinuxInv, NEW i \in Interfaces, NEW t \in Targets, Commit(i, t)
    PROVE  LinuxInv'
<1> DEFINE f == filling[i]
<1>1. /\ f \in bitmap /\ f /= NoFrame
      /\ fstate[f] = "allocated" /\ fsource[f] = i
      /\ fstate' = [fstate EXCEPT ![f] = "rx_queued"]
      /\ ftarget' = [ftarget EXCEPT ![f] = t]
      /\ filling' = [filling EXCEPT ![i] = NoFrame]
      /\ UNCHANGED <<bitmap, fsource, used, qused, sending>>
  BY DEF Commit, Committable
<1>2. CountersExact' /\ WithinQuota' /\ SourcesKnown'
  BY <1>1 DEF LinuxInv, CountersExact, WithinQuota, SourcesKnown, Owned
<1>3. LinuxTypeOK'
  BY <1>1, RegionAssumption DEF LinuxInv, LinuxTypeOK, FrameStates
<1>4. FilledByOwner'
  BY <1>1 DEF LinuxInv, LinuxTypeOK, FilledByOwner, Committable
<1>5. SentByOne'
  BY <1>1 DEF LinuxInv, LinuxTypeOK, SentByOne
<1> QED BY <1>2, <1>3, <1>4, <1>5 DEF LinuxInv

LEMMA TakeTxStep ==
    ASSUME LinuxInv, NEW i \in Interfaces, TakeTx(i)
    PROVE  LinuxInv'
<1> DEFINE f == Head(tx[i]).frame
<1>1. /\ f \in bitmap /\ fstate[f] = "rx_queued"
      /\ fstate' = [fstate EXCEPT ![f] = "tx_ready"]
      /\ sending' = [sending EXCEPT ![i] = f]
      /\ UNCHANGED <<bitmap, fsource, ftarget, used, qused, filling>>
  BY DEF TakeTx, TxAcceptable
<1> HIDE DEF f
<1>2. CountersExact' /\ WithinQuota' /\ SourcesKnown'
  BY <1>1 DEF LinuxInv, CountersExact, WithinQuota, SourcesKnown, Owned
<1>3. LinuxTypeOK'
  BY <1>1 DEF LinuxInv, LinuxTypeOK, FrameStates
<1>4. FilledByOwner'
  BY <1>1 DEF LinuxInv, LinuxTypeOK, FilledByOwner, Committable
<1>5. SentByOne'
  BY <1>1 DEF LinuxInv, LinuxTypeOK, SentByOne
<1> QED BY <1>2, <1>3, <1>4, <1>5 DEF LinuxInv

LEMMA EgressReleaseStep ==
    ASSUME LinuxInv, NEW i \in Interfaces, EgressRelease(i)
    PROVE  LinuxInv'
<1> DEFINE f == sending[i]
<1>1. /\ f /= NoFrame /\ Release(f)
      /\ sending' = [sending EXCEPT ![i] = NoFrame]
      /\ UNCHANGED filling
  BY DEF EgressRelease
<1>2. f \in bitmap /\ fstate[f] = "tx_ready" /\ FreeFrame(f)
  BY <1>1 DEF LinuxInv, SentByOne, Release, Releasable
<1>3. ASSUME NEW j \in Interfaces
      PROVE  /\ filling'[j] /= NoFrame => filling'[j] = filling[j] /\ filling[j] /= f
             /\ sending'[j] /= NoFrame => sending'[j] = sending[j] /\ sending[j] /= f
  BY <1>1, <1>2 DEF LinuxInv, LinuxTypeOK, FilledByOwner, Committable, SentByOne
<1>4. /\ filling' \in [Interfaces -> Frames \cup {NoFrame}]
      /\ sending' \in [Interfaces -> Frames \cup {NoFrame}]
  BY <1>1 DEF LinuxInv, LinuxTypeOK
<1> QED BY <1>2, <1>3, <1>4, FreeStep

LEMMA TakeReclaimStep ==
    ASSUME LinuxInv, TakeReclaim
    PROVE  LinuxInv'
<1> DEFINE f == Head(reclaim).frame
<1>1. /\ f \in bitmap /\ fstate[f] = "rx_queued" /\ FreeFrame(f)
      /\ UNCHANGED <<filling, sending>>
  BY DEF TakeReclaim, ReclaimAcceptable, TxAcceptable
<1>2. ASSUME NEW j \in Interfaces
      PROVE  /\ filling'[j] /= NoFrame => filling'[j] = filling[j] /\ filling[j] /= f
             /\ sending'[j] /= NoFrame => sending'[j] = sending[j] /\ sending[j] /= f
  BY <1>1 DEF LinuxInv, FilledByOwner, Committable, SentByOne
<1>3. /\ filling' \in [Interfaces -> Frames \cup {NoFrame}]
      /\ sending' \in [Interfaces -> Frames \cup {NoFrame}]
  BY <1>1 DEF LinuxInv, LinuxTypeOK
<1> QED BY <1>1, <1>2, <1>3, FreeStep

LEMMA LinuxStutter ==
    ASSUME LinuxInv, UNCHANGED linuxVars
    PROVE  LinuxInv'
<1>1. UNCHANGED <<bitmap, fstate, fsource, ftarget, used, qused, filling, sending>>
  BY DEF linuxVars, pool
<1>2. LinuxTypeOK' /\ SourcesKnown'
  BY <1>1 DEF LinuxInv, LinuxTypeOK, SourcesKnown
<1>3. CountersExact' /\ WithinQuota'
  BY <1>1 DEF LinuxInv, CountersExact, WithinQuota, Owned
<1>4. FilledByOwner' /\ SentByOne'
  BY <1>1 DEF LinuxInv, FilledByOwner, Committable, SentByOne
<1> QED BY <1>2, <1>3, <1>4 DEF LinuxInv

-----------------------------------------------------------------------------
\* A pool that has been formatted satisfies the invariant.
THEOREM LinuxInvInit ==
    ASSUME bitmap = {}, fstate = AllFree, fsource = NoMetadata,
           ftarget = NoMetadata, used = 0, qused = NoneUsed,
           filling = IdleThreads, sending = IdleThreads
    PROVE  LinuxInv
<1>1. Cardinality({}) = 0
  BY FS_EmptySet
<1>2. \A i \in Interfaces : Owned(i) = {} /\ Quota[i] \in Nat
  BY LinuxAssumption DEF Owned
<1>3. CountersExact /\ WithinQuota
  BY <1>1, <1>2 DEF CountersExact, WithinQuota, NoneUsed
<1>4. LinuxTypeOK
  BY DEF LinuxTypeOK, AllFree, NoMetadata, NoneUsed, IdleThreads, FrameStates
<1>5. SourcesKnown /\ FilledByOwner /\ SentByOne
  BY DEF SourcesKnown, FilledByOwner, SentByOne, IdleThreads
<1> QED BY <1>3, <1>4, <1>5 DEF LinuxInv

\* Every step of the Linux side preserves the invariant.
THEOREM LinuxInvStep ==
    ASSUME LinuxInv, LinuxNext
    PROVE  LinuxInv'
<1>1. ASSUME NEW i \in Interfaces, Alloc(i) PROVE LinuxInv'
  BY <1>1, AllocStep
<1>2. ASSUME NEW i \in Interfaces, Oversize(i) PROVE LinuxInv'
  BY <1>2, GiveUpStep DEF Oversize
<1>3. ASSUME NEW i \in Interfaces, CommitFails(i) PROVE LinuxInv'
  BY <1>3, GiveUpStep DEF CommitFails
<1>4. ASSUME NEW i \in Interfaces, NEW t \in Targets, Commit(i, t) PROVE LinuxInv'
  BY <1>4, CommitStep
<1>5. ASSUME NEW i \in Interfaces, TakeTx(i) PROVE LinuxInv'
  BY <1>5, TakeTxStep
<1>6. ASSUME NEW i \in Interfaces, RejectTx(i) PROVE LinuxInv'
  BY <1>6, LinuxStutter DEF RejectTx, linuxVars
<1>7. ASSUME NEW i \in Interfaces, EgressRelease(i) PROVE LinuxInv'
  BY <1>7, EgressReleaseStep
<1>8. CASE TakeReclaim
  BY <1>8, TakeReclaimStep
<1>9. CASE RejectReclaim
  BY <1>9, LinuxStutter DEF RejectReclaim, linuxVars
<1> QED BY <1>1, <1>2, <1>3, <1>4, <1>5, <1>6, <1>7, <1>8, <1>9
        DEF LinuxNext, FinishSubmit, Egress, DrainReclaim

\* Linux writes descriptors of the running boot into the rings and takes some out.
THEOREM LinuxRegionStep ==
    ASSUME RegionTypeOK, LinuxInv, LinuxNext
    PROVE  RegionTypeOK'
<1>1. UNCHANGED header
  BY DEF LinuxNext, Alloc, FinishSubmit, Oversize, CommitFails, Commit, Egress, TakeTx,
         RejectTx, EgressRelease, DrainReclaim, TakeReclaim, RejectReclaim
<1>2. ASSUME NEW i \in Interfaces, NEW t \in Targets, Commit(i, t)
      PROVE  rx' \in [Interfaces -> Seq(Descriptors)] /\ UNCHANGED <<tx, reclaim>>
  <2> DEFINE d == [frame |-> filling[i], source |-> i, target |-> t, epoch |-> linux_epoch]
  <2>1. filling[i] \in Frames
    BY <1>2 DEF Commit, LinuxInv, LinuxTypeOK
  <2>2. d \in Descriptors
    BY <2>1, RegionAssumption DEF Descriptors, RegionTypeOK
  <2>3. rx' = [rx EXCEPT ![i] = Append(rx[i], d)] /\ UNCHANGED <<tx, reclaim>>
    BY <1>2 DEF Commit
  <2> HIDE DEF d
  <2> QED BY <2>2, <2>3 DEF RegionTypeOK
<1>3. ASSUME NEW i \in Interfaces, TakeTx(i) \/ RejectTx(i)
      PROVE  tx' \in [Interfaces -> Seq(Descriptors)] /\ UNCHANGED <<rx, reclaim>>
  <2>1. tx[i] \in Seq(Descriptors) /\ tx[i] /= <<>>
    BY <1>3 DEF TakeTx, RejectTx, RegionTypeOK
  <2>2. Tail(tx[i]) \in Seq(Descriptors)
    BY <2>1
  <2> QED BY <1>3, <2>2 DEF TakeTx, RejectTx, RegionTypeOK
<1>4. ASSUME TakeReclaim \/ RejectReclaim
      PROVE  reclaim' \in Seq(Descriptors) /\ UNCHANGED <<rx, tx>>
  <2>1. reclaim \in Seq(Descriptors) /\ reclaim /= <<>>
    BY <1>4 DEF TakeReclaim, RejectReclaim, RegionTypeOK
  <2>2. Tail(reclaim) \in Seq(Descriptors)
    BY <2>1
  <2>3. reclaim' = Tail(reclaim) /\ rx' = rx /\ tx' = tx
    BY <1>4 DEF TakeReclaim, RejectReclaim
  <2> QED BY <2>2, <2>3
<1>5. ASSUME NEW i \in Interfaces, Alloc(i) \/ Oversize(i) \/ CommitFails(i) \/ EgressRelease(i)
      PROVE  UNCHANGED rings
  BY <1>5 DEF Alloc, Oversize, CommitFails, EgressRelease
<1> QED BY <1>1, <1>2, <1>3, <1>4, <1>5
        DEF LinuxNext, FinishSubmit, Egress, DrainReclaim, RegionTypeOK, rings, header

\* What the invariant says about the release API.
THEOREM LinuxInvReleases ==
    ASSUME LinuxInv
    PROVE  NeverRefused
<1> QED BY DEF LinuxInv, FilledByOwner, SentByOne, Committable, NeverRefused, Releasable

-----------------------------------------------------------------------------
(* The pool with its abstract RTOS.                                          *)

LEMMA PoolInvInit ==
    ASSUME Init
    PROVE  LinuxInv
<1> QED BY LinuxInvInit DEF Init, LinuxInit

\* The RTOS has no access to what the invariant is about.
LEMMA PoolInvStep ==
    ASSUME LinuxInv, [Next]_vars
    PROVE  LinuxInv'
<1>1. CASE LinuxNext /\ UNCHANGED held
  BY <1>1, LinuxInvStep
<1>2. CASE RtosNext
  <2>1. UNCHANGED linuxVars
    BY <1>2 DEF RtosNext, RtosTake, RtosForward, RtosReclaim, linuxVars
  <2> QED BY <2>1, LinuxStutter
<1>3. CASE UNCHANGED vars
  BY <1>3, LinuxStutter DEF vars
<1> QED BY <1>1, <1>2, <1>3 DEF Next

\* The inductive invariant of the Linux side.
THEOREM PoolInvariant == Spec => []LinuxInv
<1> QED BY PoolInvInit, PoolInvStep, PTL DEF Spec

LEMMA PoolTypeInit ==
    ASSUME Init
    PROVE  TypeOK
<1>1. RegionTypeOK
  BY DEF Init, LinuxInit, RegionTypeOK, EmptyRings
<1> QED BY <1>1, PoolInvInit DEF Init, TypeOK, LinuxInv

\* The types need the invariant: what a commit writes into a ring is a frame.
LEMMA PoolTypeStep ==
    ASSUME LinuxInv, TypeOK, [Next]_vars
    PROVE  TypeOK'
<1>1. LinuxTypeOK'
  BY PoolInvStep DEF LinuxInv
<1>2. CASE LinuxNext /\ UNCHANGED held
  BY <1>1, <1>2, LinuxRegionStep DEF TypeOK
<1>3. ASSUME NEW i \in Interfaces, RtosTake(i) PROVE TypeOK'
  <2>1. rx[i] \in Seq(Descriptors) /\ rx[i] /= <<>>
    BY <1>3 DEF RtosTake, TypeOK, RegionTypeOK
  <2>2. Head(rx[i]) \in Descriptors /\ Tail(rx[i]) \in Seq(Descriptors)
    BY <2>1
  <2> QED BY <1>1, <1>3, <2>2 DEF RtosTake, TypeOK, RegionTypeOK, header
<1>4. ASSUME NEW d \in held, NEW t \in Targets, RtosForward(d, t) PROVE TypeOK'
  <2> DEFINE e == [d EXCEPT !.target = t]
  <2>1. e \in Descriptors
    BY RegionAssumption DEF TypeOK, Descriptors
  <2>2. /\ tx' = [tx EXCEPT ![t] = Append(tx[t], e)] /\ held' = held \ {d}
        /\ UNCHANGED <<rx, reclaim, header>>
    BY <1>4 DEF RtosForward
  <2> HIDE DEF e
  <2> QED BY <1>1, <2>1, <2>2, RegionAssumption DEF TypeOK, RegionTypeOK, header
<1>5. ASSUME NEW d \in held, RtosReclaim(d) PROVE TypeOK'
  <2>1. d \in Descriptors
    BY DEF TypeOK
  <2>2. Append(reclaim, d) \in Seq(Descriptors)
    BY <2>1 DEF TypeOK, RegionTypeOK
  <2> QED BY <1>1, <1>5, <2>2 DEF RtosReclaim, TypeOK, RegionTypeOK, header
<1>6. CASE UNCHANGED vars
  BY <1>1, <1>6 DEF vars, TypeOK, RegionTypeOK, rings, header
<1> QED BY <1>2, <1>3, <1>4, <1>5, <1>6 DEF Next, RtosNext

\* The types of the pool and of the rings.
THEOREM PoolTypeOK == Spec => []TypeOK
<1>1. LinuxInv /\ TypeOK /\ [Next]_vars => TypeOK'
  BY PoolTypeStep
<1> QED BY <1>1, PoolTypeInit, PoolInvariant, PTL DEF Spec

\* The counters of the pool and of the quotas are those of the bitmap.
THEOREM PoolCountersExact == Spec => []CountersExact
<1>1. LinuxInv => CountersExact
  BY DEF LinuxInv
<1> QED BY <1>1, PoolInvariant, PTL

\* No interface holds more frames than its quota.
THEOREM PoolWithinQuota == Spec => []WithinQuota
<1>1. LinuxInv => WithinQuota
  BY DEF LinuxInv
<1> QED BY <1>1, PoolInvariant, PTL

\* The release API never refuses what a thread hands it.
THEOREM PoolNeverRefused == Spec => []NeverRefused
<1> QED BY LinuxInvReleases, PoolInvariant, PTL

-----------------------------------------------------------------------------
(* Where the frames are.  First the steps of the threads that hold a frame.  *)

\* What happens to a frame that no descriptor refers to is of no concern to
\* the descriptors.
LEMMA ElsewhereStep ==
    ASSUME TypeOK, RefInv, NEW f \in Frames,
           f \notin bitmap \/ fstate[f] /= "rx_queued",
           UNCHANGED <<rx, tx, reclaim, held>>,
           \A g \in Frames \ {f} :
               /\ g \in bitmap => g \in bitmap'
               /\ fstate'[g] = fstate[g]
               /\ fsource'[g] = fsource[g]
               /\ ftarget'[g] = ftarget[g]
    PROVE  NothingTurnedDown' /\ NothingChanged' /\ OnePlace'
<1>1. ASSUME NEW d \in Descriptors, TxAcceptable(d)
      PROVE  TxAcceptable(d)' /\ (ReclaimAcceptable(d) => ReclaimAcceptable(d)')
  <2>1. d.frame \in Frames \ {f}
    BY <1>1 DEF TxAcceptable, Descriptors
  <2> QED BY <1>1, <2>1 DEF TxAcceptable, ReclaimAcceptable
<1>2. ASSUME NEW i \in Interfaces
      PROVE  /\ \A k \in DOMAIN rx[i] : rx[i][k] \in Descriptors
             /\ \A k \in DOMAIN tx[i] : tx[i][k] \in Descriptors
  <2>1. rx[i] \in Seq(Descriptors) /\ tx[i] \in Seq(Descriptors)
    BY DEF TypeOK, RegionTypeOK
  <2> QED BY <2>1
<1>3. \A k \in DOMAIN reclaim : reclaim[k] \in Descriptors
  BY DEF TypeOK, RegionTypeOK
<1>4. held \subseteq Descriptors
  BY DEF TypeOK
<1>5. \A d : ReclaimAcceptable(d) => TxAcceptable(d)
  BY DEF ReclaimAcceptable
<1>6. NothingTurnedDown' /\ NothingChanged'
  BY <1>1, <1>2, <1>3, <1>4, <1>5 DEF RefInv, NothingTurnedDown, NothingChanged
<1>7. OnePlace'
  BY DEF RefInv, OnePlace, HeldFrames
<1> QED BY <1>6, <1>7

LEMMA AllocRefs ==
    ASSUME PoolInv, NEW i \in Interfaces, Alloc(i), UNCHANGED held
    PROVE  RefInv'
<1> USE DEF PoolInv
<1>1. PICK f \in Frames \ bitmap :
          /\ bitmap' = bitmap \cup {f}
          /\ fstate' = [fstate EXCEPT ![f] = "allocated"]
          /\ fsource' = [fsource EXCEPT ![f] = i]
          /\ ftarget' = [ftarget EXCEPT ![f] = NoInterface]
          /\ filling' = [filling EXCEPT ![i] = f]
  BY DEF Alloc
<1>2. UNCHANGED <<rx, tx, reclaim, held, sending>> /\ filling[i] = NoFrame
  BY DEF Alloc, rings
<1>3. NothingTurnedDown' /\ NothingChanged' /\ OnePlace'
  BY <1>1, <1>2, ElsewhereStep DEF TypeOK, LinuxTypeOK
<1>4. NoneLost'
  <2>1. filling'[i] = f /\ fstate'[f] = "allocated"
    BY <1>1 DEF TypeOK, LinuxTypeOK
  <2>2. ASSUME NEW g \in bitmap
        PROVE  /\ fstate'[g] = fstate[g]
               /\ OnItsWay(g)' <=> OnItsWay(g)
               /\ \A j \in Interfaces : filling[j] = g => filling'[j] = g
    BY <1>1, <1>2, LinuxAssumption DEF TypeOK, LinuxTypeOK, OnItsWay, HeldFrames
  <2> QED BY <1>1, <1>2, <2>1, <2>2 DEF RefInv, NoneLost
<1> QED BY <1>3, <1>4 DEF RefInv

\* A thread lets go of the frame it holds: f is freed and nobody's.
LEMMA FreeRefs ==
    ASSUME PoolInv, NEW f \in bitmap, fstate[f] /= "rx_queued", FreeFrame(f),
           UNCHANGED <<rx, tx, reclaim, held>>,
           \A i \in Interfaces :
               /\ filling[i] \in bitmap \ {f} => filling'[i] = filling[i]
               /\ sending[i] \in bitmap \ {f} => sending'[i] = sending[i]
    PROVE  RefInv'
<1> USE DEF PoolInv
<1>1. f \in Frames
  BY DEF TypeOK, LinuxTypeOK
<1>2. NothingTurnedDown' /\ NothingChanged' /\ OnePlace'
  BY <1>1, ElsewhereStep DEF TypeOK, LinuxTypeOK, FreeFrame
<1>3. NoneLost'
  <2>1. ASSUME NEW g \in bitmap'
        PROVE  /\ g \in bitmap \ {f} /\ fstate'[g] = fstate[g]
               /\ OnItsWay(g)' <=> OnItsWay(g)
    BY DEF FreeFrame, TypeOK, LinuxTypeOK, OnItsWay, HeldFrames
  <2> QED BY <2>1 DEF RefInv, NoneLost
<1> QED BY <1>2, <1>3 DEF RefInv

LEMMA GiveUpRefs ==
    ASSUME PoolInv, NEW i \in Interfaces, Oversize(i) \/ CommitFails(i), UNCHANGED held
    PROVE  RefInv'
<1> USE DEF PoolInv
<1> DEFINE f == filling[i]
<1>1. /\ f /= NoFrame /\ Release(f)
      /\ filling' = [filling EXCEPT ![i] = NoFrame]
      /\ UNCHANGED <<sending, rx, tx, reclaim>>
  BY DEF Oversize, CommitFails, rings
<1>2. f \in bitmap /\ fstate[f] = "allocated"
  BY <1>1 DEF LinuxInv, FilledByOwner, Committable
<1>3. FreeFrame(f)
  BY <1>1, <1>2 DEF Release, Releasable
<1>4. \A j \in Interfaces : filling[j] \in bitmap \ {f} => filling'[j] = filling[j]
  BY <1>1 DEF TypeOK, LinuxTypeOK
<1> QED BY <1>1, <1>2, <1>3, <1>4, FreeRefs

LEMMA EgressReleaseRefs ==
    ASSUME PoolInv, NEW i \in Interfaces, EgressRelease(i), UNCHANGED held
    PROVE  RefInv'
<1> USE DEF PoolInv
<1> DEFINE f == sending[i]
<1>1. /\ f /= NoFrame /\ Release(f)
      /\ sending' = [sending EXCEPT ![i] = NoFrame]
      /\ UNCHANGED <<filling, rx, tx, reclaim>>
  BY DEF EgressRelease, rings
<1>2. f \in bitmap /\ fstate[f] = "tx_ready"
  BY <1>1 DEF LinuxInv, SentByOne
<1>3. FreeFrame(f)
  BY <1>1, <1>2 DEF Release, Releasable
<1>4. \A j \in Interfaces : sending[j] \in bitmap \ {f} => sending'[j] = sending[j]
  BY <1>1 DEF TypeOK, LinuxTypeOK
<1> QED BY <1>1, <1>2, <1>3, <1>4, FreeRefs

-----------------------------------------------------------------------------
(* The steps that move a reference from one place to the next.               *)

LEMMA CommitRefs ==
    ASSUME PoolInv, NEW i \in Interfaces, NEW t \in Targets, Commit(i, t), UNCHANGED held
    PROVE  RefInv'
<1> USE DEF PoolInv
<1>1. PICK f, d :
          /\ f \in bitmap /\ f \in Frames /\ fstate[f] = "allocated" /\ fsource[f] = i
          /\ d = [frame |-> f, source |-> i, target |-> t, epoch |-> linux_epoch]
          /\ bitmap' = bitmap /\ fsource' = fsource /\ sending' = sending
          /\ filling[i] = f
          /\ fstate' = [fstate EXCEPT ![f] = "rx_queued"]
          /\ ftarget' = [ftarget EXCEPT ![f] = t]
          /\ filling' = [filling EXCEPT ![i] = NoFrame]
          /\ rx' = [rx EXCEPT ![i] = Append(rx[i], d)]
          /\ tx' = tx /\ reclaim' = reclaim /\ held' = held
  BY DEF Commit, Committable, TypeOK, LinuxTypeOK
<1>2. d \in Descriptors /\ d.frame = f /\ d.source = i /\ d.target = t
  BY <1>1, RegionAssumption DEF TypeOK, RegionTypeOK, Descriptors
<1>3. /\ \A j \in Interfaces : rx[j] \in Seq(Descriptors) /\ tx[j] \in Seq(Descriptors)
      /\ reclaim \in Seq(Descriptors) /\ held \subseteq Descriptors
      /\ rx'[i] = Append(rx[i], d) /\ \A j \in Interfaces \ {i} : rx'[j] = rx[j]
  BY <1>1 DEF TypeOK, RegionTypeOK
\* No descriptor refers to a frame that is only allocated.
<1>4. /\ \A j \in Interfaces : f \notin FramesOf(rx[j]) \cup FramesOf(tx[j])
      /\ f \notin FramesOf(reclaim) \cup HeldFrames
  BY <1>1 DEF RefInv, NothingTurnedDown, NothingChanged, TxAcceptable,
              ReclaimAcceptable, FramesOf, HeldFrames
<1>5. /\ FramesOf(rx'[i]) = FramesOf(rx[i]) \cup {f}
      /\ NoneTwice(rx[i]) => NoneTwice(rx'[i])
      /\ \A k \in DOMAIN rx'[i] :
            \/ k \in DOMAIN rx[i] /\ rx'[i][k] = rx[i][k]
            \/ rx'[i][k] = d
  BY <1>2, <1>3, <1>4, AppendFrames
<1>6. ReclaimAcceptable(d)'
  BY <1>1, <1>2 DEF ReclaimAcceptable, TxAcceptable, TypeOK, LinuxTypeOK
<1>7. ASSUME NEW e \in Descriptors, TxAcceptable(e)
      PROVE  TxAcceptable(e)' /\ (ReclaimAcceptable(e) => ReclaimAcceptable(e)')
  BY <1>1, <1>7 DEF TxAcceptable, ReclaimAcceptable, TypeOK, LinuxTypeOK
<1>8. \A e : ReclaimAcceptable(e) => TxAcceptable(e)
  BY DEF ReclaimAcceptable
<1>9. NothingTurnedDown'
  <2>1. \A j \in Interfaces : \A k \in DOMAIN tx[j] : tx[j][k] \in Descriptors
    BY <1>3
  <2>2. \A k \in DOMAIN reclaim : reclaim[k] \in Descriptors
    BY <1>3
  <2> QED BY <1>1, <1>7, <1>8, <2>1, <2>2 DEF RefInv, NothingTurnedDown
<1>10. NothingChanged'
  <2>1. \A j \in Interfaces : \A k \in DOMAIN rx[j] : rx[j][k] \in Descriptors
    BY <1>3
  <2> QED BY <1>1, <1>3, <1>5, <1>6, <1>7, <1>8, <2>1 DEF RefInv, NothingChanged
<1>11. OnePlace'
  <2>1. \A j \in Interfaces :
           /\ FramesOf(rx'[j]) = IF j = i THEN FramesOf(rx[i]) \cup {f} ELSE FramesOf(rx[j])
           /\ NoneTwice(rx[j]) => NoneTwice(rx'[j])
    BY <1>3, <1>5
  <2>2. HeldFrames' = HeldFrames
    BY <1>1 DEF HeldFrames
  <2> HIDE DEF PoolInv
  <2>3. OnePlace
    BY DEF PoolInv, RefInv
  <2>4. ASSUME NEW j \in Interfaces, NEW k \in Interfaces
        PROVE  /\ j /= k => FramesOf(rx'[j]) \cap FramesOf(rx'[k]) = {}
               /\ FramesOf(rx'[j]) \cap FramesOf(tx[k]) = {}
               /\ FramesOf(rx'[j]) \cap (FramesOf(reclaim) \cup HeldFrames) = {}
    <3>1. /\ j /= k => FramesOf(rx[j]) \cap FramesOf(rx[k]) = {}
          /\ FramesOf(rx[j]) \cap FramesOf(tx[k]) = {}
          /\ FramesOf(rx[j]) \cap (FramesOf(reclaim) \cup HeldFrames) = {}
      BY <2>3 DEF OnePlace
    <3> QED BY <1>4, <2>1, <3>1
  <2> QED BY <1>1, <2>1, <2>2, <2>3, <2>4 DEF OnePlace
<1>12. NoneLost'
  <2>1. OnItsWay(f)' /\ fstate'[f] = "rx_queued"
    BY <1>1, <1>5 DEF OnItsWay, TypeOK, LinuxTypeOK
  <2>2. ASSUME NEW g \in bitmap, g /= f
        PROVE  /\ fstate'[g] = fstate[g]
               /\ OnItsWay(g) => OnItsWay(g)'
               /\ \A j \in Interfaces : filling[j] = g => filling'[j] = g
    BY <1>1, <1>3, <1>5, <2>2 DEF TypeOK, LinuxTypeOK, OnItsWay, HeldFrames
  <2> QED BY <1>1, <2>1, <2>2 DEF RefInv, NoneLost
<1> QED BY <1>9, <1>10, <1>11, <1>12 DEF RefInv

\* The oldest descriptor of a TX ring is accepted, and its frame sent.
LEMMA TakeTxRefs ==
    ASSUME PoolInv, NEW i \in Interfaces, TakeTx(i), UNCHANGED held
    PROVE  RefInv'
<1> USE DEF PoolInv
<1> DEFINE f == Head(tx[i]).frame
<1>1. /\ tx[i] /= <<>> /\ f \in bitmap /\ fstate[f] = "rx_queued"
      /\ sending[i] = NoFrame
      /\ bitmap' = bitmap /\ fsource' = fsource /\ ftarget' = ftarget
      /\ fstate' = [fstate EXCEPT ![f] = "tx_ready"]
      /\ sending' = [sending EXCEPT ![i] = f]
      /\ tx' = [tx EXCEPT ![i] = Tail(tx[i])]
      /\ filling' = filling /\ rx' = rx /\ reclaim' = reclaim /\ held' = held
  BY DEF TakeTx, TxAcceptable
<1>2. /\ \A j \in Interfaces : rx[j] \in Seq(Descriptors) /\ tx[j] \in Seq(Descriptors)
      /\ reclaim \in Seq(Descriptors) /\ held \subseteq Descriptors
      /\ tx'[i] = Tail(tx[i]) /\ \A j \in Interfaces \ {i} : tx'[j] = tx[j]
  BY <1>1 DEF TypeOK, RegionTypeOK
<1> HIDE DEF f
<1>3. /\ f \in FramesOf(tx[i]) /\ f \notin FramesOf(tx'[i])
      /\ FramesOf(tx[i]) = FramesOf(tx'[i]) \cup {f}
      /\ NoneTwice(tx'[i])
      /\ \A k \in DOMAIN tx'[i] : k + 1 \in DOMAIN tx[i] /\ tx'[i][k] = tx[i][k + 1]
  BY <1>1, <1>2, TailFrames DEF f, RefInv, OnePlace
\* No other descriptor refers to the frame.
<1>4. /\ \A j \in Interfaces : f \notin FramesOf(rx[j]) \cup FramesOf(tx'[j])
      /\ f \notin FramesOf(reclaim) \cup HeldFrames
  BY <1>2, <1>3 DEF RefInv, OnePlace
<1>5. ASSUME NEW e \in Descriptors, TxAcceptable(e), e.frame /= f
      PROVE  TxAcceptable(e)' /\ (ReclaimAcceptable(e) => ReclaimAcceptable(e)')
  BY <1>1, <1>5 DEF TxAcceptable, ReclaimAcceptable, TypeOK, LinuxTypeOK
<1>6. \A e : ReclaimAcceptable(e) => TxAcceptable(e)
  BY DEF ReclaimAcceptable
<1>7. ASSUME NEW j \in Interfaces, NEW k \in DOMAIN tx'[j] PROVE TxAcceptable(tx[j][k])'
  <2>1. tx'[j][k] \in Descriptors
    BY <1>1, <1>2, TailFrames
  <2>2. TxAcceptable(tx'[j][k])
    BY <1>2, <1>3 DEF RefInv, NothingTurnedDown
  <2>3. tx'[j][k].frame /= f
    BY <1>4 DEF FramesOf
  <2> QED BY <1>5, <2>1, <2>2, <2>3
<1>8. ASSUME NEW k \in DOMAIN reclaim PROVE ReclaimAcceptable(reclaim[k])'
  <2>1. reclaim[k] \in Descriptors /\ ReclaimAcceptable(reclaim[k])
    BY <1>2 DEF RefInv, NothingTurnedDown
  <2>2. reclaim[k].frame /= f
    BY <1>4 DEF FramesOf
  <2> QED BY <1>1, <1>5, <1>6, <2>1, <2>2
<1>9. NothingChanged'
  <2>1. ASSUME NEW j \in Interfaces, NEW k \in DOMAIN rx[j] PROVE ReclaimAcceptable(rx[j][k])'
    <3>1. rx[j][k] \in Descriptors /\ ReclaimAcceptable(rx[j][k]) /\ rx[j][k].frame /= f
      BY <1>2, <1>4 DEF RefInv, NothingChanged, FramesOf
    <3> QED BY <1>1, <1>5, <1>6, <3>1
  <2>2. ASSUME NEW e \in held PROVE ReclaimAcceptable(e)'
    <3>1. e \in Descriptors /\ ReclaimAcceptable(e) /\ e.frame /= f
      BY <1>2, <1>4 DEF RefInv, NothingChanged, HeldFrames
    <3> QED BY <1>5, <1>6, <3>1
  <2> QED BY <1>1, <2>1, <2>2 DEF NothingChanged
<1>10. NothingTurnedDown'
  BY <1>1, <1>7, <1>8 DEF NothingTurnedDown
<1>11. OnePlace'
  <2>1. \A j \in Interfaces :
           FramesOf(tx'[j]) \subseteq FramesOf(tx[j]) /\ (NoneTwice(tx[j]) => NoneTwice(tx'[j]))
    BY <1>2, <1>3
  <2>2. HeldFrames' = HeldFrames
    BY <1>1 DEF HeldFrames
  <2>3. OnePlace
    BY DEF RefInv
  <2> QED BY <1>1, <2>1, <2>2, <2>3 DEF OnePlace
<1>12. NoneLost'
  <2>1. sending'[i] = f /\ fstate'[f] = "tx_ready"
    BY <1>1 DEF TypeOK, LinuxTypeOK
  <2>2. ASSUME NEW g \in bitmap, g /= f
        PROVE  /\ fstate'[g] = fstate[g]
               /\ OnItsWay(g) => OnItsWay(g)'
               /\ \A j \in Interfaces : sending[j] = g => sending'[j] = g
    <3>1. OnItsWay(g) => OnItsWay(g)'
      BY <1>1, <1>2, <1>3, <2>2 DEF OnItsWay, HeldFrames
    <3>2. NoFrame \notin bitmap
      BY LinuxAssumption DEF TypeOK, LinuxTypeOK
    <3> QED BY <1>1, <2>2, <3>1, <3>2 DEF TypeOK, LinuxTypeOK
  <2> QED BY <1>1, <2>1, <2>2 DEF RefInv, NoneLost
<1> QED BY <1>9, <1>10, <1>11, <1>12 DEF RefInv

\* What the firmware has dropped comes back, and is free again.
LEMMA TakeReclaimRefs ==
    ASSUME PoolInv, TakeReclaim, UNCHANGED held
    PROVE  RefInv'
<1> USE DEF PoolInv
<1>1. PICK f :
          /\ f = Head(reclaim).frame
          /\ reclaim /= <<>> /\ f \in bitmap /\ f \in Frames /\ fstate[f] = "rx_queued"
          /\ bitmap' = bitmap \ {f}
          /\ fstate' = [fstate EXCEPT ![f] = "free"]
          /\ fsource' = [fsource EXCEPT ![f] = NoInterface]
          /\ ftarget' = [ftarget EXCEPT ![f] = NoInterface]
          /\ reclaim' = Tail(reclaim)
          /\ filling' = filling /\ sending' = sending /\ rx' = rx /\ tx' = tx /\ held' = held
  BY DEF TakeReclaim, ReclaimAcceptable, TxAcceptable, FreeFrame, TypeOK, LinuxTypeOK
<1>2. /\ \A j \in Interfaces : rx[j] \in Seq(Descriptors) /\ tx[j] \in Seq(Descriptors)
      /\ reclaim \in Seq(Descriptors) /\ held \subseteq Descriptors
  BY DEF TypeOK, RegionTypeOK
<1>3. /\ f \in FramesOf(reclaim) /\ f \notin FramesOf(reclaim')
      /\ FramesOf(reclaim) = FramesOf(reclaim') \cup {f}
      /\ NoneTwice(reclaim')
      /\ \A k \in DOMAIN reclaim' : k + 1 \in DOMAIN reclaim /\ reclaim'[k] = reclaim[k + 1]
      /\ \A k \in DOMAIN reclaim' : reclaim'[k] \in Descriptors
  BY <1>1, <1>2, TailFrames DEF RefInv, OnePlace
\* No other descriptor refers to the frame.
<1>4. /\ \A j \in Interfaces : f \notin FramesOf(rx[j]) \cup FramesOf(tx[j])
      /\ f \notin HeldFrames
  BY <1>3 DEF RefInv, OnePlace
<1>5. ASSUME NEW e \in Descriptors, TxAcceptable(e), e.frame /= f
      PROVE  TxAcceptable(e)' /\ (ReclaimAcceptable(e) => ReclaimAcceptable(e)')
  BY <1>1, <1>5 DEF TxAcceptable, ReclaimAcceptable, TypeOK, LinuxTypeOK
<1>6. \A e : ReclaimAcceptable(e) => TxAcceptable(e)
  BY DEF ReclaimAcceptable
<1>7. NothingTurnedDown'
  <2>1. ASSUME NEW j \in Interfaces, NEW k \in DOMAIN tx[j] PROVE TxAcceptable(tx[j][k])'
    <3>1. tx[j][k] \in Descriptors /\ TxAcceptable(tx[j][k]) /\ tx[j][k].frame /= f
      BY <1>2, <1>4 DEF RefInv, NothingTurnedDown, FramesOf
    <3> QED BY <1>1, <1>5, <3>1
  <2>2. ASSUME NEW k \in DOMAIN reclaim' PROVE ReclaimAcceptable(reclaim[k])'
    <3>1. /\ reclaim'[k] \in Descriptors /\ ReclaimAcceptable(reclaim[k + 1])
          /\ reclaim'[k] = reclaim[k + 1] /\ reclaim'[k].frame /= f
      BY <1>3 DEF RefInv, NothingTurnedDown, FramesOf
    <3> QED BY <1>5, <1>6, <3>1
  <2> QED BY <1>1, <2>1, <2>2 DEF NothingTurnedDown
<1>8. NothingChanged'
  <2>1. ASSUME NEW j \in Interfaces, NEW k \in DOMAIN rx[j] PROVE ReclaimAcceptable(rx[j][k])'
    <3>1. rx[j][k] \in Descriptors /\ ReclaimAcceptable(rx[j][k]) /\ rx[j][k].frame /= f
      BY <1>2, <1>4 DEF RefInv, NothingChanged, FramesOf
    <3> QED BY <1>1, <1>5, <1>6, <3>1
  <2>2. ASSUME NEW e \in held PROVE ReclaimAcceptable(e)'
    <3>1. e \in Descriptors /\ ReclaimAcceptable(e) /\ e.frame /= f
      BY <1>2, <1>4 DEF RefInv, NothingChanged, HeldFrames
    <3> QED BY <1>5, <1>6, <3>1
  <2> QED BY <1>1, <2>1, <2>2 DEF NothingChanged
<1>9. OnePlace'
  <2>1. HeldFrames' = HeldFrames
    BY <1>1 DEF HeldFrames
  <2>2. OnePlace
    BY DEF RefInv
  <2> QED BY <1>1, <1>3, <2>1, <2>2 DEF OnePlace
<1>10. NoneLost'
  <2>1. ASSUME NEW g \in bitmap, g /= f
        PROVE  fstate'[g] = fstate[g] /\ (OnItsWay(g) => OnItsWay(g)')
    BY <1>1, <1>3, <2>1 DEF OnItsWay, HeldFrames, TypeOK, LinuxTypeOK
  <2> QED BY <1>1, <2>1 DEF RefInv, NoneLost
<1> QED BY <1>7, <1>8, <1>9, <1>10 DEF RefInv

-----------------------------------------------------------------------------
(* The steps of the RTOS: the metadata is out of its reach.                  *)

LEMMA PoolKept ==
    ASSUME UNCHANGED pool
    PROVE  \A e : /\ TxAcceptable(e)' <=> TxAcceptable(e)
                  /\ ReclaimAcceptable(e)' <=> ReclaimAcceptable(e)
<1> QED BY DEF pool, TxAcceptable, ReclaimAcceptable

LEMMA RtosTakeRefs ==
    ASSUME PoolInv, NEW i \in Interfaces, RtosTake(i)
    PROVE  RefInv'
<1> USE DEF PoolInv
<1>1. PICK d :
          /\ d = Head(rx[i]) /\ rx[i] /= <<>>
          /\ held' = held \cup {d}
          /\ rx' = [rx EXCEPT ![i] = Tail(rx[i])]
          /\ bitmap' = bitmap /\ fstate' = fstate
          /\ filling' = filling /\ sending' = sending /\ tx' = tx /\ reclaim' = reclaim
  BY DEF RtosTake, pool
<1>2. /\ rx[i] \in Seq(Descriptors)
      /\ rx'[i] = Tail(rx[i]) /\ \A j \in Interfaces \ {i} : rx'[j] = rx[j]
  BY <1>1 DEF TypeOK, RegionTypeOK
<1>3. /\ d.frame \in FramesOf(rx[i]) /\ d.frame \notin FramesOf(rx'[i])
      /\ FramesOf(rx[i]) = FramesOf(rx'[i]) \cup {d.frame}
      /\ NoneTwice(rx'[i])
      /\ 1 \in DOMAIN rx[i] /\ d = rx[i][1]
      /\ \A k \in DOMAIN rx'[i] : k + 1 \in DOMAIN rx[i] /\ rx'[i][k] = rx[i][k + 1]
  BY <1>1, <1>2, TailFrames DEF RefInv, OnePlace
<1>4. HeldFrames' = HeldFrames \cup {d.frame}
  BY <1>1 DEF HeldFrames
<1>5. \A e : /\ TxAcceptable(e)' <=> TxAcceptable(e)
             /\ ReclaimAcceptable(e)' <=> ReclaimAcceptable(e)
  BY PoolKept DEF RtosTake
<1>6. NothingTurnedDown' /\ NothingChanged'
  BY <1>1, <1>2, <1>3, <1>5 DEF RefInv, NothingTurnedDown, NothingChanged
<1>7. OnePlace'
  <2>1. OnePlace
    BY DEF RefInv
  <2>2. \A j \in Interfaces :
           /\ FramesOf(rx'[j]) \subseteq FramesOf(rx[j])
           /\ d.frame \notin FramesOf(rx'[j])
           /\ NoneTwice(rx[j]) => NoneTwice(rx'[j])
    BY <1>2, <1>3, <2>1 DEF OnePlace
  <2>3. d.frame \notin HeldFrames \cup FramesOf(reclaim)
    BY <1>3, <2>1 DEF OnePlace
  <2>4. \A j \in Interfaces : d.frame \notin FramesOf(tx[j])
    BY <1>3, <2>1 DEF OnePlace
  <2>5. ASSUME NEW a \in held', NEW b \in held', a.frame = b.frame PROVE a = b
    BY <1>1, <2>1, <2>3, <2>5 DEF OnePlace, HeldFrames
  <2>6. ASSUME NEW j \in Interfaces
        PROVE  (FramesOf(rx'[j]) \cup FramesOf(tx[j]))
                  \cap (FramesOf(reclaim) \cup HeldFrames') = {}
    BY <1>4, <2>1, <2>2, <2>4 DEF OnePlace
  <2>7. ASSUME NEW j \in Interfaces, NEW k \in Interfaces
        PROVE  /\ j /= k => FramesOf(rx'[j]) \cap FramesOf(rx'[k]) = {}
               /\ j /= k => FramesOf(tx[j]) \cap FramesOf(tx[k]) = {}
               /\ FramesOf(rx'[j]) \cap FramesOf(tx[k]) = {}
    BY <2>1, <2>2 DEF OnePlace
  <2>8. FramesOf(reclaim) \cap HeldFrames' = {}
    BY <1>4, <2>1, <2>3 DEF OnePlace
  <2>9. NoneTwice(reclaim) /\ \A j \in Interfaces : NoneTwice(rx'[j]) /\ NoneTwice(tx[j])
    BY <2>1, <2>2 DEF OnePlace
  <2> QED BY <1>1, <2>5, <2>6, <2>7, <2>8, <2>9 DEF OnePlace
<1>8. NoneLost'
  <2>1. ASSUME NEW g, OnItsWay(g) PROVE OnItsWay(g)'
    BY <1>1, <1>2, <1>3, <1>4, <2>1 DEF OnItsWay
  <2> QED BY <1>1, <2>1 DEF RefInv, NoneLost
<1> QED BY <1>6, <1>7, <1>8 DEF RefInv

LEMMA RtosForwardRefs ==
    ASSUME PoolInv, NEW d \in held, NEW t \in Targets, RtosForward(d, t)
    PROVE  RefInv'
<1> USE DEF PoolInv
<1>1. PICK e \in Descriptors :
          /\ e.frame = d.frame /\ e.source = d.source
          /\ held' = held \ {d}
          /\ tx' = [tx EXCEPT ![t] = Append(tx[t], e)]
          /\ bitmap' = bitmap /\ fstate' = fstate
          /\ filling' = filling /\ sending' = sending /\ rx' = rx /\ reclaim' = reclaim
  <2>1. [d EXCEPT !.target = t] \in Descriptors
    BY RegionAssumption DEF TypeOK, Descriptors
  <2>2. /\ [d EXCEPT !.target = t].frame = d.frame
        /\ [d EXCEPT !.target = t].source = d.source
    BY DEF TypeOK, Descriptors
  <2> QED BY <2>1, <2>2 DEF RtosForward, pool
<1>2. /\ t \in Interfaces /\ tx[t] \in Seq(Descriptors)
      /\ tx'[t] = Append(tx[t], e) /\ \A j \in Interfaces \ {t} : tx'[j] = tx[j]
  BY <1>1, RegionAssumption DEF TypeOK, RegionTypeOK
<1>3. OnePlace
  BY DEF RefInv
<1>4. d.frame \in HeldFrames
  BY DEF HeldFrames
<1>5. /\ \A j \in Interfaces : d.frame \notin FramesOf(rx[j]) \cup FramesOf(tx[j])
      /\ d.frame \notin FramesOf(reclaim)
  BY <1>3, <1>4 DEF OnePlace
<1>6. /\ FramesOf(tx'[t]) = FramesOf(tx[t]) \cup {d.frame}
      /\ NoneTwice(tx[t]) => NoneTwice(tx'[t])
      /\ \A k \in DOMAIN tx'[t] :
            \/ k \in DOMAIN tx[t] /\ tx'[t][k] = tx[t][k]
            \/ tx'[t][k] = e
  BY <1>1, <1>2, <1>5, AppendFrames
<1>7. HeldFrames' = HeldFrames \ {d.frame}
  BY <1>1, <1>3 DEF HeldFrames, OnePlace
<1>8. \A x : /\ TxAcceptable(x)' <=> TxAcceptable(x)
             /\ ReclaimAcceptable(x)' <=> ReclaimAcceptable(x)
  BY PoolKept DEF RtosForward
<1>9. NothingTurnedDown' /\ NothingChanged'
  <2>1. TxAcceptable(e)
    BY <1>1 DEF RefInv, NothingChanged, ReclaimAcceptable, TxAcceptable
  <2> QED BY <1>1, <1>2, <1>6, <1>8, <2>1 DEF RefInv, NothingTurnedDown, NothingChanged
<1>10. OnePlace'
  <2>1. \A j \in Interfaces :
           /\ FramesOf(tx'[j]) = IF j = t THEN FramesOf(tx[t]) \cup {d.frame}
                                 ELSE FramesOf(tx[j])
           /\ NoneTwice(tx[j]) => NoneTwice(tx'[j])
    BY <1>2, <1>6
  <2>2. ASSUME NEW j \in Interfaces, NEW k \in Interfaces
        PROVE  /\ j /= k => FramesOf(tx'[j]) \cap FramesOf(tx'[k]) = {}
               /\ FramesOf(rx[k]) \cap FramesOf(tx'[j]) = {}
               /\ (FramesOf(rx[j]) \cup FramesOf(tx'[j]))
                     \cap (FramesOf(reclaim) \cup HeldFrames') = {}
    <3>1. /\ j /= k => FramesOf(tx[j]) \cap FramesOf(tx[k]) = {}
          /\ FramesOf(rx[k]) \cap FramesOf(tx[j]) = {}
          /\ (FramesOf(rx[j]) \cup FramesOf(tx[j]))
                \cap (FramesOf(reclaim) \cup HeldFrames) = {}
      BY <1>3 DEF OnePlace
    <3> QED BY <1>5, <1>7, <2>1, <3>1
  <2> QED BY <1>1, <1>3, <1>7, <2>1, <2>2 DEF OnePlace
<1>11. NoneLost'
  <2>1. ASSUME NEW g, OnItsWay(g) PROVE OnItsWay(g)'
    BY <1>1, <1>2, <1>6, <1>7, <2>1 DEF OnItsWay
  <2> QED BY <1>1, <2>1 DEF RefInv, NoneLost
<1> QED BY <1>9, <1>10, <1>11 DEF RefInv

LEMMA RtosReclaimRefs ==
    ASSUME PoolInv, NEW d \in held, RtosReclaim(d)
    PROVE  RefInv'
<1> USE DEF PoolInv
<1>1. /\ d \in Descriptors
      /\ held' = held \ {d}
      /\ reclaim' = Append(reclaim, d)
      /\ bitmap' = bitmap /\ fstate' = fstate
      /\ filling' = filling /\ sending' = sending /\ rx' = rx /\ tx' = tx
  BY DEF RtosReclaim, pool, TypeOK
<1>2. OnePlace
  BY DEF RefInv
<1>3. d.frame \in HeldFrames
  BY DEF HeldFrames
<1>4. /\ \A j \in Interfaces : d.frame \notin FramesOf(rx[j]) \cup FramesOf(tx[j])
      /\ d.frame \notin FramesOf(reclaim)
  BY <1>2, <1>3 DEF OnePlace
<1>5. /\ FramesOf(reclaim') = FramesOf(reclaim) \cup {d.frame}
      /\ NoneTwice(reclaim')
      /\ \A k \in DOMAIN reclaim' :
            \/ k \in DOMAIN reclaim /\ reclaim'[k] = reclaim[k]
            \/ reclaim'[k] = d
  BY <1>1, <1>2, <1>4, AppendFrames DEF TypeOK, RegionTypeOK, OnePlace
<1>6. HeldFrames' = HeldFrames \ {d.frame}
  BY <1>1, <1>2 DEF HeldFrames, OnePlace
<1>7. \A x : /\ TxAcceptable(x)' <=> TxAcceptable(x)
             /\ ReclaimAcceptable(x)' <=> ReclaimAcceptable(x)
  BY PoolKept DEF RtosReclaim
<1>8. NothingTurnedDown' /\ NothingChanged'
  BY <1>1, <1>5, <1>7 DEF RefInv, NothingTurnedDown, NothingChanged
<1>9. OnePlace'
  <2>1. ASSUME NEW j \in Interfaces
        PROVE  (FramesOf(rx[j]) \cup FramesOf(tx[j]))
                  \cap (FramesOf(reclaim') \cup HeldFrames') = {}
    BY <1>2, <1>4, <1>5, <1>6 DEF OnePlace
  <2> QED BY <1>1, <1>2, <1>5, <1>6, <2>1 DEF OnePlace
<1>10. NoneLost'
  <2>1. ASSUME NEW g, OnItsWay(g) PROVE OnItsWay(g)'
    BY <1>1, <1>5, <1>6, <2>1 DEF OnItsWay
  <2> QED BY <1>1, <2>1 DEF RefInv, NoneLost
<1> QED BY <1>8, <1>9, <1>10 DEF RefInv

-----------------------------------------------------------------------------
LEMMA PoolRefsInit ==
    ASSUME Init
    PROVE  RefInv
<1>1. bitmap = {} /\ held = {} /\ rx = EmptyRings /\ tx = EmptyRings /\ reclaim = <<>>
  BY DEF Init, LinuxInit
<1>2. \A i \in Interfaces : rx[i] = <<>> /\ tx[i] = <<>>
  BY <1>1 DEF EmptyRings
<1>3. FramesOf(<<>>) = {} /\ NoneTwice(<<>>)
  BY DEF FramesOf, NoneTwice
<1> QED BY <1>1, <1>2, <1>3
        DEF RefInv, NothingTurnedDown, NothingChanged, OnePlace, NoneLost, HeldFrames

LEMMA PoolRefsStep ==
    ASSUME PoolInv, [Next]_vars
    PROVE  RefInv'
<1>1. ASSUME NEW i \in Interfaces, Alloc(i), UNCHANGED held PROVE RefInv'
  BY <1>1, AllocRefs
<1>2. ASSUME NEW i \in Interfaces, Oversize(i) \/ CommitFails(i), UNCHANGED held PROVE RefInv'
  BY <1>2, GiveUpRefs
<1>3. ASSUME NEW i \in Interfaces, NEW t \in Targets, Commit(i, t), UNCHANGED held
      PROVE  RefInv'
  BY <1>3, CommitRefs
<1>4. ASSUME NEW i \in Interfaces, TakeTx(i), UNCHANGED held PROVE RefInv'
  BY <1>4, TakeTxRefs
\* Nothing is turned down, so the two steps that turn down never happen.
<1>5. ASSUME NEW i \in Interfaces, RejectTx(i) PROVE FALSE
  <2>1. tx[i] \in Seq(Descriptors) /\ tx[i] /= <<>>
    BY <1>5 DEF RejectTx, PoolInv, TypeOK, RegionTypeOK
  <2>2. TxAcceptable(Head(tx[i]))
    BY <2>1, TailFrames DEF PoolInv, RefInv, NothingTurnedDown
  <2> QED BY <1>5, <2>2 DEF RejectTx
<1>6. ASSUME RejectReclaim PROVE FALSE
  <2>1. reclaim \in Seq(Descriptors) /\ reclaim /= <<>>
    BY <1>6 DEF RejectReclaim, PoolInv, TypeOK, RegionTypeOK
  <2>2. ReclaimAcceptable(Head(reclaim))
    BY <2>1, TailFrames DEF PoolInv, RefInv, NothingTurnedDown
  <2> QED BY <1>6, <2>2 DEF RejectReclaim
<1>7. ASSUME NEW i \in Interfaces, EgressRelease(i), UNCHANGED held PROVE RefInv'
  BY <1>7, EgressReleaseRefs
<1>8. ASSUME TakeReclaim, UNCHANGED held PROVE RefInv'
  BY <1>8, TakeReclaimRefs
<1>9. ASSUME NEW i \in Interfaces, RtosTake(i) PROVE RefInv'
  BY <1>9, RtosTakeRefs
<1>10. ASSUME NEW d \in held, NEW t \in Targets, RtosForward(d, t) PROVE RefInv'
  BY <1>10, RtosForwardRefs
<1>11. ASSUME NEW d \in held, RtosReclaim(d) PROVE RefInv'
  BY <1>11, RtosReclaimRefs
<1>12. CASE UNCHANGED vars
  <2>1. /\ \A e : /\ TxAcceptable(e)' <=> TxAcceptable(e)
                  /\ ReclaimAcceptable(e)' <=> ReclaimAcceptable(e)
        /\ \A f : OnItsWay(f)' <=> OnItsWay(f)
        /\ UNCHANGED <<rx, tx, reclaim, held, bitmap, fstate, filling, sending>>
    BY <1>12, PoolKept DEF vars, linuxVars, pool, rings, OnItsWay, HeldFrames
  <2> QED BY <2>1 DEF PoolInv, RefInv, NothingTurnedDown, NothingChanged, OnePlace,
                      HeldFrames, NoneLost
<1> QED BY <1>1, <1>2, <1>3, <1>4, <1>5, <1>6, <1>7, <1>8, <1>9, <1>10, <1>11, <1>12
        DEF Next, LinuxNext, FinishSubmit, Egress, DrainReclaim, RtosNext

\* The inductive invariant of the pool with the RTOS.
THEOREM PoolInvariantOfRefs == Spec => []PoolInv
<1>1. Init => PoolInv
  BY PoolInvInit, PoolTypeInit, PoolRefsInit DEF PoolInv
<1>2. PoolInv /\ [Next]_vars => PoolInv'
  BY PoolInvStep, PoolTypeStep, PoolRefsStep DEF PoolInv
<1> QED BY <1>1, <1>2, PTL DEF Spec

\* Linux accepts everything the RTOS hands back: no frame is lost because its
\* descriptor was turned down.
THEOREM PoolNothingTurnedDown == Spec => []NothingTurnedDown
<1>1. PoolInv => NothingTurnedDown
  BY DEF PoolInv, RefInv
<1> QED BY <1>1, PoolInvariantOfRefs, PTL

-----------------------------------------------------------------------------
(* From the places to the count of the references.                           *)

LEMMA RingReferences ==
    ASSUME NEW r, NEW f
    PROVE  /\ f \notin FramesOf(r) => InRing(r, f) = {}
           /\ f \in FramesOf(r) /\ NoneTwice(r) => \E k : InRing(r, f) = {k}
<1>1. ASSUME f \in FramesOf(r), NoneTwice(r) PROVE \E k : InRing(r, f) = {k}
  <2>1. PICK k \in DOMAIN r : r[k].frame = f
    BY <1>1 DEF FramesOf
  <2>2. InRing(r, f) = {k}
    BY <1>1, <2>1 DEF InRing, NoneTwice
  <2> QED BY <2>2
<1>2. f \notin FramesOf(r) => InRing(r, f) = {}
  BY DEF FramesOf, InRing
<1> QED BY <1>1, <1>2

\* The references to a frame on one ring of several.
OnRings(name, ring, f) ==
    UNION {{<<name, i, k>> : k \in InRing(ring[i], f)} : i \in Interfaces}

LEMMA RingsReferences ==
    ASSUME NEW ring, NEW f, NEW name,
           \A i \in Interfaces : NoneTwice(ring[i]),
           \A i, j \in Interfaces :
               f \in FramesOf(ring[i]) /\ f \in FramesOf(ring[j]) => i = j
    PROVE  /\ (\A i \in Interfaces : f \notin FramesOf(ring[i])) => OnRings(name, ring, f) = {}
           /\ (\E i \in Interfaces : f \in FramesOf(ring[i])) =>
                  \E x : OnRings(name, ring, f) = {x}
<1>1. ASSUME \A i \in Interfaces : f \notin FramesOf(ring[i]) PROVE OnRings(name, ring, f) = {}
  BY <1>1, RingReferences DEF OnRings
<1>2. ASSUME NEW i \in Interfaces, f \in FramesOf(ring[i])
      PROVE  \E x : OnRings(name, ring, f) = {x}
  <2>1. PICK k : InRing(ring[i], f) = {k}
    BY <1>2, RingReferences
  <2>2. \A j \in Interfaces \ {i} : InRing(ring[j], f) = {}
    BY <1>2, RingReferences
  <2>3. OnRings(name, ring, f) = {<<name, i, k>>}
    BY <2>1, <2>2 DEF OnRings
  <2> QED BY <2>3
<1> QED BY <1>1, <1>2

LEMMA OneReference ==
    ASSUME PoolInv, NEW f \in Frames
    PROVE  IF f \in bitmap THEN \E x : References(f) = {x} ELSE References(f) = {}
<1> USE DEF PoolInv
<1> DEFINE Fill == {<<"filling", i>> : i \in {j \in Interfaces : filling[j] = f}}
           Send == {<<"sending", i>> : i \in {j \in Interfaces : sending[j] = f}}
           OnRx == OnRings("rx", rx, f)
           OnTx == OnRings("tx", tx, f)
           Back == {<<"reclaim", k>> : k \in InRing(reclaim, f)}
           Hold == {<<"held", d>> : d \in {e \in held : e.frame = f}}
<1>1. References(f) = Fill \cup Send \cup OnRx \cup OnTx \cup Back \cup Hold
  BY DEF References, OnRings
<1>2. OnePlace
  BY DEF RefInv
\* A place that refers to the frame says what state it is in.
<1>3. /\ \A i \in Interfaces : filling[i] = f => f \in bitmap /\ fstate[f] = "allocated"
      /\ \A i \in Interfaces : sending[i] = f => f \in bitmap /\ fstate[f] = "tx_ready"
  BY LinuxAssumption DEF LinuxInv, FilledByOwner, Committable, SentByOne
<1>4. OnItsWay(f) => f \in bitmap /\ fstate[f] = "rx_queued"
  BY DEF RefInv, NothingTurnedDown, NothingChanged, ReclaimAcceptable, TxAcceptable,
         OnItsWay, FramesOf, HeldFrames
\* How many references each place may have.
<1>5. /\ \A i, j \in Interfaces : filling[i] = f /\ filling[j] = f => i = j
      /\ \A i, j \in Interfaces : sending[i] = f /\ sending[j] = f => i = j
  BY LinuxAssumption DEF LinuxInv, FilledByOwner, Committable, SentByOne
<1>6. /\ (\A i \in Interfaces : filling[i] /= f) => Fill = {}
      /\ (\E i \in Interfaces : filling[i] = f) => \E x : Fill = {x}
  <2>1. ASSUME NEW i \in Interfaces, filling[i] = f PROVE Fill = {<<"filling", i>>}
    BY <1>5, <2>1
  <2> QED BY <2>1
<1>7. /\ (\A i \in Interfaces : sending[i] /= f) => Send = {}
      /\ (\E i \in Interfaces : sending[i] = f) => \E x : Send = {x}
  <2>1. ASSUME NEW i \in Interfaces, sending[i] = f PROVE Send = {<<"sending", i>>}
    BY <1>5, <2>1
  <2> QED BY <2>1
<1>8. /\ (\A i \in Interfaces : f \notin FramesOf(rx[i])) => OnRx = {}
      /\ (\E i \in Interfaces : f \in FramesOf(rx[i])) => \E x : OnRx = {x}
  <2>1. \A i \in Interfaces : NoneTwice(rx[i])
    BY <1>2 DEF OnePlace
  <2>2. \A i, j \in Interfaces : f \in FramesOf(rx[i]) /\ f \in FramesOf(rx[j]) => i = j
    BY <1>2 DEF OnePlace
  <2> HIDE DEF PoolInv
  <2> QED BY <2>1, <2>2, RingsReferences
<1>9. /\ (\A i \in Interfaces : f \notin FramesOf(tx[i])) => OnTx = {}
      /\ (\E i \in Interfaces : f \in FramesOf(tx[i])) => \E x : OnTx = {x}
  <2>1. \A i \in Interfaces : NoneTwice(tx[i])
    BY <1>2 DEF OnePlace
  <2>2. \A i, j \in Interfaces : f \in FramesOf(tx[i]) /\ f \in FramesOf(tx[j]) => i = j
    BY <1>2 DEF OnePlace
  <2> HIDE DEF PoolInv
  <2> QED BY <2>1, <2>2, RingsReferences
<1>10. /\ f \notin FramesOf(reclaim) => Back = {}
       /\ f \in FramesOf(reclaim) => \E x : Back = {x}
  <2>1. ASSUME NEW k, InRing(reclaim, f) = {k} PROVE Back = {<<"reclaim", k>>}
    BY <2>1
  <2> QED BY <1>2, <2>1, RingReferences DEF OnePlace
<1>11. /\ f \notin HeldFrames => Hold = {}
       /\ f \in HeldFrames => \E x : Hold = {x}
  <2>1. ASSUME NEW d \in held, d.frame = f PROVE Hold = {<<"held", d>>}
    BY <1>2, <2>1 DEF OnePlace
  <2> QED BY <2>1 DEF HeldFrames
<1> HIDE DEF Fill, Send, OnRx, OnTx, Back, Hold
<1>12. CASE f \notin bitmap
  <2>1. ~OnItsWay(f)
    BY <1>4, <1>12
  <2> QED BY <1>1, <1>3, <1>6, <1>7, <1>8, <1>9, <1>10, <1>11, <1>12, <2>1 DEF OnItsWay
<1>13. CASE f \in bitmap /\ fstate[f] /= "rx_queued"
  <2>1. ~OnItsWay(f)
    BY <1>4, <1>13
  <2>2. OnRx = {} /\ OnTx = {} /\ Back = {} /\ Hold = {}
    BY <1>8, <1>9, <1>10, <1>11, <2>1 DEF OnItsWay
  <2>3. \/ fstate[f] = "allocated" /\ \E i \in Interfaces : filling[i] = f
        \/ fstate[f] = "tx_ready" /\ \E i \in Interfaces : sending[i] = f
    BY <1>13 DEF RefInv, NoneLost
  <2> QED BY <1>1, <1>3, <1>6, <1>7, <1>13, <2>2, <2>3
<1>14. CASE f \in bitmap /\ fstate[f] = "rx_queued"
  <2>1. Fill = {} /\ Send = {}
    BY <1>3, <1>6, <1>7, <1>14
  <2>2. OnItsWay(f)
    BY <1>14 DEF RefInv, NoneLost
  <2>3. CASE \E i \in Interfaces : f \in FramesOf(rx[i])
    <3>1. OnTx = {} /\ Back = {} /\ Hold = {}
      BY <1>2, <1>9, <1>10, <1>11, <2>3 DEF OnePlace
    <3> QED BY <1>1, <1>8, <1>14, <2>1, <2>3, <3>1
  <2>4. CASE \E i \in Interfaces : f \in FramesOf(tx[i])
    <3>1. OnRx = {} /\ Back = {} /\ Hold = {}
      BY <1>2, <1>8, <1>10, <1>11, <2>4 DEF OnePlace
    <3> QED BY <1>1, <1>9, <1>14, <2>1, <2>4, <3>1
  <2>5. CASE f \in FramesOf(reclaim)
    <3>1. OnRx = {} /\ OnTx = {} /\ Hold = {}
      BY <1>2, <1>8, <1>9, <1>11, <2>5 DEF OnePlace
    <3> QED BY <1>1, <1>10, <1>14, <2>1, <2>5, <3>1
  <2>6. CASE f \in HeldFrames
    <3>1. OnRx = {} /\ OnTx = {} /\ Back = {}
      BY <1>2, <1>8, <1>9, <1>10, <2>6 DEF OnePlace
    <3> QED BY <1>1, <1>11, <1>14, <2>1, <2>6, <3>1
  <2> QED BY <2>2, <2>3, <2>4, <2>5, <2>6 DEF OnItsWay
<1> QED BY <1>12, <1>13, <1>14

LEMMA SoleOwnerOfInv ==
    ASSUME PoolInv
    PROVE  SoleOwner
<1> SUFFICES ASSUME NEW f \in Frames
             PROVE  Cardinality(References(f)) = IF f \in bitmap THEN 1 ELSE 0
  BY DEF SoleOwner
<1>1. Cardinality({}) = 0 /\ \A x : Cardinality({x}) = 1
  BY FS_EmptySet, FS_Singleton
<1> QED BY <1>1, OneReference

\* No frame is leaked and none has two owners, for any number of frames,
\* interfaces and threads.
THEOREM PoolSoleOwner == Spec => []SoleOwner
<1> QED BY SoleOwnerOfInv, PoolInvariantOfRefs, PTL
=============================================================================
