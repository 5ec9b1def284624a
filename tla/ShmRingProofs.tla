--------------------------- MODULE ShmRingProofs ---------------------------
(***************************************************************************)
(* Proofs about ShmRing for every ring depth, every width of the sequence   *)
(* numbers and every set of descriptors.                                    *)
(***************************************************************************)
EXTENDS ShmRing, FiniteSetTheorems, SequenceTheorems, TLAPS

\* Arithmetic of the sequence numbers: Inc stays in range and wraps to 0.
LEMMA IncFacts ==
    ASSUME NEW s \in Seqs
    PROVE  /\ Inc(s) \in Seqs
           /\ Inc(s) = IF s + 1 = SeqMod THEN 0 ELSE s + 1
<1>1. SeqMod \in Nat /\ SeqMod > 0 /\ s \in Nat /\ s < SeqMod
  BY RingAssumption DEF Seqs
<1>2. CASE s + 1 = SeqMod
  <2>1. (s + 1) % SeqMod = 0
    BY <1>1, <1>2
  <2> QED BY <1>1, <1>2, <2>1 DEF Inc, Seqs
<1>3. CASE s + 1 /= SeqMod
  <2>1. s + 1 \in Nat /\ s + 1 < SeqMod
    BY <1>1, <1>3
  <2>2. (s + 1) % SeqMod = s + 1
    BY <1>1, <2>1
  <2> QED BY <1>1, <1>3, <2>1, <2>2 DEF Inc, Seqs
<1> QED BY <1>2, <1>3

\* A sequence number selects a slot.
LEMMA SlotIndex ==
    ASSUME NEW s \in Seqs
    PROVE  s % Depth \in Slots
<1>1. Depth \in Nat /\ Depth > 0 /\ s \in Nat
  BY RingAssumption DEF Seqs
<1>2. s % Depth \in 0 .. Depth - 1
  BY <1>1
<1> QED BY <1>2 DEF Slots

\* One step of either end changes the number of descriptors by one.
LEMMA UsedFacts ==
    ASSUME NEW w \in Seqs, NEW r \in Seqs
    PROVE  /\ Used(w, r) \in 0 .. SeqMod - 1
           /\ Used(w, r) = 0 <=> w = r
           /\ Used(w, r) < SeqMod - 1 => Used(Inc(w), r) = Used(w, r) + 1
           /\ w /= r => Used(w, Inc(r)) = Used(w, r) - 1
<1>1. SeqMod \in Nat /\ SeqMod > 0
  BY RingAssumption
<1>2. /\ Inc(w) = IF w + 1 = SeqMod THEN 0 ELSE w + 1
      /\ Inc(r) = IF r + 1 = SeqMod THEN 0 ELSE r + 1
  BY IncFacts
<1>3. w \in 0 .. SeqMod - 1 /\ r \in 0 .. SeqMod - 1
  BY DEF Seqs
<1>4. Used(w, r) \in 0 .. SeqMod - 1 /\ (Used(w, r) = 0 <=> w = r)
  BY <1>1, <1>3 DEF Used
<1>5. Used(w, r) < SeqMod - 1 => Used(Inc(w), r) = Used(w, r) + 1
  BY <1>1, <1>2, <1>3 DEF Used
<1>6. w /= r => Used(w, Inc(r)) = Used(w, r) - 1
  BY <1>1, <1>2, <1>3 DEF Used
<1> QED BY <1>4, <1>5, <1>6

-----------------------------------------------------------------------------
(* The inductive invariant.  It needs one producer per ring: two producers    *)
(* that load the same write_seq overwrite each other's slot and may move      *)
(* write_seq backwards.                                                       *)

SingleProducer == \A p, q \in Producers : p = q

LEMMA RingInit == Init => RingInv
<1> SUFFICES ASSUME Init PROVE RingInv
  OBVIOUS
<1>1. 0 \in Seqs
  BY RingAssumption DEF Seqs
<1>2. TypeOK
  BY <1>1 DEF Init, TypeOK, ProdPC, ConsPC
<1>3. NeverOverfull
  BY RingAssumption DEF Init, NeverOverfull, Used
<1>4. PendingCoversWork /\ HoldsItem /\ WriterIsCurrent /\ ReaderHasWork
  BY DEF Init, PendingCoversWork, HoldsItem, WriterIsCurrent, ReaderHasWork
<1> QED BY <1>2, <1>3, <1>4 DEF RingInv

LEMMA RingProducer ==
    ASSUME SingleProducer, RingInv, NEW p \in Producers,
           FinishEnqueue(p) \/ \E d \in Items : Enqueue(p, d)
    PROVE  RingInv'
<1> USE DEF RingInv, TypeOK, NeverOverfull, PendingCoversWork, HoldsItem,
            WriterIsCurrent, ReaderHasWork, ProdPC, ConsPC,
            ring, prodVars, consVars, ProducerAt
<1>1. CASE \E d \in Items : Enqueue(p, d)
  BY <1>1 DEF Enqueue
<1>2. CASE RejectFull(p)
  BY <1>2 DEF RejectFull
<1>3. CASE LoadSeqs(p)
  BY <1>3 DEF LoadSeqs
<1>4. CASE WriteSlot(p)
  BY <1>4 DEF WriteSlot
<1>5. CASE Publish(p)
  <2>1. /\ p_pc[p] = "publish"
        /\ p_w[p] = write_seq
        /\ Used(write_seq, read_seq) < Depth
        /\ write_seq' = Inc(write_seq)
        /\ read_seq' = read_seq
    BY <1>5 DEF Publish
  <2>2. Used(write_seq, read_seq) < SeqMod - 1
    BY <2>1, RingAssumption, UsedFacts
  <2>3. /\ Inc(write_seq) \in Seqs
        /\ Used(Inc(write_seq), read_seq) = Used(write_seq, read_seq) + 1
        /\ Used(write_seq, read_seq) \in Nat
        /\ Inc(write_seq) /= read_seq
    BY <2>2, IncFacts, UsedFacts
  <2>4. TypeOK'
    BY <1>5, <2>1, <2>3 DEF Publish
  <2>5. NeverOverfull'
    BY <2>1, <2>3, RingAssumption
  <2>6. PendingCoversWork' /\ HoldsItem'
    BY <1>5 DEF Publish
  <2>7. WriterIsCurrent'
    BY <1>5 DEF Publish, SingleProducer
  <2>8. ReaderHasWork'
    BY <1>5, <2>1, <2>3 DEF Publish
  <2> QED BY <2>4, <2>5, <2>6, <2>7, <2>8
<1>6. CASE SetPending(p)
  BY <1>6 DEF SetPending
<1>7. CASE Notify(p)
  BY <1>7 DEF Notify
<1> QED BY <1>1, <1>2, <1>3, <1>4, <1>5, <1>6, <1>7 DEF FinishEnqueue

LEMMA RingConsumer ==
    ASSUME RingInv, DoorbellWake \/ PeriodicWake \/ ConsumerStep
    PROVE  RingInv'
<1> USE DEF RingInv, TypeOK, NeverOverfull, PendingCoversWork, HoldsItem,
            WriterIsCurrent, ReaderHasWork, ConsPC,
            ring, prodVars, consVars, LoopOrLeave
<1>1. CASE DoorbellWake
  BY <1>1 DEF DoorbellWake
<1>2. CASE PeriodicWake
  BY <1>2 DEF PeriodicWake
<1>3. CASE LoadWriteSeq
  BY <1>3 DEF LoadWriteSeq
<1>4. CASE CopySlot
  <2>1. slots[read_seq % Depth] \in Items \cup {NoItem}
    BY SlotIndex
  <2> QED BY <1>4, <2>1 DEF CopySlot
<1>5. CASE Advance
  <2>1. /\ write_seq /= read_seq
        /\ write_seq' = write_seq
        /\ read_seq' = Inc(read_seq)
    BY <1>5 DEF Advance
  <2>2. /\ Inc(read_seq) \in Seqs
        /\ Used(write_seq, Inc(read_seq)) = Used(write_seq, read_seq) - 1
        /\ Used(write_seq, read_seq) \in Nat
    BY <2>1, IncFacts, UsedFacts
  <2>3. TypeOK' /\ HoldsItem'
    BY <1>5, <2>2 DEF Advance
  <2>4. NeverOverfull' /\ WriterIsCurrent'
    BY <1>5, <2>1, <2>2, RingAssumption DEF Advance
  <2>5. PendingCoversWork' /\ ReaderHasWork'
    BY <1>5, <2>1 DEF Advance
  <2> QED BY <2>3, <2>4, <2>5
<1>6. CASE CheckEmpty
  BY <1>6 DEF CheckEmpty
<1>7. CASE ClearPending
  BY <1>7 DEF ClearPending
<1>8. CASE Recheck
  BY <1>8 DEF Recheck
<1>9. CASE RestorePending
  BY <1>9 DEF RestorePending
<1> QED BY <1>1, <1>2, <1>3, <1>4, <1>5, <1>6, <1>7, <1>8, <1>9
        DEF ConsumerStep

LEMMA RingStep ==
    ASSUME SingleProducer, RingInv, [Next]_ringVars
    PROVE  RingInv'
<1>1. CASE Next
  BY <1>1, RingProducer, RingConsumer DEF Next
<1>2. CASE UNCHANGED ringVars
  BY <1>2 DEF ringVars, ring, prodVars, consVars, RingInv, TypeOK,
     NeverOverfull, PendingCoversWork, HoldsItem, WriterIsCurrent,
     ReaderHasWork
<1> QED BY <1>1, <1>2

\* With one producer, whatever the depth of the ring, the width of the sequence
\* numbers and the order in which the accesses of the two cores interleave, the
\* inductive invariant of enqueue and consume_descriptor holds.
THEOREM RingCorrect ==
    ASSUME SingleProducer
    PROVE  Spec => []RingInv
<1>1. RingInv /\ [Next]_ringVars => RingInv'
  BY RingStep
<1> QED BY RingInit, <1>1, PTL DEF Spec

\* The ring is never overfull: a full ring is refused before any slot is
\* written, also when write_seq has wrapped and read_seq has not.
THEOREM RingNeverOverfull ==
    ASSUME SingleProducer
    PROVE  Spec => []NeverOverfull
<1>1. RingInv => NeverOverfull
  BY DEF RingInv
<1> QED BY RingCorrect, <1>1, PTL

\* No published descriptor is left without a pending bit once both sides have
\* finished: the re-check after the clear closes the window.
THEOREM RingPendingCoversWork ==
    ASSUME SingleProducer
    PROVE  Spec => []PendingCoversWork
<1>1. RingInv => PendingCoversWork
  BY DEF RingInv
<1> QED BY RingCorrect, <1>1, PTL

\* Every variable of the ring keeps its type.
THEOREM RingTypeOK ==
    ASSUME SingleProducer
    PROVE  Spec => []TypeOK
<1>1. RingInv => TypeOK
  BY DEF RingInv
<1> QED BY RingCorrect, <1>1, PTL
-----------------------------------------------------------------------------
(* The slots of the sequence numbers.                                        *)

\* There is one remainder.
LEMMA Remainder ==
    ASSUME NEW M \in Nat \ {0}, NEW q \in Nat, NEW r \in 0 .. M - 1
    PROVE  (M * q + r) % M = r
<1> DEFINE x == M * q + r
           d == x \div M
           e == x % M
<1>1. x \in Nat /\ M * q \in Nat
  OBVIOUS
<1>2. d \in Nat /\ e \in 0 .. M - 1 /\ x = M * d + e
  <2> HIDE DEF x
  <2>1. d \in Nat
    BY <1>1
  <2>2. e \in 0 .. M - 1
    BY <1>1
  <2>3. x = M * d + e
    BY <1>1
  <2> QED BY <2>1, <2>2, <2>3
<1>3. M * q + r = M * d + e /\ M * d \in Nat
  BY <1>2
<1> HIDE DEF x, d, e
<1>4. q < d => M * q + M <= M * d
  BY <1>2
<1>5. d < q => M * d + M <= M * q
  BY <1>2
<1>6. ~(q < d) /\ ~(d < q)
  BY <1>1, <1>2, <1>3, <1>4, <1>5
<1>7. d = q
  BY <1>2, <1>6
<1>8. M * d = M * q
  BY <1>7
<1>9. e = r
  BY <1>1, <1>2, <1>3, <1>8
<1> QED BY <1>9 DEF e, x

\* The slots come round after Depth, and so after SeqMod.
LEMMA Rounds ==
    ASSUME NEW n \in Nat, NEW x \in Nat
    PROVE  (Depth * n + x) % Depth = x % Depth
<1> DEFINE q == x \div Depth
           e == x % Depth
<1>1. Depth \in Nat \ {0}
  BY RingAssumption
<1>2. q \in Nat
  BY <1>1
<1>3. e \in 0 .. Depth - 1
  BY <1>1
<1>4. x = Depth * q + e
  BY <1>1
<1> HIDE DEF q, e
<1>5. Depth * n + x = Depth * (n + q) + e /\ n + q \in Nat
  BY <1>1, <1>2, <1>3, <1>4
<1>6. (Depth * (n + q) + e) % Depth = e
  BY <1>1, <1>3, <1>5, Remainder
<1> QED BY <1>5, <1>6 DEF e

LEMMA Multiple == \E m \in Nat : SeqMod = Depth * m
<1> DEFINE m == SeqMod \div Depth
           e == SeqMod % Depth
<1>1. Depth \in Nat \ {0} /\ SeqMod \in Nat /\ e = 0
  BY RingAssumption
<1>2. m \in Nat
  BY <1>1
<1>3. SeqMod = Depth * m + e
  BY <1>1
<1>4. Depth * m \in Nat
  BY <1>1, <1>2
<1> HIDE DEF m, e
<1>5. SeqMod = Depth * m
  BY <1>1, <1>3, <1>4
<1> QED BY <1>2, <1>5

\* The wrap of the sequence numbers is not seen in the slots.
LEMMA SlotOfWrapped ==
    ASSUME NEW x \in Nat
    PROVE  /\ (x % SeqMod) % Depth = x % Depth
           /\ (SeqMod + x) % Depth = x % Depth
<1> DEFINE q == x \div SeqMod
           e == x % SeqMod
<1>1. Depth \in Nat \ {0} /\ SeqMod \in Nat \ {0}
  BY RingAssumption
<1>2. q \in Nat
  BY <1>1
<1>3. e \in 0 .. SeqMod - 1
  BY <1>1
<1>4. x = SeqMod * q + e
  BY <1>1
<1>5. PICK m \in Nat : SeqMod = Depth * m
  BY Multiple
<1>6. e % Depth = x % Depth
  <2> HIDE DEF q, e
  <2>1. SeqMod * q = Depth * (m * q) /\ m * q \in Nat
    BY <1>1, <1>2, <1>5
  <2>2. x = Depth * (m * q) + e /\ e \in Nat
    BY <1>3, <1>4, <2>1
  <2> QED BY <2>1, <2>2, Rounds
<1>7. (SeqMod + x) % Depth = x % Depth
  BY <1>5, Rounds
<1> QED BY <1>6, <1>7

\* Fewer than Depth consecutive sequence numbers have slots of their own.
LEMMA SlotsApart ==
    ASSUME NEW x \in Nat, NEW n \in 1 .. Depth - 1
    PROVE  x % Depth /= (x + n) % Depth
<1> DEFINE q == x \div Depth
           e == x % Depth
           y == x + n
           p == y \div Depth
           f == y % Depth
<1>1. Depth \in Nat \ {0} /\ y \in Nat
  BY RingAssumption
<1>2. q \in Nat
  BY <1>1
<1>3. e \in 0 .. Depth - 1
  BY <1>1
<1>4. x = Depth * q + e
  BY <1>1
<1>5. p \in Nat /\ f \in 0 .. Depth - 1 /\ y = Depth * p + f
  <2> HIDE DEF y
  <2>1. p \in Nat
    BY <1>1
  <2>2. f \in 0 .. Depth - 1
    BY <1>1
  <2>3. y = Depth * p + f
    BY <1>1
  <2> QED BY <2>1, <2>2, <2>3
<1>6. n \in Nat /\ 0 < n /\ n < Depth /\ y = x + n
  BY <1>1
<1> HIDE DEF q, e, p, f, y
<1>7. Depth * q \in Nat /\ Depth * p \in Nat
  BY <1>1, <1>2, <1>5
<1>8. q < p => Depth * q + Depth <= Depth * p
  BY <1>1, <1>2, <1>5
<1>9. p < q => Depth * p + Depth <= Depth * q
  BY <1>1, <1>2, <1>5
<1>10. ASSUME e = f PROVE FALSE
  <2>1. Depth * p = Depth * q + n
    BY <1>3, <1>4, <1>5, <1>6, <1>7, <1>10
  <2>2. ~(q < p) /\ ~(p < q)
    BY <1>1, <1>6, <1>7, <1>8, <1>9, <2>1
  <2>3. p = q
    BY <1>2, <1>5, <2>2
  <2>4. Depth * p = Depth * q
    BY <2>3
  <2> QED BY <1>6, <1>7, <2>1, <2>4
<1> QED BY <1>10 DEF e, f, y
-----------------------------------------------------------------------------
(* The contents of a ring, and what a store and an advance make of them.     *)

Contents(s, w, r) ==
    [i \in 1 .. Used(w, r) |-> s[((r + i - 1) % SeqMod) % Depth]]

LEMMA SlotOfContents ==
    ASSUME NEW s, NEW w \in Seqs, NEW r \in Seqs
    PROVE  /\ Used(w, r) \in Nat
           /\ DOMAIN Contents(s, w, r) = 1 .. Used(w, r)
           /\ \A i \in 1 .. Used(w, r) : Contents(s, w, r)[i] = s[(r + (i - 1)) % Depth]
<1>1. Used(w, r) \in Nat
  BY UsedFacts, RingAssumption
<1>2. r \in Nat
  BY DEF Seqs
<1>3. ASSUME NEW i \in 1 .. Used(w, r)
      PROVE  Contents(s, w, r)[i] = s[(r + (i - 1)) % Depth]
  <2>1. Contents(s, w, r)[i] = s[((r + i - 1) % SeqMod) % Depth]
    BY DEF Contents
  <2>2. r + i - 1 = r + (i - 1) /\ r + (i - 1) \in Nat
    BY <1>1, <1>2
  <2>3. ((r + (i - 1)) % SeqMod) % Depth = (r + (i - 1)) % Depth
    BY <2>2, SlotOfWrapped
  <2> QED BY <2>1, <2>2, <2>3
<1> QED BY <1>1, <1>3 DEF Contents

LEMMA ContentsIsSeq ==
    ASSUME NEW T, NEW s \in [Slots -> T], NEW w \in Seqs, NEW r \in Seqs
    PROVE  Contents(s, w, r) \in Seq(T) /\ Len(Contents(s, w, r)) = Used(w, r)
<1> DEFINE n == Used(w, r)
           q == Contents(s, w, r)
<1>1. n \in Nat /\ DOMAIN q = 1 .. n
  BY SlotOfContents
<1>2. ASSUME NEW i \in 1 .. n PROVE q[i] \in T
  <2>1. r + (i - 1) \in Nat
    BY <1>1 DEF Seqs
  <2>2. (r + (i - 1)) % Depth \in Slots
    <3> DEFINE x == r + (i - 1)
    <3>1. x \in Nat /\ Depth \in Nat \ {0}
      BY <2>1, RingAssumption
    <3> HIDE DEF x
    <3>2. x % Depth \in 0 .. Depth - 1
      BY <3>1
    <3> QED BY <3>2 DEF x, Slots
  <2>3. q[i] = s[(r + (i - 1)) % Depth]
    BY SlotOfContents
  <2> QED BY <2>2, <2>3
<1>3. q \in [1 .. n -> T]
  BY <1>1, <1>2 DEF Contents
<1> HIDE DEF q, n
<1>4. q \in Seq(T)
  BY <1>1, <1>3, SeqDef
<1>5. Len(q) = n
  BY <1>1, <1>4, LenProperties
<1> QED BY <1>4, <1>5 DEF q, n

\* The slot that is written next is the one after the newest.
LEMMA NextSlot ==
    ASSUME NEW w \in Seqs, NEW r \in Seqs
    PROVE  (r + Used(w, r)) % Depth = w % Depth
<1>1. SeqMod \in Nat /\ w \in Nat /\ r \in Nat
  BY RingAssumption DEF Seqs
<1>2. r + Used(w, r) = w \/ r + Used(w, r) = SeqMod + w
  BY <1>1 DEF Used
<1>3. (SeqMod + w) % Depth = w % Depth
  BY <1>1, SlotOfWrapped
<1> QED BY <1>2, <1>3

LEMMA AfterStore ==
    ASSUME NEW T, NEW s \in [Slots -> T], NEW t \in [Slots -> T], NEW w \in Seqs, NEW r \in Seqs,
           Used(w, r) < Depth, \A k \in Slots : k /= w % Depth => t[k] = s[k]
    PROVE  Contents(t, w, r) = Contents(s, w, r)
<1> DEFINE n == Used(w, r)
           p == Contents(s, w, r)
           q == Contents(t, w, r)
<1>1. p \in Seq(T) /\ Len(p) = n /\ n \in Nat
  BY ContentsIsSeq, SlotOfContents
<1>2. q \in Seq(T) /\ Len(q) = n
  BY ContentsIsSeq
<1>3. \A i \in 1 .. n : p[i] = s[(r + (i - 1)) % Depth]
  BY SlotOfContents
<1>4. \A i \in 1 .. n : q[i] = t[(r + (i - 1)) % Depth]
  BY SlotOfContents
<1>5. (r + n) % Depth = w % Depth /\ n < Depth /\ r \in Nat
  BY NextSlot DEF Seqs
<1> HIDE DEF p, q, n
<1>6. ASSUME NEW i \in 1 .. n PROVE p[i] = q[i]
  <2> DEFINE x == r + (i - 1)
             k == n - (i - 1)
  <2>1. Depth \in Nat \ {0} /\ x \in Nat /\ k \in 1 .. Depth - 1 /\ x + k = r + n
    BY <1>1, <1>5, RingAssumption
  <2>2. p[i] = s[x % Depth] /\ q[i] = t[x % Depth]
    BY <1>3, <1>4
  <2> HIDE DEF x, k
  <2>3. x % Depth /= w % Depth
    BY <1>5, <2>1, SlotsApart
  <2>4. x % Depth \in 0 .. Depth - 1
    BY <2>1
  <2> QED BY <2>2, <2>3, <2>4 DEF Slots
<1>7. p = q
  BY <1>1, <1>2, <1>6, SeqEqual
<1> QED BY <1>7 DEF p, q

LEMMA AfterPublish ==
    ASSUME NEW T, NEW s \in [Slots -> T], NEW w \in Seqs, NEW r \in Seqs,
           Used(w, r) < Depth
    PROVE  Contents(s, Inc(w), r) = Append(Contents(s, w, r), s[w % Depth])
<1> DEFINE n == Used(w, r)
           d == s[w % Depth]
           p == Contents(s, w, r)
           q == Contents(s, Inc(w), r)
<1>1. /\ Inc(w) \in Seqs /\ Used(Inc(w), r) = n + 1 /\ n \in Nat
      /\ d \in T
  <2>1. n < SeqMod - 1 /\ n \in Nat
    BY UsedFacts, RingAssumption
  <2>2. d \in T
    BY SlotIndex
  <2> QED BY <2>1, <2>2, IncFacts, UsedFacts
<1>2. p \in Seq(T) /\ q \in Seq(T) /\ Len(p) = n /\ Len(q) = n + 1
  <2>1. p \in Seq(T) /\ Len(p) = n
    BY ContentsIsSeq
  <2>2. q \in Seq(T) /\ Len(q) = Used(Inc(w), r)
    BY <1>1, ContentsIsSeq
  <2> QED BY <1>1, <2>1, <2>2
<1>3. \A i \in 1 .. n : p[i] = s[(r + (i - 1)) % Depth]
  BY SlotOfContents
<1>4. \A i \in 1 .. n + 1 : q[i] = s[(r + (i - 1)) % Depth]
  <2>1. \A i \in 1 .. Used(Inc(w), r) : q[i] = s[(r + (i - 1)) % Depth]
    BY <1>1, SlotOfContents
  <2> HIDE DEF q
  <2> QED BY <1>1, <2>1
<1>5. q[n + 1] = d
  <2>1. n + 1 \in 1 .. n + 1 /\ (n + 1) - 1 = n
    BY <1>1
  <2>2. q[n + 1] = s[(r + n) % Depth]
    <3> HIDE DEF q, n
    <3>1. q[n + 1] = s[(r + ((n + 1) - 1)) % Depth]
      BY <1>4, <2>1
    <3> QED BY <2>1, <3>1
  <2> QED BY <2>2, NextSlot
<1>6. \A i \in 1 .. n : q[i] = p[i]
  BY <1>1, <1>3, <1>4
<1> HIDE DEF p, q, n, d
<1>7. Append(p, d) \in Seq(T) /\ Len(Append(p, d)) = n + 1
  BY <1>1, <1>2
<1>8. \A i \in 1 .. n + 1 : Append(p, d)[i] = IF i <= n THEN p[i] ELSE d
  BY <1>1, <1>2
<1>9. \A i \in 1 .. n + 1 : q[i] = Append(p, d)[i]
  <2>1. \A i \in 1 .. n + 1 : (i \in 1 .. n /\ i <= n) \/ (i = n + 1 /\ ~(i <= n))
    BY <1>1
  <2> QED BY <1>5, <1>6, <1>8, <2>1
<1>10. q = Append(p, d)
  BY <1>2, <1>7, <1>9, SeqEqual
<1> QED BY <1>10 DEF p, q, d

LEMMA AfterAdvance ==
    ASSUME NEW T, NEW s \in [Slots -> T], NEW w \in Seqs, NEW r \in Seqs, w /= r
    PROVE  /\ Contents(s, w, r) /= <<>>
           /\ Head(Contents(s, w, r)) = s[r % Depth]
           /\ Contents(s, w, Inc(r)) = Tail(Contents(s, w, r))
<1> DEFINE n == Used(w, r)
           p == Contents(s, w, r)
           q == Contents(s, w, Inc(r))
<1>1. /\ Inc(r) \in Seqs /\ Used(w, Inc(r)) = n - 1 /\ n \in Nat /\ n /= 0
      /\ r \in Nat
  BY IncFacts, UsedFacts, RingAssumption DEF Seqs
<1>2. p \in Seq(T) /\ q \in Seq(T) /\ Len(p) = n /\ Len(q) = n - 1
  BY <1>1, ContentsIsSeq
<1>3. \A i \in 1 .. n : p[i] = s[(r + (i - 1)) % Depth]
  BY SlotOfContents
<1>4. \A i \in 1 .. n - 1 : q[i] = s[(Inc(r) + (i - 1)) % Depth]
  <2>1. \A i \in 1 .. Used(w, Inc(r)) : q[i] = s[(Inc(r) + (i - 1)) % Depth]
    BY <1>1, SlotOfContents
  <2> HIDE DEF q
  <2> QED BY <1>1, <2>1
<1>5. ASSUME NEW i \in 1 .. n - 1 PROVE q[i] = p[i + 1]
  <2>1. i + 1 \in 1 .. n /\ (i + 1) - 1 = i /\ i \in Nat /\ i - 1 \in Nat
    BY <1>1
  <2>2. p[i + 1] = s[(r + i) % Depth]
    BY <1>3, <2>1
  <2>3. (Inc(r) + (i - 1)) % Depth = (r + i) % Depth
    <3>1. CASE r + 1 = SeqMod
      <4>1. Inc(r) + (i - 1) = i - 1 /\ r + i = SeqMod + (i - 1)
        BY <1>1, <2>1, <3>1, IncFacts
      <4> QED BY <2>1, <4>1, SlotOfWrapped
    <3>2. CASE r + 1 /= SeqMod
      <4>1. Inc(r) + (i - 1) = r + i
        BY <1>1, <2>1, <3>2, IncFacts
      <4> QED BY <4>1
    <3> QED BY <3>1, <3>2
  <2> QED BY <1>4, <2>2, <2>3
<1>6. p[1] = s[r % Depth]
  <2>1. 1 \in 1 .. n /\ r + (1 - 1) = r
    BY <1>1
  <2> QED BY <1>3, <2>1
<1> HIDE DEF p, q, n
<1>7. p /= <<>> /\ Head(p) = p[1]
  BY <1>1, <1>2
<1>8. Tail(p) \in Seq(T) /\ Len(Tail(p)) = n - 1 /\ \A i \in 1 .. n - 1 : Tail(p)[i] = p[i + 1]
  BY <1>2, <1>7, HeadTailProperties
<1>9. q = Tail(p)
  BY <1>2, <1>5, <1>8, SeqEqual
<1> QED BY <1>6, <1>7, <1>9 DEF p, q
-----------------------------------------------------------------------------
(* The ring implements the queue.                                            *)

LEMMA QueueIsContents ==
    /\ Queue = Contents(slots, write_seq, read_seq)
    /\ Queue' = Contents(slots', write_seq', read_seq')
<1> QED BY DEF Queue, Contents

\* What each step makes of the queue.
LEMMA QueueStep ==
    ASSUME SingleProducer, RingInv, ContentsInv, [Next]_ringVars
    PROVE  \/ /\ Queue' = Queue /\ delivered' = delivered /\ owed' = owed
           \/ /\ \E p \in Producers : Publish(p) /\ Queue' = Append(Queue, p_item[p])
                                      /\ p_item[p] \in Items
              /\ Len(Queue) < Depth
           \/ /\ Advance
              /\ Queue /= <<>> /\ c_item = Head(Queue) /\ Queue' = Tail(Queue)
<1> DEFINE T == Items \cup {NoItem}
<1>1. /\ slots \in [Slots -> T] /\ write_seq \in Seqs /\ read_seq \in Seqs
      /\ p_item \in [Producers -> T]
  BY DEF RingInv, TypeOK
<1> HIDE DEF T
<1>2. CASE UNCHANGED <<ring, delivered, owed>>
  BY <1>2, QueueIsContents DEF ring
<1>3. ASSUME NEW p \in Producers, WriteSlot(p)
      PROVE  Queue' = Queue /\ delivered' = delivered /\ owed' = owed
  <2>1. /\ p_w[p] = write_seq /\ Used(write_seq, read_seq) < Depth /\ p_item[p] \in T
        /\ slots' = [slots EXCEPT ![write_seq % Depth] = p_item[p]]
        /\ write_seq' = write_seq /\ read_seq' = read_seq
        /\ delivered' = delivered /\ owed' = owed
    BY <1>1, <1>3 DEF WriteSlot, ProducerAt, RingInv, WriterIsCurrent, consVars
  <2>2. Contents(slots', write_seq, read_seq) = Contents(slots, write_seq, read_seq)
    <3>1. slots' \in [Slots -> T] /\ \A k \in Slots : k /= write_seq % Depth => slots'[k] = slots[k]
      BY <1>1, <2>1
    <3>2. Used(write_seq, read_seq) < Depth
      BY <2>1
    <3> QED BY <1>1, <3>1, <3>2, AfterStore
  <2> QED BY <2>1, <2>2, QueueIsContents
<1>4. ASSUME NEW p \in Producers, Publish(p)
      PROVE  /\ Queue' = Append(Queue, p_item[p]) /\ p_item[p] \in Items
             /\ Len(Queue) < Depth
  <2>1. /\ p_w[p] = write_seq /\ Used(write_seq, read_seq) < Depth
        /\ write_seq' = Inc(write_seq) /\ slots' = slots /\ read_seq' = read_seq
        /\ p_item[p] \in Items /\ slots[write_seq % Depth] = p_item[p]
    BY <1>4 DEF Publish, ProducerAt, RingInv, WriterIsCurrent, HoldsItem, ContentsInv
  <2>2. Contents(slots, Inc(write_seq), read_seq)
            = Append(Contents(slots, write_seq, read_seq), slots[write_seq % Depth])
    BY <1>1, <2>1, AfterPublish
  <2>3. Len(Queue) = Used(write_seq, read_seq)
    <3>1. Len(Contents(slots, write_seq, read_seq)) = Used(write_seq, read_seq)
      BY <1>1, ContentsIsSeq
    <3> QED BY <3>1, QueueIsContents
  <2> QED BY <2>1, <2>2, <2>3, QueueIsContents
<1>5. ASSUME Advance
      PROVE  Queue /= <<>> /\ c_item = Head(Queue) /\ Queue' = Tail(Queue)
  <2>1. /\ write_seq /= read_seq /\ read_seq' = Inc(read_seq)
        /\ slots' = slots /\ write_seq' = write_seq
        /\ c_item = slots[read_seq % Depth]
    BY <1>5 DEF Advance, RingInv, ReaderHasWork, ContentsInv
  <2>2. LET q == Contents(slots, write_seq, read_seq) IN
        /\ q /= <<>> /\ Head(q) = slots[read_seq % Depth]
        /\ Contents(slots, write_seq, Inc(read_seq)) = Tail(q)
    BY <1>1, <2>1, AfterAdvance
  <2> QED BY <2>1, <2>2, QueueIsContents
<1>6. ASSUME NEW p \in Producers, FinishEnqueue(p) \/ \E d \in Items : Enqueue(p, d)
      PROVE  UNCHANGED <<ring, delivered, owed>> \/ WriteSlot(p) \/ Publish(p)
  BY <1>6 DEF FinishEnqueue, Enqueue, RejectFull, LoadSeqs, SetPending, Notify, consVars
<1>7. ASSUME DoorbellWake \/ PeriodicWake \/ ConsumerStep
      PROVE  UNCHANGED <<ring, delivered, owed>> \/ Advance
  BY <1>7 DEF DoorbellWake, PeriodicWake, ConsumerStep, LoadWriteSeq, CopySlot, CheckEmpty,
              ClearPending, Recheck, RestorePending
<1>8. CASE UNCHANGED ringVars
  BY <1>2, <1>8 DEF ringVars, consVars
<1> QED BY <1>2, <1>3, <1>4, <1>5, <1>6, <1>7, <1>8 DEF Next

\* What is in a queue after an Append and after a Tail.
Elements(q) == {q[i] : i \in DOMAIN q}

LEMMA Appended ==
    ASSUME NEW T, NEW q \in Seq(T), NEW d \in T
    PROVE  /\ Elements(Append(q, d)) = Elements(q) \cup {d}
           /\ (\A i, j \in DOMAIN q : q[i] = q[j] => i = j) /\ d \notin Elements(q) =>
                 \A i, j \in DOMAIN Append(q, d) : Append(q, d)[i] = Append(q, d)[j] => i = j
<1> DEFINE n == Len(q)
           a == Append(q, d)
<1>1. n \in Nat /\ DOMAIN q = 1 .. n
  BY LenProperties
<1>2. DOMAIN a = 1 .. n + 1 /\ \A i \in 1 .. n : a[i] = q[i]
  BY <1>1
<1>3. a[n + 1] = d
  BY <1>1
<1> HIDE DEF a, n
<1>4. \A i : i \in 1 .. n + 1 <=> i \in 1 .. n \/ i = n + 1
  BY <1>1
<1>5. Elements(a) = Elements(q) \cup {d}
  BY <1>1, <1>2, <1>3, <1>4 DEF Elements
<1>6. ASSUME \A i, j \in DOMAIN q : q[i] = q[j] => i = j,
             d \notin Elements(q),
             NEW i \in DOMAIN a, NEW j \in DOMAIN a, a[i] = a[j]
      PROVE  i = j
  BY <1>1, <1>2, <1>3, <1>4, <1>6 DEF Elements
<1> QED BY <1>5, <1>6 DEF a

LEMMA Shifted ==
    ASSUME NEW T, NEW q \in Seq(T), q /= <<>>,
           \A i, j \in DOMAIN q : q[i] = q[j] => i = j
    PROVE  /\ Elements(Tail(q)) = Elements(q) \ {Head(q)}
           /\ \A i, j \in DOMAIN Tail(q) : Tail(q)[i] = Tail(q)[j] => i = j
<1> DEFINE n == Len(q)
           t == Tail(q)
<1>1. n \in Nat /\ n /= 0 /\ DOMAIN q = 1 .. n
  BY LenProperties, EmptySeq
<1>2. t \in Seq(T) /\ Len(t) = n - 1 /\ \A i \in 1 .. n - 1 : t[i] = q[i + 1]
  BY HeadTailProperties
<1>3. DOMAIN t = 1 .. n - 1
  BY <1>2, LenProperties
<1>4. Head(q) = q[1]
  OBVIOUS
<1> HIDE DEF t, n
<1>5. \A i : i \in 1 .. n <=> i = 1 \/ \E k \in 1 .. n - 1 : i = k + 1
  <2>1. \A i \in 1 .. n : i /= 1 => i - 1 \in 1 .. n - 1 /\ i = (i - 1) + 1
    BY <1>1
  <2>2. \A k \in 1 .. n - 1 : k + 1 \in 1 .. n
    BY <1>1
  <2>3. 1 \in 1 .. n
    BY <1>1
  <2> QED BY <2>1, <2>2, <2>3
<1>6. \A k \in 1 .. n - 1 : k + 1 /= 1 /\ k + 1 \in 1 .. n
  BY <1>1
<1>7. Elements(t) = Elements(q) \ {Head(q)}
  <2>1. 1 \in 1 .. n
    BY <1>1
  <2>2. ASSUME NEW x \in Elements(t)
        PROVE  x \in Elements(q) \ {Head(q)}
    <3>1. PICK k \in 1 .. n - 1 : x = q[k + 1]
      BY <1>2, <1>3 DEF Elements
    <3>2. q[k + 1] /= q[1]
      BY <1>1, <1>6, <2>1
    <3> QED BY <1>1, <1>4, <1>6, <3>1, <3>2 DEF Elements
  <2>3. ASSUME NEW x \in Elements(q) \ {Head(q)}
        PROVE  x \in Elements(t)
    <3>1. PICK i \in 1 .. n : x = q[i] /\ i /= 1
      BY <1>1, <1>4 DEF Elements
    <3>2. PICK k \in 1 .. n - 1 : i = k + 1
      BY <1>5, <3>1
    <3> QED BY <1>2, <1>3, <3>1, <3>2 DEF Elements
  <2> QED BY <2>2, <2>3
<1>8. ASSUME NEW i \in DOMAIN t, NEW j \in DOMAIN t, t[i] = t[j]
      PROVE  i = j
  <2>1. i \in Nat /\ j \in Nat /\ i + 1 = j + 1
    BY <1>1, <1>2, <1>3, <1>6, <1>8
  <2> QED BY <2>1
<1> QED BY <1>7, <1>8 DEF t
LEMMA ContentsInit == Init => ContentsInv
<1> SUFFICES ASSUME Init PROVE ContentsInv
  OBVIOUS
<1>1. Used(write_seq, read_seq) = 0
  BY RingAssumption DEF Init, Used
<1>2. DOMAIN Queue = {}
  BY <1>1 DEF Queue
<1>3. owed = {} /\ {Queue[i] : i \in DOMAIN Queue} = {}
  BY <1>2 DEF Init
<1> QED BY <1>2, <1>3 DEF Init, ContentsInv, NothingTwice

LEMMA QueueIsSeq ==
    ASSUME TypeOK
    PROVE  Queue \in Seq(Items \cup {NoItem})
<1> DEFINE T == Items \cup {NoItem}
<1>1. slots \in [Slots -> T] /\ write_seq \in Seqs /\ read_seq \in Seqs
  BY DEF TypeOK
<1> HIDE DEF T
<1>2. Contents(slots, write_seq, read_seq) \in Seq(T)
  BY <1>1, ContentsIsSeq
<1> QED BY <1>2, QueueIsContents DEF T

\* The descriptor of an enqueue is in no other place, and in its slot from
\* WriteSlot on.
LEMMA InSlot ==
    ASSUME SingleProducer, RingInv, ContentsInv, [Next]_ringVars
    PROVE  \A p \in Producers :
               p_pc'[p] = "publish" => slots'[p_w'[p] % Depth] = p_item'[p]
<1>1. TypeOK
  BY DEF RingInv
<1>2. ASSUME NEW p \in Producers, p_pc[p] = "publish", UNCHANGED <<slots, p_w, p_item>>
      PROVE  slots'[p_w'[p] % Depth] = p_item'[p]
  BY <1>2 DEF ContentsInv
<1>3. ASSUME NEW p \in Producers, WriteSlot(p)
      PROVE  slots'[p_w'[p] % Depth] = p_item'[p]
  <2>1. p_w[p] \in Seqs /\ slots \in [Slots -> Items \cup {NoItem}]
    BY <1>1 DEF TypeOK
  <2>2. p_w[p] % Depth \in Slots
    BY <2>1, SlotIndex
  <2> QED BY <1>3, <2>1, <2>2 DEF WriteSlot
<1>4. ASSUME NEW p \in Producers, p_pc'[p] = "publish"
      PROVE  WriteSlot(p) \/ (p_pc[p] = "publish" /\ UNCHANGED <<slots, p_w, p_item>>)
  <2>1. CASE UNCHANGED ringVars
    BY <1>4, <2>1 DEF ringVars, ring, prodVars
  <2>2. CASE DoorbellWake \/ PeriodicWake \/ ConsumerStep
    BY <1>4, <2>2 DEF DoorbellWake, PeriodicWake, ConsumerStep, LoadWriteSeq, CopySlot, Advance,
                      CheckEmpty, ClearPending, Recheck, RestorePending, ring, prodVars
  <2>3. CASE FinishEnqueue(p) \/ \E d \in Items : Enqueue(p, d)
    <3>1. p_pc \in [Producers -> ProdPC]
      BY <1>1 DEF TypeOK
    <3> QED BY <1>4, <2>3, <3>1 DEF FinishEnqueue, Enqueue, RejectFull, LoadSeqs, Publish,
                      SetPending, Notify, ProducerAt, WasEmpty
  <2> QED BY <2>1, <2>2, <2>3 DEF Next, SingleProducer
<1> QED BY <1>2, <1>3, <1>4

LEMMA OldestIsCopied ==
    ASSUME RingInv, ContentsInv, [Next]_ringVars, SingleProducer
    PROVE  c_pc' = "advance" => c_item' = slots'[read_seq' % Depth]
<1> DEFINE T == Items \cup {NoItem}
<1>1. slots \in [Slots -> T] /\ write_seq \in Seqs /\ read_seq \in Seqs /\ p_item \in [Producers -> T]
  BY DEF RingInv, TypeOK
<1> HIDE DEF T
<1>2. CASE CopySlot
  BY <1>2 DEF CopySlot, ring
<1>3. ASSUME c_pc = "advance", UNCHANGED <<ring, c_item>>
      PROVE  c_item' = slots'[read_seq' % Depth]
  BY <1>3 DEF ContentsInv, ring
<1>4. ASSUME NEW p \in Producers, WriteSlot(p), c_pc = "advance"
      PROVE  c_item' = slots'[read_seq' % Depth]
  <2> DEFINE s == slots[read_seq % Depth]
  <2>1. /\ p_w[p] = write_seq /\ Used(write_seq, read_seq) < Depth /\ p_item[p] \in T
        /\ slots' = [slots EXCEPT ![write_seq % Depth] = p_item[p]]
        /\ read_seq' = read_seq /\ c_item' = c_item
        /\ c_item = slots[read_seq % Depth]
        /\ write_seq /= read_seq
    BY <1>1, <1>4 DEF WriteSlot, ProducerAt, RingInv, WriterIsCurrent, ReaderHasWork,
                      ContentsInv, consVars
  <2>2. read_seq % Depth /= write_seq % Depth
    <3> DEFINE n == Used(write_seq, read_seq)
               r == read_seq
    <3>1. n \in 1 .. Depth - 1 /\ r \in Nat
      <4>1. n \in Nat /\ n /= 0
        BY <1>1, <2>1, UsedFacts, RingAssumption
      <4>2. r \in Nat
        BY <1>1 DEF Seqs
      <4> HIDE DEF n, r
      <4> QED BY <2>1, <4>1, <4>2, RingAssumption DEF n
    <3>2. (r + n) % Depth = write_seq % Depth
      BY <1>1, NextSlot
    <3> HIDE DEF n, r
    <3>3. r % Depth /= (r + n) % Depth
      BY <3>1, SlotsApart
    <3> QED BY <3>2, <3>3 DEF r
  <2>3. read_seq % Depth \in Slots
    BY <1>1, SlotIndex
  <2> QED BY <1>1, <2>1, <2>2, <2>3
<1>5. ASSUME c_pc' = "advance"
      PROVE  \/ CopySlot
             \/ c_pc = "advance" /\ UNCHANGED <<ring, c_item>>
             \/ c_pc = "advance" /\ \E p \in Producers : WriteSlot(p)
             \/ c_pc = "advance" /\ \E p \in Producers : Publish(p)
  <2>1. CASE UNCHANGED ringVars
    BY <1>5, <2>1 DEF ringVars, consVars
  <2>2. CASE DoorbellWake \/ PeriodicWake \/ ConsumerStep
    BY <1>5, <2>2 DEF DoorbellWake, PeriodicWake, ConsumerStep, LoadWriteSeq, Advance,
                      CheckEmpty, ClearPending, Recheck, RestorePending, LoopOrLeave
  <2>3. ASSUME NEW p \in Producers, FinishEnqueue(p) \/ \E d \in Items : Enqueue(p, d)
        PROVE  c_pc = "advance" /\ (UNCHANGED <<ring, c_item>> \/ WriteSlot(p) \/ Publish(p))
    BY <1>5, <2>3 DEF FinishEnqueue, Enqueue, RejectFull, LoadSeqs, WriteSlot, Publish,
                      SetPending, Notify, consVars
  <2> QED BY <2>1, <2>2, <2>3 DEF Next
<1>6. ASSUME NEW p \in Producers, Publish(p), c_pc = "advance"
      PROVE  c_item' = slots'[read_seq' % Depth]
  BY <1>6 DEF Publish, ContentsInv, consVars
<1> QED BY <1>2, <1>3, <1>4, <1>5, <1>6
LEMMA ContentsStep ==
    ASSUME SingleProducer, RingInv, ContentsInv, [Next]_ringVars
    PROVE  ContentsInv'
<1> DEFINE T == Items \cup {NoItem}
<1>1. /\ TypeOK /\ owed = Elements(Queue) /\ NothingTwice /\ Queue \in Seq(T)
      /\ owed \subseteq Items /\ p_item \in [Producers -> T] /\ NoItem \notin Items
      /\ \A p \in Producers : p_item[p] \notin owed
  BY QueueIsSeq, RingAssumption DEF RingInv, TypeOK, ContentsInv, Elements
<1>2. /\ \A p \in Producers :
            p_pc'[p] = "publish" => slots'[p_w'[p] % Depth] = p_item'[p]
      /\ c_pc' = "advance" => c_item' = slots'[read_seq' % Depth]
  BY InSlot, OldestIsCopied
<1> SUFFICES owed' = Elements(Queue') /\ NothingTwice' /\ \A p \in Producers : p_item'[p] \notin owed'
  BY <1>2 DEF ContentsInv, Elements
<1>3. CASE Queue' = Queue /\ delivered' = delivered /\ owed' = owed
  <2>1. owed' = Elements(Queue')
    BY <1>1, <1>3
  <2>2. NothingTwice'
    BY <1>1, <1>3 DEF NothingTwice
  <2>3. ASSUME NEW p \in Producers PROVE p_item'[p] \notin owed
    <3>1. ASSUME NEW d \in Items, Enqueue(p, d)
          PROVE  p_item'[p] \notin owed
      BY <1>1, <3>1 DEF Enqueue, Free
    <3>2. ASSUME Publish(p) \/ RejectFull(p)
          PROVE  p_item'[p] \notin owed
      BY <1>1, <3>2 DEF Publish, RejectFull
    <3>3. ASSUME p_item' = p_item PROVE p_item'[p] \notin owed
      BY <1>1, <3>3
    <3>4. p_item' = p_item \/ Publish(p) \/ RejectFull(p) \/ \E d \in Items : Enqueue(p, d)
      <4>1. CASE UNCHANGED ringVars
        BY <4>1 DEF ringVars, prodVars
      <4>2. CASE DoorbellWake \/ PeriodicWake \/ ConsumerStep
        BY <4>2 DEF DoorbellWake, PeriodicWake, ConsumerStep, LoadWriteSeq, CopySlot, Advance,
                    CheckEmpty, ClearPending, Recheck, RestorePending, prodVars
      <4>3. CASE FinishEnqueue(p)
        BY <4>3 DEF FinishEnqueue, LoadSeqs, WriteSlot, SetPending, Notify
      <4> QED BY <4>1, <4>2, <4>3 DEF Next, SingleProducer
    <3> QED BY <3>1, <3>2, <3>3, <3>4
  <2> QED BY <1>3, <2>1, <2>2, <2>3
<1>4. ASSUME NEW p \in Producers, Publish(p), Queue' = Append(Queue, p_item[p]), p_item[p] \in Items
      PROVE  owed' = Elements(Queue') /\ NothingTwice' /\ \A q \in Producers : p_item'[q] \notin owed'
  <2> DEFINE d == p_item[p]
  <2>1. d \in T /\ d \notin Elements(Queue)
    BY <1>1, <1>4
  <2>2. owed' = owed \cup {d} /\ \A q \in Producers : p_item'[q] = NoItem
    BY <1>1, <1>4 DEF Publish, SingleProducer
  <2> HIDE DEF d, T
  <2>3. Queue' = Append(Queue, d)
    BY <1>4 DEF d
  <2>4. Elements(Append(Queue, d)) = Elements(Queue) \cup {d}
    BY <1>1, <2>1, Appended
  <2>5. \A i, j \in DOMAIN Append(Queue, d) : Append(Queue, d)[i] = Append(Queue, d)[j] => i = j
    BY <1>1, <2>1, Appended DEF NothingTwice
  <2>6. owed' = Elements(Queue')
    BY <1>1, <2>2, <2>3, <2>4
  <2>7. NothingTwice'
    BY <2>3, <2>5 DEF NothingTwice
  <2>8. NoItem \notin owed'
    BY <1>1, <1>4, <2>2 DEF d
  <2> QED BY <2>2, <2>6, <2>7, <2>8
<1>5. ASSUME Advance, Queue /= <<>>, c_item = Head(Queue), Queue' = Tail(Queue)
      PROVE  owed' = Elements(Queue') /\ NothingTwice' /\ \A p \in Producers : p_item'[p] \notin owed'
  <2>1. owed' = owed \ {Head(Queue)} /\ p_item' = p_item
    BY <1>5 DEF Advance, prodVars
  <2> HIDE DEF T
  <2>2. Elements(Tail(Queue)) = Elements(Queue) \ {Head(Queue)}
    BY <1>1, <1>5, Shifted DEF NothingTwice
  <2>3. \A i, j \in DOMAIN Tail(Queue) : Tail(Queue)[i] = Tail(Queue)[j] => i = j
    BY <1>1, <1>5, Shifted DEF NothingTwice
  <2>4. NothingTwice'
    BY <1>5, <2>3 DEF NothingTwice
  <2> QED BY <1>1, <1>5, <2>1, <2>2, <2>4
<1> QED BY <1>3, <1>4, <1>5, QueueStep

\* With one producer, a descriptor is in the ring once from its publication
\* until it is taken, and the consumer hands out the one it has copied.
THEOREM RingContents ==
    ASSUME SingleProducer
    PROVE  Spec => [](RingInv /\ ContentsInv)
<1>1. Init => RingInv /\ ContentsInv
  BY RingInit, ContentsInit
<1>2. RingInv /\ ContentsInv /\ [Next]_ringVars => (RingInv /\ ContentsInv)'
  BY RingStep, ContentsStep
<1> QED BY <1>1, <1>2, PTL DEF Spec

\* With one producer no descriptor whose enqueue succeeded is lost or taken
\* twice, for every depth and every width of the sequence numbers.  Two
\* producers lose one: the run ShmRing_two.
THEOREM RingNoDescriptorLost ==
    ASSUME SingleProducer
    PROVE  Spec => []NoDescriptorLost
<1>1. RingInv /\ ContentsInv => NoDescriptorLost
  <2> SUFFICES ASSUME RingInv, ContentsInv PROVE NoDescriptorLost
    OBVIOUS
  <2> DEFINE n == Len(Queue)
  <2>1. Queue \in Seq(Items \cup {NoItem})
    BY QueueIsSeq DEF RingInv
  <2>2. n \in Nat /\ DOMAIN Queue = 1 .. n /\ Queue \in [1 .. n -> Items \cup {NoItem}]
    BY <2>1, LenProperties
  <2>3. owed = {Queue[i] : i \in 1 .. n} /\ \A i, j \in 1 .. n : Queue[i] = Queue[j] => i = j
    BY <2>2 DEF ContentsInv, NothingTwice
  <2>4. Cardinality(1 .. n) = n /\ IsFiniteSet(1 .. n)
    <3>1. 1 <= n + 1 /\ (1 > n <=> n = 0)
      BY <2>2
    <3> HIDE DEF n
    <3>2. Cardinality(1 .. n) = IF 1 > n THEN 0 ELSE n - 1 + 1
      BY <2>2, FS_Interval
    <3>3. IsFiniteSet(1 .. n)
      BY <2>2, FS_Interval
    <3> QED BY <2>2, <3>1, <3>2, <3>3
  <2>5. Queue \in Surjection(1 .. n, owed) /\ Queue \in Injection(1 .. n, owed)
    BY <2>2, <2>3 DEF Surjection, Injection, IsInjective
  <2> HIDE DEF n
  <2>6. Queue \in Bijection(1 .. n, owed)
    BY <2>5 DEF Bijection
  <2>7. Cardinality(owed) = n
    BY <2>4, <2>6, FS_Bijection DEF ExistsBijection
  <2> QED BY <2>7 DEF NoDescriptorLost, ContentsInv, n
<1> QED BY RingContents, <1>1, PTL

\* The ring with one producer is a bounded FIFO queue: it starts empty, a
\* publication is a Put, an advance a Get of the oldest, and no other step of
\* either core is seen.  (The fairness of Get is left to the run ShmRing.)
THEOREM RingRefinesFifo ==
    ASSUME SingleProducer
    PROVE  Spec => Fifo!FifoInit /\ [][Fifo!FifoNext]_(Fifo!fifoVars)
<1>1. Init => Fifo!FifoInit
  <2> SUFFICES ASSUME Init PROVE Fifo!FifoInit
    OBVIOUS
  <2>1. Queue \in Seq(Items \cup {NoItem})
    BY RingInit, QueueIsSeq DEF RingInv
  <2>2. Used(write_seq, read_seq) = 0
    BY RingAssumption DEF Init, Used
  <2>3. DOMAIN Queue = {}
    BY <2>2 DEF Queue
  <2>4. Queue = <<>>
    BY <2>1, <2>3, EmptySeq, LenProperties
  <2>5. delivered = NoItem
    BY DEF Init
  <2> QED BY <2>4, <2>5 DEF Fifo!FifoInit
<1>2. RingInv /\ ContentsInv /\ [Next]_ringVars => [Fifo!FifoNext]_(Fifo!fifoVars)
  <2> SUFFICES ASSUME RingInv, ContentsInv, [Next]_ringVars
               PROVE  [Fifo!FifoNext]_(Fifo!fifoVars)
    OBVIOUS
  <2>1. CASE Queue' = Queue /\ delivered' = delivered /\ owed' = owed
    BY <2>1 DEF Fifo!fifoVars
  <2>2. ASSUME NEW p \in Producers, Publish(p), Queue' = Append(Queue, p_item[p]),
               p_item[p] \in Items, Len(Queue) < Depth
        PROVE  Fifo!FifoNext
    BY <2>2 DEF Fifo!FifoNext, Fifo!Put, Publish, consVars
  <2>3. ASSUME Advance, Queue /= <<>>, c_item = Head(Queue), Queue' = Tail(Queue)
        PROVE  Fifo!FifoNext
    <3>1. c_item /= NoItem
      <4>1. Queue \in Seq(Items \cup {NoItem}) /\ owed \subseteq Items
        BY QueueIsSeq DEF RingInv, TypeOK
      <4>2. Queue[1] \in owed
        <5>1. 1 \in DOMAIN Queue
          BY <2>3, <4>1, EmptySeq, LenProperties
        <5> QED BY <5>1 DEF ContentsInv
      <4>3. Head(Queue) = Queue[1]
        BY <2>3, <4>1
      <4> QED BY <2>3, <4>1, <4>2, <4>3, RingAssumption
    <3>2. delivered' = c_item
      BY <2>3 DEF Advance
    <3> QED BY <2>3, <3>1, <3>2 DEF Fifo!FifoNext, Fifo!Get
  <2> QED BY <2>1, <2>2, <2>3, QueueStep
<1> QED BY RingContents, <1>1, <1>2, PTL DEF Spec
=============================================================================
