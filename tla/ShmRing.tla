------------------------------ MODULE ShmRing ------------------------------
(***************************************************************************)
(* One descriptor ring of the shared region (put_shm_descriptor_ring_t,     *)
(* put_shm_reclaim_ring_t), its pending bit and its doorbell, at the grain   *)
(* of the accesses to shared memory that the two cores interleave.          *)
(*                                                                          *)
(* The enqueue and dequeue paths of both cores have the same shape:         *)
(*   RX ring       linux_shm_enqueue_rx_descriptor, RTOS drain loop         *)
(*   TX ring       rtos_shm_descriptor_ring_enqueue, egress worker          *)
(*   reclaim ring  rtos_shm_ipc_reclaim_frame, egress manager               *)
(* Sequence numbers are unsigned machine words that wrap at SeqMod.  Cache  *)
(* maintenance succeeds: a store followed by its flush is one step.         *)
(***************************************************************************)
EXTENDS Naturals, Sequences, FiniteSets

CONSTANTS
    Items,       \* descriptors, named by the frame they refer to
    Producers,   \* threads that enqueue into this ring
    Depth,       \* PUT_SHM_DESCRIPTOR_RING_DEPTH
    SeqMod,      \* 2^32 in the code: sequence numbers are uint32_t
    NoItem       \* an empty slot or local

ASSUME RingAssumption ==
    /\ Depth \in Nat \ {0}
    /\ SeqMod \in Nat \ {0}
    /\ SeqMod % Depth = 0
    /\ Depth < SeqMod
    /\ NoItem \notin Items

VARIABLES
    slots,      \* ring->descriptors
    write_seq,  \* ring->producer.write_seq
    read_seq,   \* ring->consumer.read_seq
    pending,    \* this ring's bit of the pending line
    doorbell,   \* a mailbox notification the consumer has not taken
    p_pc,       \* producers: where the enqueue call is,
    p_item,     \*   the descriptor it holds,
    p_w, p_r,   \*   and its copies of write_seq and read_seq
    c_pc,       \* consumer: where the drain loop is,
    c_item,     \*   the descriptor it has copied,
    c_w,        \*   and its copy of write_seq
    owed,       \* history: descriptors enqueue reported as accepted and the
                \* consumer has not taken
    delivered   \* *out_descriptor of the latest dequeue

ring == <<slots, write_seq, read_seq>>
prodVars == <<p_pc, p_item, p_w, p_r>>
consVars == <<c_pc, c_item, c_w, delivered>>
ringVars == <<ring, pending, doorbell, prodVars, consVars, owed>>

Seqs == 0 .. SeqMod - 1
Slots == 0 .. Depth - 1

\* Mutant: the sequence number does not wrap.
IncNoWrap(s) == s + 1

Inc(s) == (s + 1) % SeqMod

\* ring_used: the difference of two uint32_t sequence numbers.
Used(w, r) == IF w >= r THEN w - r ELSE w + SeqMod - r

Init ==
    /\ slots = [i \in Slots |-> NoItem]
    /\ write_seq = 0
    /\ read_seq = 0
    /\ pending = FALSE
    /\ doorbell = FALSE
    /\ p_pc = [p \in Producers |-> "idle"]
    /\ p_item = [p \in Producers |-> NoItem]
    /\ p_w = [p \in Producers |-> 0]
    /\ p_r = [p \in Producers |-> 0]
    /\ c_pc = "idle"
    /\ c_item = NoItem
    /\ c_w = 0
    /\ owed = {}
    /\ delivered = NoItem

-----------------------------------------------------------------------------
(* Producer: enqueue. *)

\* A descriptor is enqueued by the one thread that owns its frame: no other
\* call holds it and the consumer has given back its earlier use.
Free(d) == d \notin owed /\ \A p \in Producers : p_item[p] /= d

ProducerAt(p, from, to) ==
    /\ p_pc[p] = from
    /\ p_pc' = [p_pc EXCEPT ![p] = to]

Enqueue(p, d) ==
    /\ ProducerAt(p, "idle", "load")
    /\ Free(d)
    /\ p_item' = [p_item EXCEPT ![p] = d]
    /\ UNCHANGED <<ring, pending, doorbell, p_w, p_r, consVars, owed>>

\* A full ring drops the newest descriptor.
RejectFull(p) ==
    /\ Used(write_seq, read_seq) >= Depth
    /\ ProducerAt(p, "load", "idle")
    /\ p_item' = [p_item EXCEPT ![p] = NoItem]
    /\ UNCHANGED <<ring, pending, doorbell, p_w, p_r, consVars, owed>>

\* Mutant: a full ring is taken for one with a slot left.
LoadSeqsOffByOne(p) ==
    /\ Used(write_seq, read_seq) <= Depth
    /\ ProducerAt(p, "load", "slot")
    /\ p_w' = [p_w EXCEPT ![p] = write_seq]
    /\ p_r' = [p_r EXCEPT ![p] = read_seq]
    /\ UNCHANGED <<ring, pending, doorbell, p_item, consVars, owed>>

LoadSeqs(p) ==
    /\ Used(write_seq, read_seq) < Depth
    /\ ProducerAt(p, "load", "slot")
    /\ p_w' = [p_w EXCEPT ![p] = write_seq]
    /\ p_r' = [p_r EXCEPT ![p] = read_seq]
    /\ UNCHANGED <<ring, pending, doorbell, p_item, consVars, owed>>

WriteSlot(p) ==
    /\ ProducerAt(p, "slot", "publish")
    /\ slots' = [slots EXCEPT ![p_w[p] % Depth] = p_item[p]]
    /\ UNCHANGED <<write_seq, read_seq, pending, doorbell, p_item, p_w, p_r,
                   consVars, owed>>

\* From here on the call reports success: the descriptor is owed.
Publish(p) ==
    /\ ProducerAt(p, "publish", "pending")
    /\ write_seq' = Inc(p_w[p])
    /\ owed' = owed \cup {p_item[p]}
    /\ p_item' = [p_item EXCEPT ![p] = NoItem]
    /\ UNCHANGED <<slots, read_seq, pending, doorbell, p_w, p_r, consVars>>

WasEmpty(p) == p_w[p] = p_r[p]

\* Mutant: the bit is set only together with a doorbell.
SetPendingWhenEmpty(p) ==
    /\ ProducerAt(p, "pending", IF WasEmpty(p) THEN "notify" ELSE "idle")
    /\ pending' = (pending \/ WasEmpty(p))
    /\ UNCHANGED <<ring, doorbell, p_item, p_w, p_r, consVars, owed>>

\* Set the pending bit; only an enqueue that saw an empty ring notifies.
SetPending(p) ==
    /\ ProducerAt(p, "pending", IF WasEmpty(p) THEN "notify" ELSE "idle")
    /\ pending' = TRUE
    /\ UNCHANGED <<ring, doorbell, p_item, p_w, p_r, consVars, owed>>

\* The mailbox may fail to deliver; enqueue then still reports success.
Notify(p) ==
    /\ ProducerAt(p, "notify", "idle")
    /\ doorbell' \in {doorbell, TRUE}
    /\ UNCHANGED <<ring, pending, p_item, p_w, p_r, consVars, owed>>

-----------------------------------------------------------------------------
(* Consumer: a drain loop of dequeue calls. *)

\* A doorbell wakes the consumer, which drains the rings whose bit is set.
DoorbellWake ==
    /\ c_pc = "idle"
    /\ doorbell
    /\ doorbell' = FALSE
    /\ c_pc' = IF pending THEN "load" ELSE "idle"
    /\ UNCHANGED <<ring, pending, prodVars, c_item, c_w, delivered, owed>>

\* The periodic drain.  The RTOS scans every RX ring and Linux the reclaim ring
\* whatever the bit says; a TX ring is visited only when its bit is set.
PeriodicWake ==
    /\ c_pc = "idle"
    /\ c_pc' = "load"
    /\ UNCHANGED <<ring, pending, doorbell, prodVars, c_item, c_w, delivered,
                   owed>>

\* Mutant: the pending bit is trusted, an empty ring not looked for.
LoadWriteSeqUnchecked ==
    /\ c_pc = "load"
    /\ c_pc' = "copy"
    /\ c_w' = write_seq
    /\ UNCHANGED <<ring, pending, doorbell, prodVars, c_item, delivered, owed>>

\* Read write_seq: leave the loop when the ring is empty.
LoadWriteSeq ==
    /\ c_pc = "load"
    /\ c_pc' = IF write_seq = read_seq THEN "idle" ELSE "copy"
    /\ c_w' = write_seq
    /\ UNCHANGED <<ring, pending, doorbell, prodVars, c_item, delivered, owed>>

\* Mutant: the newest descriptor is copied instead of the oldest.
CopyNewestSlot ==
    /\ c_pc = "copy"
    /\ c_pc' = "advance"
    /\ c_item' = slots[(c_w + SeqMod - 1) % Depth]
    /\ UNCHANGED <<ring, pending, doorbell, prodVars, c_w, delivered, owed>>

CopySlot ==
    /\ c_pc = "copy"
    /\ c_pc' = "advance"
    /\ c_item' = slots[read_seq % Depth]
    /\ UNCHANGED <<ring, pending, doorbell, prodVars, c_w, delivered, owed>>

\* After each descriptor the loop goes on or has spent its budget.
LoopOrLeave == {"load", "idle"}

\* Mutant: one descriptor is taken and all that were seen are consumed.
AdvanceToEnd ==
    /\ c_pc = "advance"
    /\ read_seq' = c_w
    /\ delivered' = c_item
    /\ owed' = owed \ {c_item}
    /\ c_item' = NoItem
    /\ c_pc' = "check"
    /\ UNCHANGED <<slots, write_seq, pending, doorbell, prodVars, c_w>>

\* consume_descriptor: advance, and look at the pending bit only when this was
\* the last descriptor the call knows of.
Advance ==
    /\ c_pc = "advance"
    /\ read_seq' = Inc(read_seq)
    /\ delivered' = c_item
    /\ owed' = owed \ {c_item}
    /\ c_item' = NoItem
    /\ c_pc' \in IF Inc(read_seq) = c_w THEN {"check"} ELSE LoopOrLeave
    /\ UNCHANGED <<slots, write_seq, pending, doorbell, prodVars, c_w>>

\* Still empty?  Otherwise the bit stays.
CheckEmpty ==
    /\ c_pc = "check"
    /\ c_pc' \in IF write_seq = read_seq THEN {"clear"} ELSE LoopOrLeave
    /\ UNCHANGED <<ring, pending, doorbell, prodVars, c_item, c_w, delivered,
                   owed>>

ClearPending ==
    /\ c_pc = "clear"
    /\ c_pc' = "recheck"
    /\ pending' = FALSE
    /\ UNCHANGED <<ring, doorbell, prodVars, c_item, c_w, delivered, owed>>

\* Mutant: the bit is cleared for good.
RecheckNever ==
    /\ c_pc = "recheck"
    /\ c_pc' \in LoopOrLeave
    /\ UNCHANGED <<ring, pending, doorbell, prodVars, c_item, c_w, delivered,
                   owed>>

\* A descriptor published in the window of the clear gets its bit back.
Recheck ==
    /\ c_pc = "recheck"
    /\ c_pc' \in IF write_seq /= read_seq THEN {"restore"} ELSE LoopOrLeave
    /\ UNCHANGED <<ring, pending, doorbell, prodVars, c_item, c_w, delivered,
                   owed>>

RestorePending ==
    /\ c_pc = "restore"
    /\ c_pc' \in LoopOrLeave
    /\ pending' = TRUE
    /\ UNCHANGED <<ring, doorbell, prodVars, c_item, c_w, delivered, owed>>

-----------------------------------------------------------------------------
\* The rest of an enqueue call once it has begun.
FinishEnqueue(p) ==
    \/ RejectFull(p) \/ LoadSeqs(p) \/ WriteSlot(p) \/ Publish(p)
    \/ SetPending(p) \/ Notify(p)

ConsumerStep ==
    \/ LoadWriteSeq \/ CopySlot \/ Advance
    \/ CheckEmpty \/ ClearPending \/ Recheck \/ RestorePending

Next ==
    \/ \E p \in Producers : FinishEnqueue(p) \/ \E d \in Items : Enqueue(p, d)
    \/ DoorbellWake \/ PeriodicWake
    \/ ConsumerStep

\* A call that has begun is finished, and the periodic drain keeps coming, for a
\* TX ring while its bit is set.  Nothing makes a producer start a call and
\* nothing makes a doorbell arrive.
Fairness ==
    /\ \A p \in Producers : WF_ringVars(FinishEnqueue(p))
    /\ WF_ringVars(ConsumerStep)
    /\ WF_ringVars(pending /\ PeriodicWake)

Spec == Init /\ [][Next]_ringVars
LiveSpec == Spec /\ Fairness

-----------------------------------------------------------------------------
(* Properties. *)

ProdPC == {"idle", "load", "slot", "publish", "pending", "notify"}
ConsPC == {"idle", "load", "copy", "advance", "check", "clear", "recheck",
           "restore"}

\* The types of the ring, of the locals and of the histories.
TypeOK ==
    /\ slots \in [Slots -> Items \cup {NoItem}]
    /\ write_seq \in Seqs
    /\ read_seq \in Seqs
    /\ pending \in BOOLEAN
    /\ doorbell \in BOOLEAN
    /\ p_pc \in [Producers -> ProdPC]
    /\ p_item \in [Producers -> Items \cup {NoItem}]
    /\ p_w \in [Producers -> Seqs]
    /\ p_r \in [Producers -> Seqs]
    /\ c_pc \in ConsPC
    /\ c_item \in Items \cup {NoItem}
    /\ c_w \in Seqs
    /\ owed \subseteq Items
    /\ delivered \in Items \cup {NoItem}

\* The ring never holds more than Depth descriptors, across the wrap of the
\* sequence numbers and although the producer tests for a full ring with a
\* read_seq that the consumer may have moved since.
NeverOverfull == Used(write_seq, read_seq) <= Depth

\* A non-empty ring has its pending bit set, or somebody is about to set it:
\* the producer that has just published, or the consumer that has cleared the
\* bit and has still to look at write_seq again.  The egress manager wakes a
\* worker only for a ring whose bit is set, so a descriptor without its bit
\* would stay behind until the next enqueue.
PendingCoversWork ==
    write_seq /= read_seq =>
        \/ pending
        \/ \E p \in Producers : p_pc[p] = "pending"
        \/ c_pc \in {"recheck", "restore"}

\* The inductive invariants.  An enqueue holds a descriptor until it publishes
\* it; with one producer its copy of write_seq is current and the slot it is
\* about to publish is free; a consumer that copies has something to copy.
HoldsItem ==
    \A p \in Producers :
        p_pc[p] \in {"load", "slot", "publish"} => p_item[p] \in Items

WriterIsCurrent ==
    \A p \in Producers :
        p_pc[p] \in {"slot", "publish"} =>
            /\ p_w[p] = write_seq
            /\ Used(write_seq, read_seq) < Depth

ReaderHasWork == c_pc \in {"copy", "advance"} => write_seq /= read_seq

RingInv ==
    /\ TypeOK
    /\ NeverOverfull
    /\ PendingCoversWork
    /\ HoldsItem
    /\ WriterIsCurrent
    /\ ReaderHasWork

\* The descriptors in the ring, oldest first.
Queue == [i \in 1 .. Used(write_seq, read_seq) |->
             slots[((read_seq + i - 1) % SeqMod) % Depth]]

\* Every descriptor whose enqueue succeeded and that the consumer has not
\* taken is in the ring, once: nothing overwrites it, nothing repeats it.
NoDescriptorLost ==
    /\ owed = {Queue[i] : i \in DOMAIN Queue}
    /\ Cardinality(owed) = Len(Queue)

\* The inductive invariant of the contents: no descriptor is in the ring twice
\* or in the ring and in an enqueue; what is about to be published is in its
\* slot, and what is about to be handed out is the oldest.
NothingTwice == \A i, j \in DOMAIN Queue : Queue[i] = Queue[j] => i = j

ContentsInv ==
    /\ owed = {Queue[i] : i \in DOMAIN Queue}
    /\ NothingTwice
    /\ \A p \in Producers : p_item[p] \notin owed
    /\ \A p \in Producers :
          p_pc[p] = "publish" => slots[p_w[p] % Depth] = p_item[p]
    /\ c_pc = "advance" => c_item = slots[read_seq % Depth]

\* The ring is a bounded FIFO queue: each publication appends one descriptor
\* and each consumption hands out the oldest one.
Fifo == INSTANCE BoundedFifo
            WITH queue <- Queue,
                 last <- IF delivered = NoItem THEN {} ELSE {delivered}

ImplementsFifo == Fifo!FifoSpec

\* Every accepted descriptor is taken: a lost or suppressed doorbell only
\* delays it to the next periodic drain.
EventuallyTaken == \A d \in Items : d \in owed ~> d \notin owed

\* An enqueue that takes the ring from empty to non-empty is one that notifies
\* the other core.  The design says so and the code does not do it: no run has it.
DoorbellOnFirst ==
    [][\A p \in Producers :
          Publish(p) /\ write_seq = read_seq => WasEmpty(p)]_ringVars
=============================================================================
