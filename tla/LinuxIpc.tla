------------------------------ MODULE LinuxIpc ------------------------------
(***************************************************************************)
(* The Linux side of the shared memory IPC (linux_shm_ipc.c), with the       *)
(* adapter threads that fill frames and the egress threads that send them.   *)
(*                                                                          *)
(* A call of the IPC library is one step.  The rings are queues here: that   *)
(* they behave as queues is what ShmRing shows.  The module has no           *)
(* specification of its own: FramePool completes it with an abstract RTOS    *)
(* and Gateway with the tasks of the firmware.                              *)
(***************************************************************************)
EXTENDS Region

CONSTANTS
    Quota,         \* linux_shm_ipc_set_interface_quota, per interface
    NoFrame,       \* the thread holds no frame
    NoInterface    \* the interface of a frame that has none: the memset to 0,
                   \* which no test takes for an interface

ASSUME LinuxAssumption ==
    /\ Quota \in [Interfaces -> Nat]
    /\ NoFrame \notin Frames
    /\ NoInterface \notin Interfaces

VARIABLES
    bitmap,       \* ipc->allocation_bitmap, as the set of frames in use
    fstate,       \* ipc->frames[f].state
    fsource,      \* ipc->frames[f].source_interface
    ftarget,      \* ipc->frames[f].target_interface
    used,         \* ipc->stats.frame_pool.used
    qused,        \* ipc->stats.interface_quota[i].used
    filling,      \* the frame adapter i has allocated and not committed
    sending       \* the frame egress worker i has dequeued and not released

pool == <<bitmap, fstate, fsource, ftarget, used, qused>>
linuxVars == <<pool, filling, sending>>

FrameStates == {"free", "allocated", "rx_queued", "tx_ready"}

LinuxTypeOK ==
    /\ bitmap \subseteq Frames
    /\ fstate \in [Frames -> FrameStates]
    /\ fsource \in [Frames -> Interfaces \cup {NoInterface}]
    /\ ftarget \in [Frames -> Interfaces \cup {NoInterface}]
    /\ used \in Nat
    /\ qused \in [Interfaces -> Nat]
    /\ filling \in [Interfaces -> Frames \cup {NoFrame}]
    /\ sending \in [Interfaces -> Frames \cup {NoFrame}]

\* What reset_local_state leaves, and threads that have just started.
AllFree == [f \in Frames |-> "free"]
NoMetadata == [f \in Frames |-> NoInterface]
NoneUsed == [i \in Interfaces |-> 0]
IdleThreads == [i \in Interfaces |-> NoFrame]

\* main.c with format_on_start: linux_shm_ipc_format_region.
LinuxInit ==
    /\ bitmap = {} /\ fstate = AllFree
    /\ fsource = NoMetadata /\ ftarget = NoMetadata
    /\ used = 0 /\ qused = NoneUsed
    /\ filling = IdleThreads /\ sending = IdleThreads
    /\ rx = EmptyRings /\ tx = EmptyRings /\ reclaim = <<>>
    /\ linux_epoch \in Epochs
    /\ region = "ready"

-----------------------------------------------------------------------------
(* The frame pool. *)

Decrement(n) == IF n > 0 THEN n - 1 ELSE 0

\* What linux_shm_frame_release lets its callers release: not a frame that the
\* RX ring or the RTOS may still refer to.
Releasable(f) == f \in bitmap /\ fstate[f] \in {"allocated", "tx_ready"}

\* Mutant: the quota of the interface is not given back.
FreeFrameKeepsQuota(f) ==
    /\ bitmap' = bitmap \ {f}
    /\ fstate' = [fstate EXCEPT ![f] = "free"]
    /\ fsource' = [fsource EXCEPT ![f] = NoInterface]
    /\ ftarget' = [ftarget EXCEPT ![f] = NoInterface]
    /\ used' = Decrement(used)
    /\ UNCHANGED qused

FreeFrame(f) ==
    /\ bitmap' = bitmap \ {f}
    /\ fstate' = [fstate EXCEPT ![f] = "free"]
    /\ fsource' = [fsource EXCEPT ![f] = NoInterface]
    /\ ftarget' = [ftarget EXCEPT ![f] = NoInterface]
    /\ used' = Decrement(used)
    /\ qused' = [qused EXCEPT ![fsource[f]] = Decrement(@)]

\* A refused release returns an error that every caller ignores.
Release(f) == IF Releasable(f) THEN FreeFrame(f) ELSE UNCHANGED pool

-----------------------------------------------------------------------------
(* Adapters: xxx_adapter_submit_to_ipc. *)

\* Mutant: one frame more than the quota.
AllocOverQuota(i) ==
    /\ filling[i] = NoFrame
    /\ qused[i] <= Quota[i]
    /\ \E f \in Frames \ bitmap :
          /\ \A g \in Frames \ bitmap : f <= g
          /\ bitmap' = bitmap \cup {f}
          /\ fstate' = [fstate EXCEPT ![f] = "allocated"]
          /\ fsource' = [fsource EXCEPT ![f] = i]
          /\ ftarget' = [ftarget EXCEPT ![f] = NoInterface]
          /\ filling' = [filling EXCEPT ![i] = f]
    /\ used' = used + 1
    /\ qused' = [qused EXCEPT ![i] = @ + 1]
    /\ UNCHANGED <<sending, rings, header>>

\* linux_shm_frame_alloc: within the quota, the lowest free block.
Alloc(i) ==
    /\ filling[i] = NoFrame
    /\ qused[i] < Quota[i]
    /\ \E f \in Frames \ bitmap :
          /\ \A g \in Frames \ bitmap : f <= g
          /\ bitmap' = bitmap \cup {f}
          /\ fstate' = [fstate EXCEPT ![f] = "allocated"]
          /\ fsource' = [fsource EXCEPT ![f] = i]
          /\ ftarget' = [ftarget EXCEPT ![f] = NoInterface]
          /\ filling' = [filling EXCEPT ![i] = f]
    /\ used' = used + 1
    /\ qused' = [qused EXCEPT ![i] = @ + 1]
    /\ UNCHANGED <<sending, rings, header>>

\* The adapter finds the message longer than a block.
Oversize(i) ==
    /\ filling[i] /= NoFrame
    /\ Release(filling[i])
    /\ filling' = [filling EXCEPT ![i] = NoFrame]
    /\ UNCHANGED <<sending, rings, header>>

\* Only a frame the same interface has just allocated may be published.
Committable(f, i) ==
    f \in bitmap /\ fstate[f] = "allocated" /\ fsource[f] = i

\* Mutant: the descriptor is written from the metadata before the target is in.
CommitTooEarly(i, t) ==
    /\ filling[i] /= NoFrame
    /\ Committable(filling[i], i)
    /\ Len(rx[i]) < RingDepth
    /\ rx' = [rx EXCEPT ![i] = Append(@,
                [frame |-> filling[i], source |-> i,
                 target |-> ftarget[filling[i]], epoch |-> linux_epoch])]
    /\ fstate' = [fstate EXCEPT ![filling[i]] = "rx_queued"]
    /\ ftarget' = [ftarget EXCEPT ![filling[i]] = t]
    /\ filling' = [filling EXCEPT ![i] = NoFrame]
    /\ UNCHANGED <<bitmap, fsource, used, qused, sending, tx, reclaim,
                   header>>

\* Mutant: the target is in the descriptor only.
CommitWithoutMetadata(i, t) ==
    /\ filling[i] /= NoFrame
    /\ Committable(filling[i], i)
    /\ Len(rx[i]) < RingDepth
    /\ rx' = [rx EXCEPT ![i] = Append(@,
                [frame |-> filling[i], source |-> i, target |-> t,
                 epoch |-> linux_epoch])]
    /\ fstate' = [fstate EXCEPT ![filling[i]] = "rx_queued"]
    /\ filling' = [filling EXCEPT ![i] = NoFrame]
    /\ UNCHANGED <<bitmap, fsource, ftarget, used, qused, sending, tx, reclaim,
                   header>>

\* linux_shm_frame_commit_rx: t is the adapter's guess at the route.
Commit(i, t) ==
    /\ filling[i] /= NoFrame
    /\ Committable(filling[i], i)
    /\ Len(rx[i]) < RingDepth
    /\ rx' = [rx EXCEPT ![i] = Append(@,
                [frame |-> filling[i], source |-> i, target |-> t,
                 epoch |-> linux_epoch])]
    /\ fstate' = [fstate EXCEPT ![filling[i]] = "rx_queued"]
    /\ ftarget' = [ftarget EXCEPT ![filling[i]] = t]
    /\ filling' = [filling EXCEPT ![i] = NoFrame]
    /\ UNCHANGED <<bitmap, fsource, used, qused, sending, tx, reclaim,
                   header>>

\* Mutant: the adapter forgets the frame it could not publish.
CommitFailsLeaks(i) ==
    /\ filling[i] /= NoFrame
    /\ ~(Committable(filling[i], i) /\ Len(rx[i]) < RingDepth)
    /\ filling' = [filling EXCEPT ![i] = NoFrame]
    /\ UNCHANGED <<pool, sending, rings, header>>

\* A full RX ring: the adapter releases the frame it could not publish.
CommitFails(i) ==
    /\ filling[i] /= NoFrame
    /\ ~(Committable(filling[i], i) /\ Len(rx[i]) < RingDepth)
    /\ Release(filling[i])
    /\ filling' = [filling EXCEPT ![i] = NoFrame]
    /\ UNCHANGED <<sending, rings, header>>

-----------------------------------------------------------------------------
(* Egress workers and the reclaim drain. *)

\* A TX descriptor may only name a frame the RTOS was given, and must agree
\* with the local metadata about where it came from.
TxAcceptable(d) ==
    /\ d.frame \in bitmap
    /\ fstate[d.frame] = "rx_queued"
    /\ fsource[d.frame] = d.source

\* Mutant: the frame is not marked as Linux's own again.
TakeTxStillQueued(i) ==
    /\ sending[i] = NoFrame
    /\ tx[i] /= <<>>
    /\ TxAcceptable(Head(tx[i]))
    /\ sending' = [sending EXCEPT ![i] = Head(tx[i]).frame]
    /\ tx' = [tx EXCEPT ![i] = Tail(@)]
    /\ UNCHANGED <<pool, filling, rx, reclaim, header>>

TakeTx(i) ==
    /\ sending[i] = NoFrame
    /\ tx[i] /= <<>>
    /\ TxAcceptable(Head(tx[i]))
    /\ fstate' = [fstate EXCEPT ![Head(tx[i]).frame] = "tx_ready"]
    /\ sending' = [sending EXCEPT ![i] = Head(tx[i]).frame]
    /\ tx' = [tx EXCEPT ![i] = Tail(@)]
    /\ UNCHANGED <<bitmap, fsource, ftarget, used, qused, filling, rx, reclaim,
                   header>>

\* Consumed as a format error; the frame it names is left alone.
RejectTx(i) ==
    /\ sending[i] = NoFrame
    /\ tx[i] /= <<>>
    /\ ~TxAcceptable(Head(tx[i]))
    /\ tx' = [tx EXCEPT ![i] = Tail(@)]
    /\ UNCHANGED <<pool, filling, sending, rx, reclaim, header>>

\* Sent, failed or invalid: the worker releases the frame whatever came of it.
EgressRelease(i) ==
    /\ sending[i] /= NoFrame
    /\ Release(sending[i])
    /\ sending' = [sending EXCEPT ![i] = NoFrame]
    /\ UNCHANGED <<filling, rings, header>>

\* linux_shm_dequeue_reclaim_descriptor: neither the epoch of the descriptor
\* nor who last used the frame is looked at.
ReclaimAcceptable(d) ==
    /\ TxAcceptable(d)
    /\ ftarget[d.frame] = d.target

TakeReclaim ==
    /\ reclaim /= <<>>
    /\ ReclaimAcceptable(Head(reclaim))
    /\ FreeFrame(Head(reclaim).frame)
    /\ reclaim' = Tail(reclaim)
    /\ UNCHANGED <<filling, sending, rx, tx, header>>

RejectReclaim ==
    /\ reclaim /= <<>>
    /\ ~ReclaimAcceptable(Head(reclaim))
    /\ reclaim' = Tail(reclaim)
    /\ UNCHANGED <<pool, filling, sending, rx, tx, header>>

\* The rest of a submit, of an egress drain and of the reclaim drain.
FinishSubmit(i) == Oversize(i) \/ CommitFails(i) \/ \E t \in Targets : Commit(i, t)
Egress(i) == TakeTx(i) \/ RejectTx(i) \/ EgressRelease(i)
DrainReclaim == TakeReclaim \/ RejectReclaim

LinuxNext ==
    \/ \E i \in Interfaces : Alloc(i) \/ FinishSubmit(i) \/ Egress(i)
    \/ DrainReclaim
-----------------------------------------------------------------------------
(* Properties of the pool itself. *)

Owned(i) == {f \in bitmap : fsource[f] = i}

\* The counters the status page and the quota test read are those of the
\* bitmap, and no interface holds more frames than its quota: one that hogs the
\* pool cannot take the blocks of the others.
CountersExact ==
    /\ used = Cardinality(bitmap)
    /\ \A i \in Interfaces : qused[i] = Cardinality(Owned(i))

WithinQuota == \A i \in Interfaces : Cardinality(Owned(i)) <= Quota[i]

\* The release API is never asked for a frame it refuses to release, whatever
\* the RTOS writes into the rings: a thread that holds a frame holds it alone,
\* in a state the API accepts.
NeverRefused ==
    \A i \in Interfaces :
        /\ filling[i] /= NoFrame => Releasable(filling[i])
        /\ sending[i] /= NoFrame => Releasable(sending[i])

\* The inductive invariant of the Linux side.
FilledByOwner ==
    \A i \in Interfaces : filling[i] /= NoFrame => Committable(filling[i], i)

SentByOne ==
    \A i \in Interfaces : sending[i] /= NoFrame =>
        /\ sending[i] \in bitmap
        /\ fstate[sending[i]] = "tx_ready"
        /\ \A j \in Interfaces : sending[j] = sending[i] => j = i

SourcesKnown == \A f \in bitmap : fsource[f] \in Interfaces

LinuxInv ==
    /\ LinuxTypeOK
    /\ CountersExact
    /\ WithinQuota
    /\ SourcesKnown
    /\ FilledByOwner
    /\ SentByOne
=============================================================================
