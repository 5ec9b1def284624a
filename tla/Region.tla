------------------------------- MODULE Region -------------------------------
(***************************************************************************)
(* The shared memory region (put_shm_region_t) as both sides see it: the     *)
(* rings, as queues of descriptors, and the header.                         *)
(***************************************************************************)
EXTENDS Naturals, Sequences, FiniteSets

CONSTANTS
    FrameCount,    \* PUT_SHM_FRAME_POOL_BLOCK_COUNT
    Interfaces,    \* put_shm_interface_t
    Targets,       \* the interfaces that the frames are addressed to
    RingDepth,     \* PUT_SHM_DESCRIPTOR_RING_DEPTH
    ReclaimDepth,  \* PUT_SHM_RECLAIM_RING_DEPTH
    Epochs         \* values of the Linux boot epoch

Frames == 0 .. FrameCount - 1

ASSUME RegionAssumption ==
    /\ FrameCount \in Nat
    /\ RingDepth \in Nat \ {0}
    /\ ReclaimDepth \in Nat \ {0}
    /\ IsFiniteSet(Interfaces)
    /\ Interfaces /= {}
    /\ Targets \subseteq Interfaces

VARIABLES
    rx, tx,        \* region->rx_rings[i], region->tx_rings[i]
    reclaim,       \* region->reclaim_ring
    linux_epoch,   \* region->header.linux_epoch
    region         \* how far Linux has come with formatting the region

rings == <<rx, tx, reclaim>>
header == <<linux_epoch, region>>

\* What put_shm_descriptor_t and put_shm_reclaim_descriptor_t have in common.
Descriptors == [frame : Frames, source : Interfaces, target : Interfaces,
                epoch : Epochs]

RegionTypeOK ==
    /\ rx \in [Interfaces -> Seq(Descriptors)]
    /\ tx \in [Interfaces -> Seq(Descriptors)]
    /\ reclaim \in Seq(Descriptors)
    /\ linux_epoch \in Epochs
    /\ region \in {"zeroed", "header", "ready"}

EmptyRings == [i \in Interfaces |-> <<>>]

\* The frames that the descriptors of a ring or of a list refer to.
FramesOf(r) == {r[k].frame : k \in DOMAIN r}
NoneTwice(r) == \A k, l \in DOMAIN r : r[k].frame = r[l].frame => k = l
=============================================================================
