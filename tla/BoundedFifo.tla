---------------------------- MODULE BoundedFifo ----------------------------
(***************************************************************************)
(* What one descriptor ring of the shared region promises to the two cores *)
(* that use it: a FIFO queue of at most Depth descriptors.  A published     *)
(* descriptor is handed to the consumer once, in publication order, and a   *)
(* full queue refuses the newest descriptor instead of losing an old one.   *)
(* ShmRing implements this specification step by step.                      *)
(***************************************************************************)
EXTENDS Naturals, Sequences

CONSTANTS
    Items,  \* descriptors
    Depth   \* capacity of the queue

VARIABLES
    queue,  \* published descriptors the consumer has not taken yet
    last    \* descriptor handed out by the latest Get, initially none

fifoVars == <<queue, last>>

FifoInit ==
    /\ queue = <<>>
    /\ last = {}

\* A producer publishes a descriptor.
Put ==
    /\ Len(queue) < Depth
    /\ \E d \in Items : queue' = Append(queue, d)
    /\ UNCHANGED last

\* The consumer takes the oldest published descriptor.
Get ==
    /\ queue /= <<>>
    /\ last' = {Head(queue)}
    /\ queue' = Tail(queue)

FifoNext == Put \/ Get

FifoSpec == FifoInit /\ [][FifoNext]_fifoVars /\ WF_fifoVars(Get)
=============================================================================
