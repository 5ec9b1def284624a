------------------------------ MODULE Gateway ------------------------------
(***************************************************************************)
(* The two cores together: the frame pool and the threads of the Linux       *)
(* process (LinuxIpc), the tasks of the firmware (RtosTasks), and the rings  *)
(* and the header they share.  The Linux process may die and be started      *)
(* again; it then formats the region anew, field by field, under the eyes of *)
(* firmware that goes on running.                                           *)
(***************************************************************************)
EXTENDS LinuxIpc, RtosTasks

CONSTANT
    Ticks   \* how far the clock may have moved when Linux starts again

ASSUME GatewayAssumption ==
    /\ Epochs \subseteq Nat
    /\ Ticks \subseteq Nat

vars == <<linuxVars, rings, header, rtosVars>>

Init == LinuxInit /\ RtosInit

\* The process is gone, with all its threads held; the new one starts with
\* linux_shm_ipc_format_region, which first clears the region.
FormatBegin ==
    /\ region = "ready"
    /\ \E t \in Ticks : linux_epoch + t \in Epochs
    /\ bitmap' = {} /\ fstate' = AllFree
    /\ fsource' = NoMetadata /\ ftarget' = NoMetadata
    /\ used' = 0 /\ qused' = NoneUsed
    /\ filling' = IdleThreads /\ sending' = IdleThreads
    /\ rx' = EmptyRings /\ tx' = EmptyRings /\ reclaim' = <<>>
    /\ region' = "zeroed"
    /\ UNCHANGED <<linux_epoch, rtosVars>>

\* The header comes before the rings, the epoch (make_linux_epoch, in seconds)
\* with it.
FormatHeader ==
    /\ region = "zeroed"
    /\ region' = "header"
    /\ \E t \in Ticks : linux_epoch' = linux_epoch + t /\ linux_epoch' \in Epochs
    /\ UNCHANGED <<linuxVars, rings, rtosVars>>

FormatRings ==
    /\ region = "header"
    /\ region' = "ready"
    /\ UNCHANGED <<linuxVars, rings, linux_epoch, rtosVars>>

Linux == region = "ready" /\ LinuxNext /\ UNCHANGED rtosVars
Rtos == RtosNext /\ UNCHANGED <<linuxVars, header>>

Next == Linux \/ Rtos \/ FormatBegin \/ FormatHeader \/ FormatRings

Spec == Init /\ [][Next]_vars

LinuxStep(A) == A /\ region = "ready" /\ UNCHANGED rtosVars
RtosStep(A) == A /\ UNCHANGED <<linuxVars, header>>

\* The threads of Linux run; the firmware runs, with the periodic tick again
\* and again; the budgets of its loops bound them; its queue (PriorityQueue)
\* passes over no item for ever.
Fairness ==
    /\ \A i \in Interfaces :
          /\ WF_vars(LinuxStep(FinishSubmit(i)))
          /\ WF_vars(LinuxStep(Egress(i)))
    /\ WF_vars(LinuxStep(DrainReclaim))
    /\ WF_vars(FormatHeader \/ FormatRings)
    /\ WF_vars(RtosStep(Start \/ Run \/ PickNext))
    /\ SF_vars(RtosStep(Start /\ periodic'))
    /\ SF_vars(RtosStep(RxNextRing))
    /\ SF_vars(RtosStep(QueueLeave))
    /\ \A f \in Frames : SF_vars(RtosStep(\E x \in queue : x.frame = f /\ Pick(x)))

LiveSpec == Spec /\ Fairness

-----------------------------------------------------------------------------
TypeOK == RegionTypeOK /\ LinuxTypeOK /\ RtosTypeOK

-----------------------------------------------------------------------------
(* Restarts of Linux. *)

\* Only descriptors of the running boot are forwarded, and only those have
\* their frames reclaimed.  The code does neither.
NoOldForwarded ==
    \A i \in Interfaces : \A k \in DOMAIN tx[i] : tx[i][k].epoch = linux_epoch
NoOldReclaimed == [][TakeReclaim => Head(reclaim).epoch = linux_epoch]_vars

\* The firmware finds its way back to work, with the epoch of the last boot.
EventuallyNormal ==
    <>[](region = "ready" /\ heartbeat = "normal") => []<>(state = "normal")
EventuallyAttached == <>[](router_epoch = linux_epoch /\ last_epoch = linux_epoch)
EventuallyBack == EventuallyNormal /\ EventuallyAttached

-----------------------------------------------------------------------------
\* The tasks do what FramePool expects of the RTOS.
Pool == INSTANCE FramePool WITH held <- {refs[f] : f \in InUse}
ImplementsPool == Pool!Spec

\* What is frozen is written in the end.
EventuallyThawed == frozen /= <<>> ~> frozen = <<>>

\* A descriptor in an RX ring is taken from it in the end, whatever the frames of
\* the other rings are.  The code does not see to it: no run has it.
Waiting(f, i) == \E k \in DOMAIN rx[i] : rx[i][k].frame = f
NoRingStarves ==
    \A i \in Interfaces, f \in Frames : Waiting(f, i) ~> ~Waiting(f, i)

\* No frame is lost: an allocated block is free again in the end, unless the
\* reclaim ring fills up again and again (then the scheduler may never come to
\* an item of the queue).
EventuallyReleased ==
    <>[](frozen = <<>>) => \A f \in Frames : f \in bitmap ~> f \notin bitmap
=============================================================================
