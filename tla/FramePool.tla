----------------------------- MODULE FramePool -----------------------------
(***************************************************************************)
(* What the two sides promise each other about frames: the Linux side, as    *)
(* LinuxIpc has it, with an RTOS reduced to its duty.  The RTOS holds each   *)
(* descriptor it has taken until it hands the frame back, once, either to a  *)
(* TX ring or to the reclaim ring.  Gateway shows that the tasks of the      *)
(* firmware do that.                                                        *)
(***************************************************************************)
EXTENDS LinuxIpc

VARIABLE held   \* descriptors taken from an RX ring and not handed back

vars == <<linuxVars, rings, header, held>>

Init == LinuxInit /\ held = {}

RtosTake(i) ==
    /\ rx[i] /= <<>>
    /\ held' = held \cup {Head(rx[i])}
    /\ rx' = [rx EXCEPT ![i] = Tail(@)]
    /\ UNCHANGED <<pool, filling, sending, tx, reclaim, header>>

\* The route decides the target; the source stays.
RtosForward(d, t) ==
    /\ d \in held
    /\ Len(tx[t]) < RingDepth
    /\ tx' = [tx EXCEPT ![t] = Append(@, [d EXCEPT !.target = t])]
    /\ held' = held \ {d}
    /\ UNCHANGED <<pool, filling, sending, rx, reclaim, header>>

\* A reclaim repeats the descriptor as Linux wrote it.
RtosReclaim(d) ==
    /\ d \in held
    /\ Len(reclaim) < ReclaimDepth
    /\ reclaim' = Append(reclaim, d)
    /\ held' = held \ {d}
    /\ UNCHANGED <<pool, filling, sending, rx, tx, header>>

RtosNext ==
    \/ \E i \in Interfaces : RtosTake(i)
    \/ \E d \in held : RtosReclaim(d) \/ \E t \in Targets : RtosForward(d, t)

Next ==
    \/ LinuxNext /\ UNCHANGED held
    \/ RtosNext

Spec == Init /\ [][Next]_vars

-----------------------------------------------------------------------------
TypeOK == RegionTypeOK /\ LinuxTypeOK /\ held \subseteq Descriptors

\* The places that refer to a frame.
InRing(r, f) == {k \in DOMAIN r : r[k].frame = f}
References(f) ==
    {<<"filling", i>> : i \in {j \in Interfaces : filling[j] = f}}
      \cup {<<"sending", i>> : i \in {j \in Interfaces : sending[j] = f}}
      \cup (UNION {{<<"rx", i, k>> : k \in InRing(rx[i], f)} : i \in Interfaces})
      \cup (UNION {{<<"tx", i, k>> : k \in InRing(tx[i], f)} : i \in Interfaces})
      \cup {<<"reclaim", k>> : k \in InRing(reclaim, f)}
      \cup {<<"held", d>> : d \in {e \in held : e.frame = f}}

\* No frame is leaked and none has two owners: an allocated frame is referred
\* to from exactly one place, a free one from none.
SoleOwner ==
    \A f \in Frames :
        Cardinality(References(f)) = IF f \in bitmap THEN 1 ELSE 0

\* Linux never turns down what the RTOS hands back: the local metadata still
\* says what the descriptor says, however long the frame was away.  A frame
\* whose descriptor is turned down would never be released.
NothingTurnedDown ==
    /\ \A i \in Interfaces : \A k \in DOMAIN tx[i] : TxAcceptable(tx[i][k])
    /\ \A k \in DOMAIN reclaim : ReclaimAcceptable(reclaim[k])

-----------------------------------------------------------------------------
(* The inductive invariant.  A frame on its way is in the state rx_queued in  *)
(* all four places that may refer to it, so its state alone does not tell    *)
(* them apart.                                                              *)

HeldFrames == {d.frame : d \in held}

\* What has not come to the TX rings still says what Linux wrote.
NothingChanged ==
    /\ \A i \in Interfaces : \A k \in DOMAIN rx[i] : ReclaimAcceptable(rx[i][k])
    /\ \A d \in held : ReclaimAcceptable(d)

OnePlace ==
    /\ \A i \in Interfaces : NoneTwice(rx[i]) /\ NoneTwice(tx[i])
    /\ NoneTwice(reclaim)
    /\ \A d, e \in held : d.frame = e.frame => d = e
    /\ \A i, j \in Interfaces :
          /\ i /= j => FramesOf(rx[i]) \cap FramesOf(rx[j]) = {}
          /\ i /= j => FramesOf(tx[i]) \cap FramesOf(tx[j]) = {}
          /\ FramesOf(rx[i]) \cap FramesOf(tx[j]) = {}
    /\ \A i \in Interfaces :
          (FramesOf(rx[i]) \cup FramesOf(tx[i]))
             \cap (FramesOf(reclaim) \cup HeldFrames) = {}
    /\ FramesOf(reclaim) \cap HeldFrames = {}

\* The state of a frame says where its reference is.
OnItsWay(f) ==
    \/ \E i \in Interfaces : f \in FramesOf(rx[i]) \cup FramesOf(tx[i])
    \/ f \in FramesOf(reclaim) \cup HeldFrames

NoneLost ==
    \A f \in bitmap :
        \/ fstate[f] = "allocated" /\ \E i \in Interfaces : filling[i] = f
        \/ fstate[f] = "tx_ready" /\ \E i \in Interfaces : sending[i] = f
        \/ fstate[f] = "rx_queued" /\ OnItsWay(f)

RefInv ==
    /\ NothingTurnedDown
    /\ NothingChanged
    /\ OnePlace
    /\ NoneLost

PoolInv == TypeOK /\ LinuxInv /\ RefInv
=============================================================================
