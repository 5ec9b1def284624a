---------------------------- MODULE MCFramePool ----------------------------
\* Instances of FramePool for TLC.
EXTENDS FramePool, TLC

CONSTANTS eth, can, epoch1

MCInterfaces == {eth, can}
MCEpochs == {epoch1}
\* The quotas add up to more than the pool, and one is smaller than the pool.
MCQuota == (eth :> 2) @@ (can :> 3)
=============================================================================
