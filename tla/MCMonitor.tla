----------------------------- MODULE MCMonitor -----------------------------
EXTENDS Monitor, TLC

CONSTANTS e1, e2, e3, ring, rx, tx

NonePending == <<>>
TwoPending == <<rx, tx>>
\* The rings have no part in a recovery, so they and the others are busy in turn;
\* Linux comes and goes and brings recoveries beside an endpoint in the table.
RingsBusy == active /= {} \/ lasted /= [w \in Watched |-> Never]
Heard == {e \in Endpoints : silence[e] /= Never}
RingsApart ==
    /\ RingsBusy => Heard = {} /\ linux_silence = Never
    /\ linux_silence /= Never => Cardinality(Heard) <= 1
AnyEndpoint == Permutations(Endpoints)
=============================================================================
