----------------------------- MODULE MCShmRing -----------------------------
\* Instances of ShmRing for TLC.  SeqMod is small, so every run goes around the
\* wrap of the sequence numbers many times and no bound on the number of
\* descriptors is needed.
EXTENDS ShmRing, TLC

CONSTANTS d1, d2, d3, d4, p1, p2

MCItems == {d1, d2, d3}
MCFourItems == {d1, d2, d3, d4}
OneProducer == {p1}
TwoProducers == {p1, p2}
=============================================================================
