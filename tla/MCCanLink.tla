----------------------------- MODULE MCCanLink -----------------------------
EXTENDS CanLink, TLC

CONSTANTS
    s1, s2,        \* senders
    short, long    \* messages

MCSenders == {s1, s2}
MCMessages == {short, long}
MCSends == s1 :> MCMessages @@ s2 :> {short}
MCLength == short :> 1 @@ long :> 2
=============================================================================
