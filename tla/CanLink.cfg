SPECIFICATION LiveSpec
CONSTANTS
    s1 = s1
    s2 = s2
    short = short
    long = long
    Nothing = Nothing
    Senders <- MCSenders
    Messages <- MCMessages
    Sends <- MCSends
    Length <- MCLength
    MaxSessions = 2
    SessionMod = 2
    Timeout = 1
INVARIANTS
    SessionTable
    CompletedIsWhole
    ArrivesExactlyOnce
PROPERTY
    SilentIsForgotten
