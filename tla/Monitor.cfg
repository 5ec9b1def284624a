SPECIFICATION Spec
CONSTANTS
    e1 = e1
    e2 = e2
    e3 = e3
    ring = ring
    rx = rx
    tx = tx
    NoEndpoint = NoEndpoint
    Never = Never
    Endpoints = {e1, e2, e3}
    Rows = 2
    Rings = {ring}
    Pending <- NonePending
    ClockMod = 8
    MaxLate = 1
    WarnAge = 2
    OfflineAge = 4
    LinuxWarning = 1
    LinuxSuspect = 2
    LinuxDegraded = 4
    StuckAge = 2
SYMMETRY AnyEndpoint
CONSTRAINT RingsApart
INVARIANTS
    EndpointTruth
    TableTruth
    LinuxTruth
    BacklogTruth
