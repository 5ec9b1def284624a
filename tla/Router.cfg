SPECIFICATION Spec
CONSTANTS
    PriorityCount = 3
    Capacity = 3
    Quota <- MCQuota
    Interfaces = {"can", "eth"}
    External = {"eth"}
    Control = {"can"}
    Reserved = {"reserved"}
    Policies <- MCPolicies
    Inputs <- MCInputs
    Epoch = 1
    Ttl = 1
    RetryLimit <- MCRetryLimit
    TimeMod = 2
    CountMod = 2
    Wraps = FALSE
INVARIANTS
    NothingUnaccounted
    RoutedIsAllowed
    BoundedWait
    OldestFirst
PROPERTY
    LeastImportantLost
