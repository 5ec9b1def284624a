SPECIFICATION Spec
CONSTANTS
    eth = eth
    can = can
    epoch1 = epoch1
    NoFrame = NoFrame
    NoInterface = NoInterface
    FrameCount = 3
    Interfaces <- MCInterfaces
    Targets <- MCInterfaces
    Quota <- MCQuota
    RingDepth = 2
    ReclaimDepth = 2
    Epochs <- MCEpochs
INVARIANTS
    CountersExact
    WithinQuota
    SoleOwner
    NothingTurnedDown
