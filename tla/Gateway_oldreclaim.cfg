SPECIFICATION Spec
CONSTANTS
    can = can
    eth = eth
    NoFrame = NoFrame
    NoInterface = NoInterface
    NoDescriptor = NoDescriptor
    FrameCount = 2
    Interfaces <- MCInterfaces
    Targets <- EthOnly
    ScanOrder <- MCScanOrder
    Quota <- MCQuota
    RingDepth = 1
    ReclaimDepth = 1
    QueueCapacity = 1
    RetryLimits = {0, 1}
    Epochs = {1, 2}
    Ticks = {1}
    Heartbeats = FALSE
PROPERTY
    NoOldReclaimed
