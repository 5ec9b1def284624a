SPECIFICATION Spec
CONSTANTS
    can = can
    eth = eth
    NoFrame = NoFrame
    NoInterface = NoInterface
    NoDescriptor = NoDescriptor
    FrameCount = 3
    Interfaces <- MCInterfaces
    Targets <- MCInterfaces
    ScanOrder <- MCScanOrder
    Quota <- MCQuota
    RingDepth = 1
    ReclaimDepth = 1
    QueueCapacity = 1
    RetryLimits = {0, 1}
    Epochs = {1}
    Ticks = {1}
    Heartbeats = FALSE
INVARIANTS
    TypeOK
    NoOrphan
    Backpressure
PROPERTY
    ImplementsPool
