SPECIFICATION LiveSpec
CONSTANTS
    can = can
    eth = eth
    NoFrame = NoFrame
    NoInterface = NoInterface
    NoDescriptor = NoDescriptor
    FrameCount = 3
    Interfaces <- MCInterfaces
    Targets <- EthOnly
    ScanOrder <- MCScanOrder
    Quota <- MCQuota
    RingDepth = 1
    ReclaimDepth = 1
    QueueCapacity = 2
    RetryLimits = {0, 1}
    Epochs = {1}
    Ticks = {1}
    Heartbeats = FALSE
PROPERTIES
    EventuallyReleased
    EventuallyThawed
