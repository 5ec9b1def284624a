SPECIFICATION LiveSpec
CONSTANTS
    can = can
    udp = udp
    tcp = tcp
    ethernet = ethernet
    None = None
    WorkerOrder <- MCOrder
    WorkDepth = 1
    Budget = 1
    Devices = {can}
    Udp = {udp}
    Tcp = {tcp}
    ModuleOf <- MCModuleOf
    StartOrder <- MCStart
    StopOrder <- MCStop
    Unguarded = {can}
    Fds = {3, 4, 5}
INVARIANTS
    NobodyLeft
    DescriptorsKept
    NothingStaysOpen
PROPERTIES
    Stops
    RingsDrained
