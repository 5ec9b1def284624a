SPECIFICATION Spec
CONSTANTS
    d1 = d1
    d2 = d2
    d3 = d3
    d4 = d4
    p1 = p1
    p2 = p2
    NoItem = NoItem
    Items <- MCItems
    Producers <- TwoProducers
    Depth = 2
    SeqMod = 4
INVARIANT
    NoDescriptorLost
