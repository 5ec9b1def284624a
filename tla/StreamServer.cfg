SPECIFICATION LiveSpec
CONSTANTS
    a = a
    b = b
    r = r
    tcp = tcp
    rfcomm = rfcomm
    None = None
    Clients = {a, b, r}
    Tcp = {tcp}
    Rfcomm = {rfcomm}
    ServiceOf <- MCServiceOf
    MessagesOf <- MCMessagesOf
    LengthOf <- MCLengthOf
    ChunkSize = 5
INVARIANTS
    NothingMixed
PROPERTIES
    ImplementsPipe
    EveryoneIsServed
