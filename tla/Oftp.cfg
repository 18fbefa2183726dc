SPECIFICATION FairSpec
CONSTANTS
    a = a
    b = b
    Clients = {a, b}
    Contents <- MCContents
    Trees <- MCTrees
    MaxConns = 2
    BUFS = 2
    Pass <- MCPass
    Byte = 3
    File = File
    Stray = Stray
INVARIANT StoredAsSent
PROPERTIES Ends
CHECK_DEADLOCK FALSE
