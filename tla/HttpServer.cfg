CONSTANTS
    Connection = {c1, c2}
    Handle = {h1, h2}
    None = None
    kDataBufferSize = 40
    Target <- MCTarget
    Volume <- MCVolume
    Builtin <- MCBuiltin
    DiskFiles <- MCSharedFiles
    SharedFiles <- MCSharedFiles
    MaxRequests = 2
    MaxCuts = 1

SPECIFICATION FairSpec
INVARIANTS TypeOK OwnSocket
PROPERTIES ImplementsRequestResponse RequestIsAnswered SocketsAreReleased
CHECK_DEADLOCK FALSE
