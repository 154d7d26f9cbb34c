SPECIFICATION FairSpec
CONSTANTS
    MaxConnections = 2
    WebRequest = {w1, w2}
    None = None
    MaxBreaks = 1
INVARIANTS
    IInv
    RegisteredIsOpen
    HostIsRegistered
    RedirectsAreAcknowledged
    LoneVisitorIsServed
PROPERTIES
    LoneRequestEnds
    DropIsNoticed
CHECK_DEADLOCK FALSE
