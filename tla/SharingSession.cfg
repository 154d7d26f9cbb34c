SPECIFICATION FairSpec
CONSTANTS
    Component <- MCComponent
    Disk <- MCDisk
    Folders <- MCFolders
    TaskId = {t1, t2}
    ListenerId = {l1, l2}
    Connection = {}
    None = None
    Requested <- MCRequested
INVARIANTS
    IInv
    SharedIsSnapshot
    OneListener
    StatusMatchesListener
PROPERTIES
    StatusSettles
    LoneUpdateApplies
CHECK_DEADLOCK FALSE
