SPECIFICATION Spec
CONSTANTS
    Component <- MCComponent
    Disk <- MCDisk
    Folders <- MCFolders
    TaskId = {t1, t2}
    ListenerId = {l1, l2}
    Connection = {}
    None = None
    Requested <- MCRequested
INVARIANT MarksShowSharedFiles
CHECK_DEADLOCK FALSE
