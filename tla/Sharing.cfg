SPECIFICATION Spec
CONSTANTS
    Component <- MCComponent
    Disk <- MCDisk
    Folders <- MCFolders
    TaskId = {t1, t2}
    ListenerId = {l1, l2}
    Connection = {c1}
    None = None
    Requested <- MCRequested
PROPERTIES AnswerFromOneInstant VolumesFromTheRequest
SYMMETRY Symmetry
CHECK_DEADLOCK FALSE
