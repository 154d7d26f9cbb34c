SPECIFICATION Spec
CONSTANTS
    Component <- MCComponent
    Disk <- MCDisk
    Folders <- MCFolders
    Loading = Loading
    MaxRows = 7
    MaxCount = 5
INVARIANTS
    IInv
    RowsShowTree
    CountsMatchRows
    EndsOnlyInHaste
CHECK_DEADLOCK FALSE
