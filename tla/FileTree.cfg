SPECIFICATION Spec
CONSTANTS
    Component <- MCComponent
    Disk <- MCDisk
    Folders <- MCFolders
    MaxClicks = 5
INVARIANTS
    IInv
    TotalsCountBoxes
    SelectedCountsChecked
    MarksAgree
CHECK_DEADLOCK FALSE
