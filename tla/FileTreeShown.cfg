SPECIFICATION Spec
CONSTANTS
    Component <- MCComponent
    Disk <- MCDisk
    Folders <- MCFolders
    MaxClicks = 5
INVARIANT BoxesShowSharing
CHECK_DEADLOCK FALSE
