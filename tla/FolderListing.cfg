SPECIFICATION Spec
CONSTANTS
    Component <- MCComponent
    Disk <- MCDisk
    Folders <- MCFolders
    SizeMax = 15
    TooLong <- MCTooLong
    NoStatus <- MCNoStatus
    Unreadable <- MCUnreadable
    Unopened <- MCUnopened
INVARIANTS
    IInv
    ListingExact
    NoBrokenLink
    ListingLeadsToChecked
