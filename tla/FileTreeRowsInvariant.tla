----------------------- MODULE FileTreeRowsInvariant -----------------------
(***************************************************************************)
(* The inductive invariant of FileTreeRows: how far the folders' children  *)
(* have come, and what holds of rows and counts until something happens    *)
(* that they do not allow for.                                             *)
(***************************************************************************)
EXTENDS FileTreeRows

\* A folder is asked for its children once it is itself a child that arrived, and
\* expanded after that; only a volume waits to be counted.
Grows ==
    \A p \in Folders :
        /\ children[p] # "null" => \A q \in Above(p) : HasArrived(children, q)
        /\ p \in m_IsExpanded => children[p] # "null"
        /\ children[p] \in {"assigned", "tested"} => Len(p) = 1

\* Folders were asked for their children when the folder above them was expanded.
ChildrenBegun ==
    \A p \in m_IsExpanded :
        HasArrived(children, p) /\ Len(p) > 1 =>
            \A c \in EnumerateFiles(p) \cap Folders : children[c] # "null"

\* A count goes wrong in the folders above one whose children arrived late: theirs
\* had arrived, and those above them have wrong counts, too.
MiscountedAbove ==
    \A p \in miscounted : HasArrived(children, p) /\ Above(p) \subseteq miscounted

\* Nobody toggled a volume before its children were counted.
CountedFirst ==
    \A p \in Folders :
        children[p] \in {"assigned", "tested"} =>
            /\ p \notin m_IsExpanded
            /\ \A c \in EnumerateFiles(p) \cap Folders : children[c] = "null"

\* What holds until rows or counts are disturbed.
Undisturbed == failure = "none" /\ CountedFirst

\* What holds as long as only folders were expanded whose children had arrived.
Unhurried ==
    /\ disturbed = {}
    /\ miscounted = {}
    /\ \A p \in m_IsExpanded : children[p] = "loaded"

IInv ==
    /\ TypeOK /\ Grows /\ ChildrenBegun /\ MiscountedAbove
    /\ disturbed \subseteq {"hasty"} => Undisturbed
    /\ "hasty" \notin disturbed => Unhurried
    /\ RowsShowTree /\ CountsMatchRows

=============================================================================
