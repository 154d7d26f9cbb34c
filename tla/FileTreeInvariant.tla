------------------------- MODULE FileTreeInvariant -------------------------
(***************************************************************************)
(* The inductive invariant of FileTree: how the tree grows, and how marks  *)
(* and counts agree as long as nothing disturbed them.                     *)
(***************************************************************************)
EXTENDS FileTree

\* The boxes that some marks have checked.
Checked(marks, boxes) == {c \in boxes : marks[c] = "checked"}

\* A folder is asked for its children once it is a box, they are constructed before
\* they arrive, and it is expanded after that.  Only a volume waits to be counted.
Grows ==
    /\ \A p \in Folders :
          /\ HasArrived(p) => EnumerateFiles(p) \subseteq built
          /\ children[p] # "null" => p \in Boxes
          /\ children[p] = "null" => EnumerateFiles(p) \cap built = {}
          /\ IsCounting(p) => Len(p) = 1
    /\ \A p \in expanded : HasArrived(p)

FilesCountNothing == \A f \in Files : total[f] = 0 /\ selected[f] = 0

\* Children take their folder's mark while they are constructed, and a volume is
\* not indeterminate before they are counted.
ChildrenTakeMark ==
    \A p \in Folders :
        /\ children[p] = "loading" => \A c \in EnumerateFiles(p) \cap built : mark[c] = mark[p]
        /\ IsCounting(p) => mark[p] # "indeterminate"

MarkedAlike ==
    \A p \in Boxes \cap Folders :
        mark[p] # "indeterminate" => \A c \in Boxes : IsAbove(p, c) => mark[c] = mark[p]

Mixed ==
    \A p \in Folders :
        mark[p] = "indeterminate" =>
            \E c, d \in Counted(p) : mark[c] = "checked" /\ mark[d] # "checked"

\* A checked volume's count is brought up to date after its total.
SelectedRight ==
    \A p \in Folders :
        children[p] # "added" \/ mark[p] # "checked" =>
            selected[p] = Cardinality(Checked(mark, Counted(p)))

\* What the pool thread holds is the volume's total, unless that has grown since.
HeldIsTotal ==
    \A p \in Folders :
        children[p] = "adding" =>
            /\ held[p] <= Cardinality(Counted(p))
            /\ p \notin overlapped => held[p] = total[p]

\* What holds whatever was clicked when.
GrowthInv ==
    /\ TypeOK /\ Grows /\ FilesCountNothing /\ TotalsCountBoxes /\ HeldIsTotal
    /\ overlapped # {} => "raced" \in disturbed

\* What holds until one of the three things happens.
Agreement == ChildrenTakeMark /\ MarkedAlike /\ Mixed /\ SelectedRight

IInv == GrowthInv /\ (disturbed = {} => Agreement)

=============================================================================
