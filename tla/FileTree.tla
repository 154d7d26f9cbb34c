------------------------------ MODULE FileTree ------------------------------
(***************************************************************************)
(* The check boxes of the sharing page: LocalFileViewModel's three-state   *)
(* marks, the counts it keeps of the boxes below a folder, and the         *)
(* enumeration of folders on pool threads, whose results arrive while the  *)
(* user clicks.  A volume's own children are counted on the pool thread,   *)
(* while the UI thread adds to the same counts.                            *)
(*                                                                         *)
(* A view model is named by its path.  A collapsed folder can always be    *)
(* expanded again, so that expanded only grows here: a box can be clicked  *)
(* once every folder above it was expanded.  The rows of the list box, and *)
(* with them m_ExpandedChildrenCount, are not part of this module.         *)
(***************************************************************************)
EXTENDS SharedFiles, Integers, FiniteSets

CONSTANT MaxClicks  \* bounds the user's clicks, and with them the counts

ASSUME MaxClicksAssumption == MaxClicks \in Nat

ASSUME FiniteDiskAssumption == IsFiniteSet(Disk)

VARIABLES
    built,       \* the view models that were constructed
    children,    \* m_Children: null, the placeholder, or the folder's own
    mark,        \* m_IsSelected
    total,       \* m_TotalChildrenCount
    selected,    \* m_TotalSelectedChildrenCount
    expanded,    \* the folders that were expanded
    clicks,
    held,        \* m_TotalChildrenCount of a volume as its pool thread has read it
    overlapped,  \* the volumes whose total the UI thread added to since that read
    disturbed    \* history: what happened that the counts do not allow for

counts == <<total, selected>>
pool == <<held, overlapped>>
vars == <<built, children, mark, counts, expanded, clicks, pool, disturbed>>

\* The pool thread has assigned a volume's children and is not done counting them.
IsCounting(p) == children[p] \in {"uncounted", "adding", "added"}

\* m_Children is the array of view models.
HasArrived(p) == IsCounting(p) \/ children[p] = "loaded"

\* The boxes: view models that are a folder's children, or volumes.
Boxes == {p \in built : Len(p) = 1 \/ HasArrived(RemoveLastPathComponent(p))}

Above(p) == {q \in Folders : IsAbove(q, p)}

Init ==
    /\ built = Volumes
    /\ children = [p \in Folders |-> IF p \in Volumes THEN "loading" ELSE "null"]
    /\ mark = [p \in Disk |-> "unchecked"]
    /\ total = [p \in Disk |-> 0]
    /\ selected = [p \in Disk |-> 0]
    /\ expanded = {}
    /\ clicks = 0
    /\ held = [p \in Folders |-> 0]
    /\ overlapped = {}
    /\ disturbed = {}

-----------------------------------------------------------------------------
(* The enumeration of a folder *)

\* EnumerateFiles on a pool thread constructs the next view model, which takes
\* its mark from its parent unless that is indeterminate.
ConstructChild(p, c) ==
    /\ children[p] = "loading"
    /\ c \in EnumerateFiles(p) \ built
    /\ built' = built \cup {c}
    /\ mark' = [mark EXCEPT ![c] =
                   IF mark[p] = "indeterminate" THEN "unchecked" ELSE mark[p]]
    /\ UNCHANGED <<children, counts, expanded, clicks, pool, disturbed>>

\* Mutant: AddToChildrenCount does not go up.
AddToOwnChildrenCount(p) ==
    /\ total' = [total EXCEPT ![p] = @ + Cardinality(EnumerateFiles(p))]
    /\ selected' = [selected EXCEPT ![p] = IF mark[p] = "checked" THEN total'[p] ELSE @]

\* AddToChildrenCount goes from p up to the volume.  It brings the selected count
\* up to date for checked folders only.
AddToChildrenCount(p) ==
    LET chain == {p} \cup Above(p)
    IN  /\ total' = [q \in Disk |->
              IF q \in chain THEN total[q] + Cardinality(EnumerateFiles(p)) ELSE total[q]]
        /\ selected' = [q \in Disk |->
              IF q \in chain /\ mark[q] = "checked" THEN total'[q] ELSE selected[q]]

\* Children arrive in a checked folder below an indeterminate one, whose selected
\* count does not hear of them.
ArrivesLate(p) ==
    /\ mark[p] = "checked" /\ EnumerateFiles(p) # {}
    /\ \E q \in Above(p) : mark[q] # "checked"

\* Mutant: the children do not replace the placeholder.
ArriveAgain(p) ==
    /\ children[p] = "loading" /\ Len(p) > 1
    /\ EnumerateFiles(p) \subseteq built
    /\ AddToChildrenCount(p)
    /\ UNCHANGED <<built, children, mark, expanded, clicks, pool, disturbed>>

\* EnumerateFilesAsync resumes on the UI thread: the children replace the
\* placeholder and are counted, up to a volume whose pool thread may be adding its
\* own children to the same total.
Arrive(p) ==
    /\ children[p] = "loading" /\ Len(p) > 1
    /\ EnumerateFiles(p) \subseteq built
    /\ children' = [children EXCEPT ![p] = "loaded"]
    /\ AddToChildrenCount(p)
    /\ overlapped' = overlapped \cup {v \in Above(p) : children[v] = "adding"}
    /\ disturbed' = disturbed
          \cup (IF ArrivesLate(p) THEN {"late"} ELSE {})
          \cup (IF \E v \in Above(p) : children[v] \in {"adding", "added"}
                THEN {"raced"} ELSE {})
    /\ UNCHANGED <<built, mark, expanded, clicks, held>>

\* The volumes' enumerations were started on a pool thread and resume on one:
\* the UI thread may run between any two of the steps that follow.
ArriveInVolume(p) ==
    /\ children[p] = "loading" /\ Len(p) = 1
    /\ EnumerateFiles(p) \subseteq built
    /\ children' = [children EXCEPT ![p] = "uncounted"]
    /\ UNCHANGED <<built, mark, counts, expanded, clicks, pool, disturbed>>

\* m_TotalChildrenCount += count has no lock: the volume's total is read ...
ReadVolumeTotal(p) ==
    /\ children[p] = "uncounted"
    /\ children' = [children EXCEPT ![p] = "adding"]
    /\ held' = [held EXCEPT ![p] = total[p]]
    /\ UNCHANGED <<built, mark, counts, expanded, clicks, overlapped, disturbed>>

\* ... and written, which undoes what the UI thread added in between.  A write that
\* falls between the UI thread's own read and write is undone by that.
WriteVolumeTotal(p) ==
    /\ children[p] = "adding"
    /\ children' = [children EXCEPT ![p] = "added"]
    /\ \/ total' = [total EXCEPT ![p] = held[p] + Cardinality(EnumerateFiles(p))]
       \/ p \in overlapped /\ UNCHANGED total
    /\ held' = [held EXCEPT ![p] = 0]
    /\ UNCHANGED <<built, mark, selected, expanded, clicks, overlapped, disturbed>>

\* The rest of AddToChildrenCount for a volume, which has no parent.
SelectInVolume(p) ==
    /\ children[p] = "added"
    /\ children' = [children EXCEPT ![p] = "loaded"]
    /\ selected' = [selected EXCEPT ![p] = IF mark[p] = "checked" THEN total[p] ELSE @]
    /\ UNCHANGED <<built, mark, total, expanded, clicks, pool, disturbed>>

-----------------------------------------------------------------------------
(* The user *)

Shown(p) == p \in Boxes /\ Above(p) \subseteq expanded

\* DoExpand begins to enumerate the folder's folders.  A folder that is expanded
\* while it is loading does so when its children arrive.
Expand(p) ==
    /\ Shown(p) /\ p \notin expanded /\ HasArrived(p)
    /\ expanded' = expanded \cup {p}
    /\ children' = [q \in Folders |->
          IF q \in EnumerateFiles(p) /\ children[q] = "null" THEN "loading" ELSE children[q]]
    /\ UNCHANGED <<built, mark, counts, clicks, pool, disturbed>>

\* The mark that AddToSelectedChildrenCount gives folder q for its new count.
MarkFor(q, count) ==
    IF total[q] = 0 THEN mark[q]
    ELSE IF count = total[q] THEN "checked"
    ELSE IF count = 0 THEN "unchecked"
    ELSE "indeterminate"

One(condition) == IF condition THEN 1 ELSE 0

\* Mutant: a folder that becomes checked, or ceases to be, is not counted itself.
PassOnUnchanged(q, count) == count

\* What folder q adds to its parent's count when count is added to its own.
PassOn(q, count) ==
    LET new == MarkFor(q, selected[q] + count)
    IN  count + One(new = "checked") - One(mark[q] = "checked")

\* What the box on each level of p adds to the count of the folder above it, when
\* the box p itself adds selectionDelta.
AddToSelectedChildrenCount(p, selectionDelta) ==
    LET added[n \in 1 .. Len(p)] ==
            IF n = Len(p) THEN selectionDelta ELSE PassOn(SubSeq(p, 1, n), added[n + 1])
    IN  added

\* Mutant: only the children are given the new mark.
SetSelectionToOwnChildren(p, value) ==
    {q \in Boxes \ {p} : RemoveLastPathComponent(q) = p /\ mark[q] # value}

\* The boxes below p that SetSelectionToChildren gives the new mark: it does not
\* descend into a folder that has it already, nor into one that is loading.
SetSelectionToChildren(p, value) ==
    {q \in Boxes : /\ IsAbove(p, q)
                   /\ \A n \in Len(p) + 1 .. Len(q) :
                         /\ SubSeq(q, 1, n) \in Boxes
                         /\ mark[SubSeq(q, 1, n)] # value}

\* A click while a folder that it changes is between the construction of its
\* children and their arrival, or a volume before it has counted them.
Races(p) ==
    \/ \E q \in Folders : /\ children[q] = "loading" /\ mark'[q] # mark[q]
                          /\ EnumerateFiles(q) \cap built # {}
    \/ \E v \in {p} \cup Above(p) : v \in Folders /\ IsCounting(v)

\* The setter of IsSelected.  The box of a checked folder passes null, which the
\* setter takes for unchecked.
Click(p) ==
    LET value == IF mark[p] = "unchecked" THEN "checked" ELSE "unchecked"
        selectionDelta == IF value = "checked" THEN total[p] - selected[p] + 1
                          ELSE -selected[p] - 1
        added == AddToSelectedChildrenCount(p, selectionDelta)
        set == {p} \cup SetSelectionToChildren(p, value)
    IN  /\ Shown(p) /\ clicks < MaxClicks
        /\ clicks' = clicks + 1
        /\ selected' = [q \in Disk |->
              IF q \in set THEN IF value = "checked" THEN total[q] ELSE 0
              ELSE IF q \in Above(p) THEN selected[q] + added[Len(q) + 1]
              ELSE selected[q]]
        /\ mark' = [q \in Disk |->
              IF q \in set THEN value
              ELSE IF q \in Above(p) THEN MarkFor(q, selected'[q])
              ELSE mark[q]]
        /\ disturbed' = disturbed
              \cup (IF mark[p] = "indeterminate" /\ Len(p) > 1 THEN {"unselected"} ELSE {})
              \cup (IF Races(p) THEN {"raced"} ELSE {})
        /\ UNCHANGED <<built, children, total, expanded, pool>>

Next ==
    \/ \E p \in Folders :
          \/ \E c \in Disk : ConstructChild(p, c)
          \/ Arrive(p)
          \/ ArriveInVolume(p)
          \/ ReadVolumeTotal(p)
          \/ WriteVolumeTotal(p)
          \/ SelectInVolume(p)
          \/ Expand(p)
    \/ \E p \in Disk : Click(p)

Spec == Init /\ [][Next]_vars

-----------------------------------------------------------------------------
(* Properties *)

\* Every variable has a value of its type.  Only folders are indeterminate, and
\* only once their children arrived: CollectSharedFiles descends into no
\* placeholder.
TypeOK ==
    /\ built \subseteq Disk
    /\ children \in [Folders -> {"null", "loading", "uncounted", "adding", "added", "loaded"}]
    /\ mark \in [Disk -> CheckMark]
    /\ \A p \in Disk : mark[p] = "indeterminate" => p \in Folders /\ HasArrived(p)
    /\ total \in [Disk -> 0 .. Cardinality(Disk)]
    /\ selected \in [Disk -> Int]
    /\ expanded \subseteq Folders
    /\ clicks \in 0 .. MaxClicks
    /\ held \in [Folders -> 0 .. Cardinality(Disk)]
    /\ overlapped \subseteq Volumes
    /\ disturbed \subseteq {"late", "unselected", "raced"}

\* The folder's children are in its total.
IsCounted(p) == children[p] \in {"added", "loaded"}

\* The boxes below p that have been counted.
Counted(p) == {c \in built : IsAbove(p, c) /\ IsCounted(RemoveLastPathComponent(c))}

\* m_TotalChildrenCount is the number of the boxes below the folder, in whatever
\* order the folders' enumerations end, but for a volume that was between reading
\* and writing its total when the UI thread added to it: additions may be lost
\* there, and no box is ever counted twice.
TotalsCountBoxes ==
    \A p \in Folders :
        /\ total[p] <= Cardinality(Counted(p))
        /\ p \notin overlapped => total[p] = Cardinality(Counted(p))

\* Unless one of three things happened, m_TotalSelectedChildrenCount is the number
\* of checked boxes below the folder: children arrived in a checked folder below
\* an indeterminate one ("late"), an indeterminate box below another was clicked
\* ("unselected"), or a box was clicked, or children arrived, while the pool
\* thread was at work on a folder whose counts or marks that concerns ("raced").
\* A volume's count is brought up to date last.
SelectedCountsChecked ==
    disturbed = {} =>
        \A p \in Folders :
            children[p] # "added" =>
                selected[p] = Cardinality({c \in Counted(p) : mark[c] = "checked"})

\* Unless one of the three happened, a checked or unchecked folder agrees with
\* every box below it, and an indeterminate one is above both kinds.
MarksAgree ==
    disturbed = {} =>
        \A p \in Boxes \cap Folders :
            LET below == {mark[c] : c \in {c \in Boxes : IsAbove(p, c)}}
            IN  IF mark[p] = "indeterminate"
                THEN \A m \in {"checked", "unchecked"} : below # {m}
                ELSE below \subseteq {mark[p]}

=============================================================================
