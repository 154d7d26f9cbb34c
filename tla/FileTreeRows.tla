---------------------------- MODULE FileTreeRows ----------------------------
(***************************************************************************)
(* The list box that shows the tree: LocalFileViewModel inserts the rows   *)
(* of a folder's children when it is expanded and removes as many as       *)
(* m_ExpandedChildrenCount says when it is collapsed.  The children come   *)
(* from an enumeration that may end while the folder is expanded; until    *)
(* then a placeholder, one object for all folders, stands for them.        *)
(*                                                                         *)
(* The marks of the boxes and their counts are FileTree's.                 *)
(***************************************************************************)
EXTENDS SharedFiles, Integers, SequencesExt

CONSTANTS Loading,   \* the placeholder, s_ChildrenLoading[0]
          MaxRows,   \* bounds the list once rows are doubled
          MaxCount   \* bounds the counts once they are wrong

ASSUME LoadingAssumption == Loading \notin Disk
ASSUME FiniteDiskAssumption == IsFiniteSet(Disk)
ASSUME BoundsAssumption == {MaxRows, MaxCount} \subseteq Nat

VARIABLES
    children,                 \* how far a folder's m_Children and its count have come
    m_IsExpanded,             \* the expanded folders
    m_ExpandedChildrenCount,
    rows,                     \* SharingPageViewModel.FileTreeCollection
    failure,                  \* the exception that ended the process
    miscounted,               \* history: folders above a late arrival
    disturbed                 \* history: what the rows do not allow for

vars == <<children, m_IsExpanded, m_ExpandedChildrenCount, rows, failure, miscounted, disturbed>>

\* What a row can be: a view model, or the placeholder.
Row == Disk \cup {Loading}

\* The lists of view models: of each folder, and of the page, <<>>, which holds the
\* volumes.
Lists == Folders \cup {<<>>}

HasArrived(ch, p) == ch[p] \in {"assigned", "tested", "loaded"}

\* m_Children of p, in the order of the enumeration, when the folders' children
\* have come as far as ch says.
m_Children(ch, p) ==
    IF p = <<>> \/ HasArrived(ch, p) THEN SetToSeq(EnumerateFiles(p))
    ELSE IF ch[p] = "loading" THEN <<Loading>>
    ELSE <<>>

HasChildren(p) == m_Children(children, p) # <<>>

\* The folders that contain p, themselves contained in the volume.
Above(p) == {q \in Folders : IsAbove(q, p)}

\* The page after LoadVolumesAsync, whose view models enumerate the volumes.
Init ==
    /\ children = [p \in Folders |-> IF p \in Volumes THEN "loading" ELSE "null"]
    /\ m_IsExpanded = {}
    /\ m_ExpandedChildrenCount = [p \in Folders |-> IF p \in Volumes THEN 1 ELSE 0]
    /\ rows = m_Children(children, <<>>)
    /\ failure = "none"
    /\ miscounted = {}
    /\ disturbed = {}

-----------------------------------------------------------------------------
(* The list of rows *)

\* The number of rows down to that of p, the first one if there are several; 0 if
\* p has none, as insertionPoint and deletionPoint then start from -1.
RowsTo(tree, p) == SelectInSeq(tree, LAMBDA row : row = p)

InsertRows(tree, at, inserted) ==
    SubSeq(tree, 1, at) \o inserted \o SubSeq(tree, at + 1, Len(tree))

\* Mutant: the rows of expanded folders further down are not restored.
DoExpandOnce(ch, ex) ==
    [p \in Folders |-> [tree \in Seq(Row) |->
        InsertRows(tree, RowsTo(tree, p), m_Children(ch, p))]]

\* DoExpand, for each folder and list of rows, when the folders ex are expanded:
\* first the rows of the children are inserted, then those below the expanded
\* ones among them.
DoExpand(ch, ex) ==
    LET expand[p \in Folders] ==
            [tree \in Seq(Row) |->
                LET own == m_Children(ch, p)
                    loop[n \in 0 .. Len(own)] ==
                        IF n = 0 THEN InsertRows(tree, RowsTo(tree, p), own)
                        ELSE IF own[n] \in ex THEN expand[own[n]][loop[n - 1]]
                        ELSE loop[n - 1]
                IN  loop[Len(own)]]
    IN  expand

\* The loop of Collapse calls RemoveAt once for each row it counts, which throws
\* at the end of the list.
RemovesTooMany(p) == RowsTo(rows, p) + m_ExpandedChildrenCount[p] > Len(rows)

RemoveRows(tree, p) ==
    LET at == RowsTo(tree, p)
    IN  SubSeq(tree, 1, at) \o SubSeq(tree, at + 1 + Max({m_ExpandedChildrenCount[p], 0}), Len(tree))

\* Mutant: the count of the parent only is changed.
AddToParentsCount(counts, p, count) ==
    [q \in Folders |-> IF q = RemoveLastPathComponent(p) THEN counts[q] + count ELSE counts[q]]

\* Mutant: what Collapse takes away is not passed up.
AddGainToExpandedChildrenCount(counts, p, count) ==
    [q \in Folders |-> IF q \in Above(p) /\ count > 0 THEN counts[q] + count ELSE counts[q]]

\* AddToExpandedChildrenCount of p's parent: it goes up to the volume, whether or
\* not the folders on the way are expanded.
AddToExpandedChildrenCount(counts, p, count) ==
    [q \in Folders |-> IF q \in Above(p) THEN counts[q] + count ELSE counts[q]]

\* Mutant: DoExpand does not begin the enumeration of the children.
BegunNone(p) == {}

\* BeginEnumeratingChildren for the folders among p's children.
Begun(p) == {c \in EnumerateFiles(p) \cap Folders : children[c] = "null"}

Begin(begun, counts) == [q \in Folders |-> IF q \in begun THEN 1 ELSE counts[q]]

-----------------------------------------------------------------------------
(* The user: the toggle button of a row *)

\* A toggle while a volume is between the arrival of its children and their count.
Races(p) == children[p] \in {"assigned", "tested"}
            \/ \E v \in Above(p) : children[v] \in {"assigned", "tested"}

InBounds ==
    /\ Len(rows') <= MaxRows
    /\ \A p \in Folders : m_ExpandedChildrenCount'[p] \in -MaxCount .. MaxCount

Expand(p) ==
    /\ p \notin m_IsExpanded /\ p \in Range(rows) /\ HasChildren(p)
    /\ LET begun == IF HasArrived(children, p) THEN Begun(p) ELSE {}
       IN  /\ children' = [q \in Folders |-> IF q \in begun THEN "loading" ELSE children[q]]
           /\ m_ExpandedChildrenCount' =
                 AddToExpandedChildrenCount(Begin(begun, m_ExpandedChildrenCount), p,
                                            m_ExpandedChildrenCount[p])
    /\ m_IsExpanded' = m_IsExpanded \cup {p}
    /\ rows' = DoExpand(children', m_IsExpanded')[p][rows]
    /\ InBounds
    /\ disturbed' = disturbed \cup (IF children[p] # "loaded" THEN {"hasty"} ELSE {})
                              \cup (IF Races(p) THEN {"raced"} ELSE {})
    /\ UNCHANGED <<failure, miscounted>>

Collapse(p) ==
    /\ p \in m_IsExpanded /\ p \in Range(rows) /\ HasChildren(p)
    /\ m_IsExpanded' = m_IsExpanded \ {p}
    /\ rows' = RemoveRows(rows, p)
    /\ IF RemovesTooMany(p)
       THEN failure' = "range" /\ UNCHANGED m_ExpandedChildrenCount
       ELSE /\ m_ExpandedChildrenCount' =
                  AddToExpandedChildrenCount(m_ExpandedChildrenCount, p, -m_ExpandedChildrenCount[p])
            /\ UNCHANGED failure
    /\ InBounds
    /\ disturbed' = disturbed \cup (IF p \in miscounted THEN {"miscounted"} ELSE {})
                              \cup (IF Races(p) THEN {"raced"} ELSE {})
    /\ UNCHANGED <<children, miscounted>>

-----------------------------------------------------------------------------
(* The end of a folder's enumeration *)

\* The children of a collapsed folder replace the placeholder.
ArriveCollapsed(p) ==
    /\ children[p] = "loading" /\ Len(p) > 1 /\ p \notin m_IsExpanded
    /\ children' = [children EXCEPT ![p] = "loaded"]
    /\ m_ExpandedChildrenCount' =
          [m_ExpandedChildrenCount EXCEPT ![p] = Cardinality(EnumerateFiles(p))]
    /\ UNCHANGED <<m_IsExpanded, rows, failure, miscounted, disturbed>>

\* The children of an expanded folder: Collapse, AddToExpandedChildrenCount and
\* Expand.  The folders above get what Collapse takes away, the difference, and
\* the new count: the difference twice.
ArriveExpanded(p) ==
    LET size == Cardinality(EnumerateFiles(p))
        removed == m_ExpandedChildrenCount[p]
        counts == AddToExpandedChildrenCount(
                      [m_ExpandedChildrenCount EXCEPT ![p] = size],
                      p, -removed + (size - removed) + size)
    IN  /\ children[p] = "loading" /\ Len(p) > 1 /\ p \in m_IsExpanded
        /\ IF RemovesTooMany(p)
           THEN /\ failure' = "range"
                /\ rows' = RemoveRows(rows, p)
                /\ UNCHANGED <<children, m_ExpandedChildrenCount>>
           ELSE /\ children' = [q \in Folders |-> IF q = p THEN "loaded"
                                                 ELSE IF q \in Begun(p) THEN "loading"
                                                 ELSE children[q]]
                /\ m_ExpandedChildrenCount' = Begin(Begun(p), counts)
                /\ rows' = DoExpand(children', m_IsExpanded)[p][RemoveRows(rows, p)]
                /\ UNCHANGED failure
        /\ miscounted' = miscounted \cup (IF size = 1 THEN {} ELSE Above(p))
        /\ disturbed' = disturbed \cup (IF p \in Range(rows) THEN {} ELSE {"hidden"})
        /\ UNCHANGED m_IsExpanded

\* The enumerations of the volumes were started on a pool thread and resume on
\* one: the user may toggle between the assignment ...
AssignInVolume(p) ==
    /\ children[p] = "loading" /\ Len(p) = 1
    /\ children' = [children EXCEPT ![p] = "assigned"]
    /\ disturbed' = disturbed \cup (IF p \in m_IsExpanded THEN {"raced"} ELSE {})
    /\ UNCHANGED <<m_IsExpanded, m_ExpandedChildrenCount, rows, failure, miscounted>>

\* ... the test, after which an expanded volume's rows are changed on the wrong
\* thread: the view of the list throws, and the exception ends the process ...
TestInVolume(p) ==
    /\ children[p] = "assigned"
    /\ IF p \in m_IsExpanded
       THEN failure' = "thread" /\ UNCHANGED children
       ELSE children' = [children EXCEPT ![p] = "tested"] /\ UNCHANGED failure
    /\ UNCHANGED <<m_IsExpanded, m_ExpandedChildrenCount, rows, miscounted, disturbed>>

\* ... and the count.
CountInVolume(p) ==
    /\ children[p] = "tested"
    /\ children' = [children EXCEPT ![p] = "loaded"]
    /\ m_ExpandedChildrenCount' =
          [m_ExpandedChildrenCount EXCEPT ![p] = Cardinality(EnumerateFiles(p))]
    /\ UNCHANGED <<m_IsExpanded, rows, failure, miscounted, disturbed>>

Next ==
    /\ failure = "none"
    /\ \E p \in Folders :
          \/ Expand(p)
          \/ Collapse(p)
          \/ ArriveCollapsed(p)
          \/ ArriveExpanded(p)
          \/ AssignInVolume(p)
          \/ TestInVolume(p)
          \/ CountInVolume(p)

Spec == Init /\ [][Next]_vars

-----------------------------------------------------------------------------
(* Properties *)

\* Every variable has a value of its type.  A row is a view model or the
\* placeholder, and has its m_Children, which the row's HasChildren reads.
TypeOK ==
    /\ children \in [Folders -> {"null", "loading", "assigned", "tested", "loaded"}]
    /\ m_IsExpanded \subseteq Folders
    /\ m_ExpandedChildrenCount \in [Folders -> Int]
    /\ rows \in Seq(Row)
    /\ \A p \in Range(rows) \cap Folders : children[p] # "null"
    /\ failure \in {"none", "range", "thread"}
    /\ miscounted \subseteq Folders
    /\ disturbed \subseteq {"hasty", "raced", "miscounted", "hidden"}

\* The rows that belong below the folder of each list when it is expanded: each
\* child with, if it is expanded itself, the rows below it.
RowsBelow(ch, ex) ==
    LET below[p \in Lists] ==
            FlattenSeq([i \in DOMAIN m_Children(ch, p) |->
                LET c == m_Children(ch, p)[i]
                IN  IF c \in ex THEN <<c>> \o below[c] ELSE <<c>>])
    IN  below

\* The rows of the whole tree.
RowsOfTree == RowsBelow(children, m_IsExpanded)[<<>>]

\* The list shows each box whose folders are expanded, once and in the order of
\* the tree, however enumerations and toggles follow each other, unless one of
\* three things happened: a volume was expanded when its children arrived, or
\* toggled before they were counted ("raced"), children arrived in an expanded
\* folder that was out of sight ("hidden"), or a folder was collapsed whose count
\* was wrong ("miscounted").
RowsShowTree == disturbed \subseteq {"hasty"} => rows = RowsOfTree

\* Until then a count can only be wrong in a folder above one whose children
\* arrived when it was expanded, and were not one like the placeholder; whatever
\* was collapsed and expanded since, m_ExpandedChildrenCount is the number of rows
\* that the folder has to remove.
CountsMatchRows ==
    disturbed \subseteq {"hasty"} =>
        \A p \in Folders \ miscounted :
            children[p] \in {"loading", "loaded"} =>
                m_ExpandedChildrenCount[p] = Len(RowsBelow(children, m_IsExpanded)[p])

\* The process ends, by a row that does not exist or by a change of the list on a
\* pool thread, only if some folder was expanded before its children had arrived
\* and one of the three things followed.
EndsOnlyInHaste ==
    failure # "none" => "hasty" \in disturbed /\ disturbed # {"hasty"}

=============================================================================
