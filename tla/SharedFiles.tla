---------------------------- MODULE SharedFiles ----------------------------
(***************************************************************************)
(* Which paths a sharing state lets a browser see: the look-ups of         *)
(* Communication/SharedFiles.cpp that run under its lock, and the three    *)
(* sets that the WPF client collects from its check marks.                 *)
(*                                                                         *)
(* A path is the sequence of its components, a volume has one component    *)
(* and the home page none.  Letter case and a trailing backslash, which    *)
(* PathComparer ignores, are not represented, so that equal paths are      *)
(* paths the file sets regard as equal.                                    *)
(***************************************************************************)
EXTENDS Naturals, Sequences

CONSTANTS Component,  \* the names of volumes, folders and files
          Disk,       \* the paths of the volumes, folders and files on disk
          Folders     \* those that are folders; a volume is one

ASSUME DiskAssumption ==
    /\ Disk \subseteq Seq(Component) \ {<<>>}
    /\ Folders \subseteq Disk
    /\ \A p \in Disk :
          IF Len(p) = 1 THEN p \in Folders
          ELSE SubSeq(p, 1, Len(p) - 1) \in Folders

Files == Disk \ Folders
Volumes == {p \in Disk : Len(p) = 1}

\* RemoveLastPathComponent.
RemoveLastPathComponent(p) == SubSeq(p, 1, Len(p) - 1)

\* What EnumerateFiles finds in folder p.
EnumerateFiles(p) == {c \in Disk : Len(c) = Len(p) + 1 /\ RemoveLastPathComponent(c) = p}

-----------------------------------------------------------------------------
(* The look-ups.  shared holds the three file sets. *)

\* Mutant: only the folder itself is looked up.
IsFolderItselfShared(shared, p) == p \in shared.fullySharedFolders

\* The loop strips components until it meets a fully shared folder or the
\* empty path.
IsFolderFullyShared(shared, p) ==
    \E n \in 1 .. Len(p) : SubSeq(p, 1, n) \in shared.fullySharedFolders

\* Mutant: only the file itself is looked up.
IsFileItselfShared(shared, p) == p \in shared.files

IsFileShared(shared, p) ==
    \/ p \in shared.files
    \/ IsFolderFullyShared(shared, RemoveLastPathComponent(p))

IsFolderVisible(shared, p) ==
    \/ p \in shared.partiallySharedFolders
    \/ IsFolderFullyShared(shared, p)

\* FilterFolderContents asks the question that fits the entry's status.
IsEntryVisible(shared, p) ==
    IF p \in Folders THEN IsFolderVisible(shared, p) ELSE IsFileShared(shared, p)

GetFolderContents(shared, p) ==
    IF IsFolderFullyShared(shared, p)
    THEN EnumerateFiles(p)
    ELSE {c \in EnumerateFiles(p) : IsEntryVisible(shared, c)}

-----------------------------------------------------------------------------
(* What the client collects *)

\* The check marks: a box is checked, unchecked, or indeterminate when the
\* folder is shared in part.
CheckMark == {"checked", "unchecked", "indeterminate"}

\* LocalFileViewModel.CollectSharedFiles descends from a volume through
\* indeterminate folders only.
IsCollected(marks, p) ==
    \A n \in 1 .. Len(p) - 1 : marks[SubSeq(p, 1, n)] = "indeterminate"

\* Mutant: indeterminate folders are not collected.
CollectCheckedFiles(marks) ==
    LET checked == {p \in Disk : IsCollected(marks, p) /\ marks[p] = "checked"}
    IN  [fullySharedFolders     |-> checked \cap Folders,
         partiallySharedFolders |-> {},
         files                  |-> checked \cap Files]

CollectSharedFiles(marks) ==
    LET with(mark) == {p \in Disk : IsCollected(marks, p) /\ marks[p] = mark}
    IN  [fullySharedFolders     |-> with("checked") \cap Folders,
         partiallySharedFolders |-> with("indeterminate"),
         files                  |-> with("checked") \cap Files]

\* p is a path above q.
IsAbove(p, q) == Len(p) < Len(q) /\ SubSeq(q, 1, Len(p)) = p

\* Marks as the tree of three-state boxes means them: a checked or unchecked
\* folder agrees with everything below it, an indeterminate one disagrees with
\* something below it either way.  FileTree tells when the client keeps them so.
ConsistentMarks ==
    {marks \in [Disk -> CheckMark] :
        \A p \in Disk :
            IF marks[p] = "indeterminate"
            THEN \A mark \in {"checked", "unchecked"} :
                    \E q \in Disk : IsAbove(p, q) /\ marks[q] # mark
            ELSE \A q \in Disk : IsAbove(p, q) => marks[q] = marks[p]}

=============================================================================
