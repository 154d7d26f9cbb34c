----------------------------- MODULE MCFileTree -----------------------------
(***************************************************************************)
(* An instance of FileTree, and what the page says of its boxes.           *)
(***************************************************************************)
EXTENDS FileTreeInvariant

\* One volume with a file and a folder, which holds a file and a folder with one
\* file: a click has folders above it and below it.
MCComponent == {"C", "a", "b", "d", "f", "x"}
MCFolders == {<<"C">>, <<"C", "a">>, <<"C", "a", "d">>}
MCDisk == MCFolders \cup {<<"C", "b">>, <<"C", "a", "f">>, <<"C", "a", "d", "x">>}

\* What the boxes let a browser fetch: CollectSharedFiles meets no view model that
\* has not arrived.
Collected == CollectSharedFiles([p \in Disk |-> IF p \in Boxes THEN mark[p] ELSE "unchecked"])

\* "Shared files": the tree of check boxes shows which files are shared.  Clicks
\* that race an enumeration are left aside.
BoxesShowSharing ==
    "raced" \notin disturbed =>
        \A f \in Boxes \ Folders : IsFileShared(Collected, f) <=> mark[f] = "checked"

=============================================================================
