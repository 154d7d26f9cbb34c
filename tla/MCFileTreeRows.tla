--------------------------- MODULE MCFileTreeRows ---------------------------
(***************************************************************************)
(* An instance of FileTreeRows.                                            *)
(***************************************************************************)
EXTENDS FileTreeRowsInvariant

\* Two volumes; one holds a folder with a file and a folder, in which there is an
\* empty folder: a folder has rows of others above and below its own, and children
\* arrive out of sight in a folder that has a folder itself.
MCComponent == {"C", "D", "a", "d", "f", "x"}
MCFolders == {<<"C">>, <<"D">>, <<"C", "a">>, <<"C", "a", "d">>, <<"C", "a", "d", "x">>}
MCDisk == MCFolders \cup {<<"C", "a", "f">>}

=============================================================================
