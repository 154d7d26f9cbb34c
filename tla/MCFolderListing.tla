-------------------------- MODULE MCFolderListing --------------------------
(***************************************************************************)
(* FolderListing on two volumes, with a folder two levels deep.  A file    *)
(* on the first volume has no status, the second volume's enumeration      *)
(* breaks off, and one file is held open by another program.               *)
(***************************************************************************)
EXTENDS FolderListing

MCComponent == {"C", "D", "a", "b", "e", "x", "y"}
MCFolders == {<<"C">>, <<"D">>, <<"C", "a">>, <<"C", "a", "b">>, <<"C", "e">>}
MCFiles == {<<"C", "x">>, <<"C", "a", "x">>, <<"C", "a", "y">>,
            <<"C", "a", "b", "x">>, <<"D", "x">>}
MCDisk == MCFolders \cup MCFiles
MCTooLong == {<<"C", "a", "b">>}
MCNoStatus == {<<"C", "x">>}
MCUnreadable == {<<"D">>}
MCUnopened == {<<"C", "a", "y">>}

=============================================================================
