----------------------------- MODULE MCSharing -----------------------------
(***************************************************************************)
(* Sharing on one volume with two files, with a statement of the client    *)
(* that the code does not keep.                                            *)
(***************************************************************************)
EXTENDS SharingInvariant, TLC

MCComponent == {"C", "x", "y"}
MCFolders == {<<"C">>}
MCDisk == MCFolders \cup {<<"C", "x">>, <<"C", "y">>}

\* What is asked for: the home page, the folder, and one of the files, which stands
\* for both.
MCRequested == {<<>>, <<"C">>, <<"C", "x">>}

Symmetry == Permutations(TaskId) \cup Permutations(ListenerId)

\* The page labels the check boxes "Shared files" (SharingPage.xaml:72): with the
\* status "Running" and every update done, they show what is shared.
MarksShowSharedFiles ==
    /\ m_IsSharing /\ m_CanChangeShareStatus /\ ~crashed
    /\ \A t \in TaskId : tasks[t] = None
    => published = CollectSharedFiles(marks)

=============================================================================
