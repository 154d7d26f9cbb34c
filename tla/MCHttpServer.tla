---------------------------- MODULE MCHttpServer ----------------------------
(***************************************************************************)
(* A volume C: with a folder "a+b" that holds a shared file, whose name is *)
(* one letter outside ASCII, and a built-in file.                          *)
(***************************************************************************)
EXTENDS HttpServer

MCVolume == {<<67, Colon, Backslash>>}
MCFolder == <<67, Colon, Backslash, 97, Plus, 98>>
MCFile == CombinePaths(MCFolder, <<196, 133>>)
MCSharedFiles == {MCFile}
MCBuiltin == {<<106, Dot, 115>>}
MCTarget == {<<>>, MCFile} \cup MCVolume

\* The links that lead up from the file to the home page.
ASSUME GoUpAssumption ==
    /\ RemoveLastPathComponent(MCFile) = MCFolder \o <<Backslash>>
    /\ RemoveLastPathComponent(MCFolder) \in MCVolume
    /\ \A v \in MCVolume : RemoveLastPathComponent(v) = <<>>

=============================================================================
