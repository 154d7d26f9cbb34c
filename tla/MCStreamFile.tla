---------------------------- MODULE MCStreamFile ----------------------------
(***************************************************************************)
(* StreamFile for TLC, with the two statements of the source that the code *)
(* does not keep.                                                          *)
(***************************************************************************)
EXTENDS StreamFileInvariant, SequencesExt

\* The number of bytes of the file that send() accepted.
BytesOnWire == FoldSeq(LAMBDA segment, sum : segment.len + sum, 0, wire)

\* The header promises the file's size as Content-Length
\* (FormHttpHeaderForFile, FileBrowserResponseHandler.cpp:218): a stream that
\* ends without a failure has sent that many bytes.
ContentLengthKept ==
    reader = "returned" /\ ~doneSending => BytesOnWire = FileSize

\* "Throw exception if the other thread fails to second data within 30 seconds"
\* (FileBrowserResponseHandler.cpp:189): once the wait timed out because the
\* sender is still busy with the chunk before, the exception leaves StreamFile.
TimeoutThrows ==
    throwing /\ sender = "sending" /\ dataPtr # currentBuffer ~> reader = "threw"

=============================================================================
