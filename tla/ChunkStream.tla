---------------------------- MODULE ChunkStream ----------------------------
(***************************************************************************)
(* What StreamFile promises to the connection it serves: the file's chunks *)
(* go out in order and each at most once, nothing goes out after a failure *)
(* or after the end, and a stream that ends as complete sent every chunk.  *)
(***************************************************************************)
EXTENDS Integers

CONSTANTS FileSize, kMaxChunkSize

VARIABLES sent,     \* the file position up to which chunks were sent
          broken,   \* a send failed
          outcome   \* "streaming", "complete" or "abandoned"

vars == <<sent, broken, outcome>>

ChunkEnd(p) ==
    IF p + kMaxChunkSize <= FileSize THEN p + kMaxChunkSize ELSE FileSize

Init ==
    /\ sent = 0
    /\ broken = FALSE
    /\ outcome = "streaming"

Send ==
    /\ outcome = "streaming"
    /\ ~broken
    /\ sent # FileSize
    /\ sent' = ChunkEnd(sent)
    /\ UNCHANGED <<broken, outcome>>

\* A part of the next chunk may still go out.
Break ==
    /\ outcome = "streaming"
    /\ ~broken
    /\ sent # FileSize
    /\ broken' = TRUE
    /\ sent' \in {sent, ChunkEnd(sent)}
    /\ UNCHANGED outcome

Complete ==
    /\ outcome = "streaming"
    /\ ~broken
    /\ sent = FileSize
    /\ outcome' = "complete"
    /\ UNCHANGED <<sent, broken>>

Abandon ==
    /\ outcome = "streaming"
    /\ outcome' = "abandoned"
    /\ UNCHANGED <<sent, broken>>

Next == Send \/ Break \/ Complete \/ Abandon

Spec == Init /\ [][Next]_vars

=============================================================================
