------------------------- MODULE StreamFileInvariant -------------------------
(***************************************************************************)
(* The inductive invariant of StreamFile: where the two threads can be at  *)
(* the same time, and which chunk the reader's buffers, the shared         *)
(* variables and the sender's hand hold then.                              *)
(***************************************************************************)
EXTENDS StreamFile

\* The position of the first chunk that the sender was not given yet.
Given == IF Holding THEN ChunkEnd(Sent) ELSE Sent

\* Buffer b holds the whole chunk that begins at position p.
HoldsChunk(b, p) ==
    /\ p < FileSize
    /\ buffers[b] = [from |-> p, len |-> ChunkEnd(p) - p]

\* A chunk was published and the sender has not taken its address yet.
Pending ==
    \/ sender = "takeBuffer"
    \/ ~doneReading /\ (dataReadyEvent \/ sender = "check")

Producing == reader \in {"loop", "reading", "publish", "signal"}
Stopping == reader \in {"stop", "stopSignal", "join"}

\* How the two threads' positions and the flags go together.
Lifecycle ==
    /\ reader \in {"open", "header"} =>
          /\ sender = "unstarted"
          /\ m_FilePosition = 0
    /\ reader = "reading" => m_FilePosition # FileSize
    /\ sender = "unstarted" =>
          /\ reader \in {"open", "header", "threw"}
          /\ wire = <<>>
          /\ ~dataReadyEvent /\ ~bufferPtrReadEvent
    /\ doneReading => reader \in {"stopSignal", "join", "returned", "threw"}
    /\ reader \in {"stopSignal", "join", "returned"} => doneReading
    /\ reader = "stop" => ~doneReading
    /\ doneSending => sender = "exited"
    /\ sender = "exited" => doneReading \/ doneSending
    /\ Ended => sender \in {"unstarted", "exited"}
    /\ throwing => Stopping \/ reader = "threw"
    /\ reader = "threw" => throwing \/ sender = "unstarted"

\* The chunk in the sender's hand is the next one for the wire; the shared
\* length is its own, or that of a last chunk published since.
SenderHolds ==
    Holding =>
        /\ dataPtr \in Buffer
        /\ HoldsChunk(dataPtr, Sent)
        /\ currentDataLength \in 1 .. buffers[dataPtr].len
        /\ currentDataLength \in {buffers[dataPtr].len, FileSize - ChunkEnd(Sent)}
        /\ sender = "sending" =>
              /\ sendLength \in 1 .. buffers[dataPtr].len
              /\ sendLength \in {buffers[dataPtr].len, FileSize - ChunkEnd(Sent)}

\* The published chunk that the sender has not taken.
PendingChunk ==
    Pending /\ ~SendFailed =>
        /\ reader = "await" \/ (Stopping /\ throwing)
        /\ currentBuffer = currentBufferIndex
        /\ HoldsChunk(currentBuffer, Given)
        /\ currentDataLength = buffers[currentBuffer].len
        /\ m_FilePosition = ChunkEnd(Given)
        /\ ~bufferPtrReadEvent
        /\ Holding => dataPtr # currentBuffer
        /\ ~doneReading /\ dataReadyEvent => sender \in {"wait", "takeLength", "sending"}

\* The chunk that the sender took and has not acknowledged.
UnacknowledgedChunk ==
    sender = "acknowledge" =>
        /\ ~Pending
        /\ reader = "await" \/ (Stopping /\ throwing)
        /\ dataPtr = currentBuffer
        /\ currentBuffer = currentBufferIndex
        /\ ~bufferPtrReadEvent
        /\ m_FilePosition = Given

\* The reader between an acknowledgement and the next publication.
ReaderAhead ==
    ~SendFailed =>
        /\ reader = "await" /\ ~Pending =>
              /\ sender \in {"wait", "acknowledge", "takeLength", "sending"}
              /\ sender = "acknowledge" \/ bufferPtrReadEvent
              /\ currentBuffer = currentBufferIndex
              /\ Holding => dataPtr = currentBuffer
              /\ m_FilePosition = Given
        /\ reader = "check" \/ Producing =>
              /\ sender \in {"wait", "takeLength", "sending"}
              /\ ~dataReadyEvent /\ ~bufferPtrReadEvent
        /\ reader = "check" =>
              /\ currentBuffer = currentBufferIndex
              /\ Holding => dataPtr = currentBuffer
        /\ Producing => (Holding => dataPtr # currentBufferIndex)
        /\ reader \in {"check", "loop", "reading"} => m_FilePosition = Given
        /\ reader \in {"publish", "signal"} =>
              /\ HoldsChunk(currentBufferIndex, Given)
              /\ bytesRead = buffers[currentBufferIndex].len
              /\ m_FilePosition = ChunkEnd(Given)
        /\ reader = "signal" =>
              /\ currentBuffer = currentBufferIndex
              /\ currentDataLength = bytesRead

\* The shutdown after the last chunk was acknowledged.
ReaderDone ==
    ~SendFailed /\ ~throwing =>
        /\ Stopping \/ reader = "returned" => ~Pending /\ Given = FileSize
        /\ reader = "stop" => sender \in {"wait", "takeLength", "sending"}

IInv ==
    /\ TypeOK
    /\ Lifecycle
    /\ SenderHolds
    /\ PendingChunk
    /\ UnacknowledgedChunk
    /\ ReaderAhead
    /\ ReaderDone
    /\ ChunksInOrder
    /\ OnlyPenultimateTruncated

=============================================================================
