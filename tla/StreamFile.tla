---------------------------- MODULE StreamFile ----------------------------
(***************************************************************************)
(* FileBrowserResponseHandler::StreamFile: one connection thread (the      *)
(* reader) reads a shared file chunk by chunk into two buffers, and a      *)
(* sending thread it starts (the sender) passes each chunk to send().  The *)
(* two synchronise on two auto-reset events (Utilities/Event.h) and share  *)
(* four volatile variables without a lock.                                 *)
(*                                                                         *)
(* Every access to a shared variable and every event operation is a step   *)
(* of its own.  The bytes of the file are not modelled: a chunk is the     *)
(* interval of file positions a buffer holds, and the wire is the sequence *)
(* of intervals that send() accepted.                                      *)
(***************************************************************************)
EXTENDS Integers, Sequences

CONSTANTS FileSize,       \* m_FileSize, in bytes
          kMaxChunkSize   \* StreamableFile::kMaxChunkSize, in bytes

ASSUME FileSizeAssumption == FileSize \in Nat
ASSUME ChunkSizeAssumption == kMaxChunkSize \in Nat \ {0}

VARIABLES
    m_FilePosition,      \* StreamableFile::m_FilePosition
    buffers,             \* what each of the two buffers holds
    currentBufferIndex,  \* the reader's buffer to fill
    bytesRead,           \* the reader's local result of ReadNextChunk
    currentBuffer,       \* shared: the buffer that was published
    currentDataLength,   \* shared: the published length
    doneReading,         \* shared: set by the reader before it joins
    doneSending,         \* shared: set by the sender when a send failed
    dataReadyEvent,      \* auto-reset event, reader to sender
    bufferPtrReadEvent,  \* auto-reset event, sender to reader
    reader,              \* where the connection thread is
    throwing,            \* the reader is in its catch block
    sender,              \* where the sending thread is
    dataPtr,             \* the sender's local copy of currentBuffer
    sendLength,          \* the length argument the sender evaluated
    wire                 \* the intervals of the file the peer was sent

readerVars == <<m_FilePosition, buffers, currentBufferIndex, bytesRead, throwing>>
senderVars == <<dataPtr, sendLength, wire>>
sharedVars == <<currentBuffer, currentDataLength, doneReading, doneSending>>
eventVars  == <<dataReadyEvent, bufferPtrReadEvent>>

vars == <<readerVars, senderVars, sharedVars, eventVars, reader, sender>>

kBufferCount == 2
Buffer == 0 .. kBufferCount - 1

\* currentBuffer, currentDataLength and dataPtr before anything was assigned to
\* them: the declarations at 143-144 leave them uninitialised.
Uninitialised == -1

\* Mutant: the remaining length is not regarded.
ChunkEndUnbounded(p) == p + kMaxChunkSize

\* Where the file's chunk that begins at position p ends.
ChunkEnd(p) ==
    IF p + kMaxChunkSize <= FileSize THEN p + kMaxChunkSize ELSE FileSize

\* An interval of file positions: len bytes from position from on.
Interval == [from : Nat, len : Nat]

\* A buffer that ReadFile is still writing to holds no bytes of the file yet.
Torn(p) == [from |-> p, len |-> 0]

\* The position of the first byte that no send was given, rounded up to whole
\* chunks.
Sent == IF wire = <<>> THEN 0 ELSE ChunkEnd(wire[Len(wire)].from)

-----------------------------------------------------------------------------
(* The reader: StreamFile on the connection's thread *)

\* The response handler calls StreamFile with everything unset.
Init ==
    /\ m_FilePosition = 0
    /\ buffers = [b \in Buffer |-> Torn(0)]
    /\ currentBufferIndex = 1
    /\ bytesRead = 0
    /\ currentBuffer = Uninitialised
    /\ currentDataLength = Uninitialised
    /\ doneReading = FALSE
    /\ doneSending = FALSE
    /\ dataReadyEvent = FALSE
    /\ bufferPtrReadEvent = FALSE
    /\ reader = "open"
    /\ throwing = FALSE
    /\ sender = "unstarted"
    /\ dataPtr = Uninitialised
    /\ sendLength = Uninitialised
    /\ wire = <<>>

\* StreamableFile's constructor opens the file and asks for its size; it throws
\* when either fails, before there is a thread to join.
OpenFile ==
    /\ reader = "open"
    /\ reader' \in {"header", "threw"}
    /\ UNCHANGED <<readerVars, senderVars, sharedVars, eventVars, sender>>

\* The header is sent, its outcome ignored, and the sending thread started.
SendHeader ==
    /\ reader = "header"
    /\ reader' = "loop"
    /\ sender' = "wait"
    /\ UNCHANGED <<readerVars, senderVars, sharedVars, eventVars>>

\* while (!file.IsEndOfFile()): enter the body, and ReadFile starts writing to
\* the reader's buffer.
BeginReadNextChunk ==
    /\ reader = "loop"
    /\ m_FilePosition # FileSize
    /\ buffers' = [buffers EXCEPT ![currentBufferIndex] = Torn(m_FilePosition)]
    /\ reader' = "reading"
    /\ UNCHANGED <<m_FilePosition, currentBufferIndex, bytesRead, throwing>>
    /\ UNCHANGED <<senderVars, sharedVars, eventVars, sender>>

\* ReadFile filled the buffer with min(m_FileSize - m_FilePosition,
\* kMaxChunkSize) bytes.
FinishReadNextChunk ==
    LET end == ChunkEnd(m_FilePosition)
        len == end - m_FilePosition
    IN  /\ reader = "reading"
        /\ buffers' = [buffers EXCEPT ![currentBufferIndex] =
                          [from |-> m_FilePosition, len |-> len]]
        /\ bytesRead' = len
        /\ m_FilePosition' = end
        /\ reader' = "publish"
        /\ UNCHANGED <<currentBufferIndex, throwing>>
        /\ UNCHANGED <<senderVars, sharedVars, eventVars, sender>>

\* ReadFile failed or returned too few bytes: ReadNextChunk throws.
FailReadNextChunk ==
    /\ reader = "reading"
    /\ throwing' = TRUE
    /\ reader' = "stop"
    /\ UNCHANGED <<m_FilePosition, buffers, currentBufferIndex, bytesRead>>
    /\ UNCHANGED <<senderVars, sharedVars, eventVars, sender>>

\* Mutant: the length of the buffer is published, not of what was read into it.
PublishWholeBuffer ==
    /\ reader = "publish"
    /\ currentBuffer' = currentBufferIndex
    /\ currentDataLength' = kMaxChunkSize
    /\ reader' = "signal"
    /\ UNCHANGED <<doneReading, doneSending, readerVars, senderVars, eventVars, sender>>

\* The two stores are one step: a sender that is awake reads at most the length
\* between them.
Publish ==
    /\ reader = "publish"
    /\ currentBuffer' = currentBufferIndex
    /\ currentDataLength' = bytesRead
    /\ reader' = "signal"
    /\ UNCHANGED <<doneReading, doneSending, readerVars, senderVars, eventVars, sender>>

SignalDataReady ==
    /\ reader = "signal"
    /\ dataReadyEvent' = TRUE
    /\ reader' = "await"
    /\ UNCHANGED <<bufferPtrReadEvent, readerVars, senderVars, sharedVars, sender>>

\* Mutant: the reader does not wait for the acknowledgement.
DoNotAwaitBufferPtrRead ==
    /\ reader = "await"
    /\ reader' = "check"
    /\ UNCHANGED <<eventVars, readerVars, senderVars, sharedVars, sender>>

\* bufferPtrReadEvent.Wait(kTimeout) returns true and resets the event.
AwaitBufferPtrRead ==
    /\ reader = "await"
    /\ bufferPtrReadEvent
    /\ bufferPtrReadEvent' = FALSE
    /\ reader' = "check"
    /\ UNCHANGED <<dataReadyEvent, readerVars, senderVars, sharedVars, sender>>

\* Mutant: a timeout leaves the loop like the end of the file.
TimeOutLeavesLoop ==
    /\ reader = "await"
    /\ ~bufferPtrReadEvent
    /\ reader' = "stop"
    /\ UNCHANGED <<readerVars, senderVars, sharedVars, eventVars, sender>>

\* Mutant: the reader waits without a timeout.
NoTimeOut == FALSE

\* The 30 seconds pass with the event unset: throw exception().
TimeOut ==
    /\ reader = "await"
    /\ ~bufferPtrReadEvent
    /\ throwing' = TRUE
    /\ reader' = "stop"
    /\ UNCHANGED <<m_FilePosition, buffers, currentBufferIndex, bytesRead>>
    /\ UNCHANGED <<senderVars, sharedVars, eventVars, sender>>

\* Mutant: the reader fills the same buffer again.
KeepBuffer ==
    /\ reader = "check"
    /\ reader' = IF doneSending THEN "stop" ELSE "loop"
    /\ UNCHANGED <<readerVars, senderVars, sharedVars, eventVars, sender>>

\* if (doneSending) break; otherwise the other buffer is the next to fill.
CheckDoneSending ==
    /\ reader = "check"
    /\ IF doneSending
       THEN /\ reader' = "stop"
            /\ UNCHANGED currentBufferIndex
       ELSE /\ reader' = "loop"
            /\ currentBufferIndex' = (currentBufferIndex + 1) % kBufferCount
    /\ UNCHANGED <<m_FilePosition, buffers, bytesRead, throwing>>
    /\ UNCHANGED <<senderVars, sharedVars, eventVars, sender>>

ReachEndOfFile ==
    /\ reader = "loop"
    /\ m_FilePosition = FileSize
    /\ reader' = "stop"
    /\ UNCHANGED <<readerVars, senderVars, sharedVars, eventVars, sender>>

\* doneReading = true, after the loop and in the catch block alike.
StopReading ==
    /\ reader = "stop"
    /\ doneReading' = TRUE
    /\ reader' = "stopSignal"
    /\ UNCHANGED <<currentBuffer, currentDataLength, doneSending>>
    /\ UNCHANGED <<readerVars, senderVars, eventVars, sender>>

\* Mutant: the sender is not woken before it is joined.
JoinWithoutSignal ==
    /\ reader = "stopSignal"
    /\ reader' = "join"
    /\ UNCHANGED <<eventVars, readerVars, senderVars, sharedVars, sender>>

SignalStop ==
    /\ reader = "stopSignal"
    /\ dataReadyEvent' = TRUE
    /\ reader' = "join"
    /\ UNCHANGED <<bufferPtrReadEvent, readerVars, senderVars, sharedVars, sender>>

\* sendingThread.join(); then return, or rethrow from the catch block.
JoinSender ==
    /\ reader = "join"
    /\ sender = "exited"
    /\ reader' = IF throwing THEN "threw" ELSE "returned"
    /\ UNCHANGED <<readerVars, senderVars, sharedVars, eventVars, sender>>

-----------------------------------------------------------------------------
(* The sender: the lambda of sendingThread *)

\* dataReadyEvent.Wait() without a timeout.
AwaitDataReady ==
    /\ sender = "wait"
    /\ dataReadyEvent
    /\ dataReadyEvent' = FALSE
    /\ sender' = "check"
    /\ UNCHANGED <<bufferPtrReadEvent, readerVars, senderVars, sharedVars, reader>>

CheckDoneReading ==
    /\ sender = "check"
    /\ sender' = IF doneReading THEN "exited" ELSE "takeBuffer"
    /\ UNCHANGED <<readerVars, senderVars, sharedVars, eventVars, reader>>

\* auto dataPtr = currentBuffer.  The local length taken on the next line is
\* never used.
TakeBuffer ==
    /\ sender = "takeBuffer"
    /\ dataPtr' = currentBuffer
    /\ sender' = "acknowledge"
    /\ UNCHANGED <<sendLength, wire, readerVars, sharedVars, eventVars, reader>>

AcknowledgeBuffer ==
    /\ sender = "acknowledge"
    /\ bufferPtrReadEvent' = TRUE
    /\ sender' = "takeLength"
    /\ UNCHANGED <<dataReadyEvent, readerVars, senderVars, sharedVars, reader>>

\* The call SendData(dataPtr, currentDataLength) evaluates the shared length
\* here, after the acknowledgement.
TakeLength ==
    /\ sender = "takeLength"
    /\ sendLength' = currentDataLength
    /\ sender' = "sending"
    /\ UNCHANGED <<dataPtr, wire, readerVars, sharedVars, eventVars, reader>>

\* The first n bytes at dataPtr are on the wire.
Transmit(n) ==
    wire' = Append(wire, [from |-> buffers[dataPtr].from, len |-> n])

\* send() accepted the whole length.
FinishSend ==
    /\ sender = "sending"
    /\ Transmit(sendLength)
    /\ sender' = "wait"
    /\ UNCHANGED <<dataPtr, sendLength, readerVars, sharedVars, eventVars, reader>>

\* send() returned SOCKET_ERROR, or accepted only a part of it.
FailSend ==
    /\ sender = "sending"
    /\ \/ wire' = wire
       \/ \E n \in 1 .. sendLength - 1 : Transmit(n)
    /\ sender' = "failSignal"
    /\ UNCHANGED <<dataPtr, sendLength, readerVars, sharedVars, eventVars, reader>>

\* The event is set before doneSending is.
SignalFailedSend ==
    /\ sender = "failSignal"
    /\ bufferPtrReadEvent' = TRUE
    /\ sender' = "failStore"
    /\ UNCHANGED <<dataReadyEvent, readerVars, senderVars, sharedVars, reader>>

\* Mutant: a failed send ends the thread without a word.
StopSendingSilently ==
    /\ sender = "failStore"
    /\ sender' = "exited"
    /\ UNCHANGED <<sharedVars, readerVars, senderVars, eventVars, reader>>

StopSending ==
    /\ sender = "failStore"
    /\ doneSending' = TRUE
    /\ sender' = "exited"
    /\ UNCHANGED <<currentBuffer, currentDataLength, doneReading>>
    /\ UNCHANGED <<readerVars, senderVars, eventVars, reader>>

-----------------------------------------------------------------------------
(* The specification *)

\* Steps of the connection thread that do not wait for the peer.
ReaderStep ==
    \/ OpenFile
    \/ BeginReadNextChunk
    \/ FinishReadNextChunk
    \/ FailReadNextChunk
    \/ Publish
    \/ SignalDataReady
    \/ AwaitBufferPtrRead
    \/ TimeOut
    \/ CheckDoneSending
    \/ ReachEndOfFile
    \/ StopReading
    \/ SignalStop
    \/ JoinSender

\* Steps of the sending thread that do not wait for the peer.
SenderStep ==
    \/ AwaitDataReady
    \/ CheckDoneReading
    \/ TakeBuffer
    \/ AcknowledgeBuffer
    \/ TakeLength
    \/ SignalFailedSend
    \/ StopSending

\* Blocking send() calls: they return when the peer or its network lets them.
PeerStep ==
    \/ SendHeader
    \/ FinishSend
    \/ FailSend

Ended == reader \in {"returned", "threw"}

Stopped == Ended /\ UNCHANGED vars

Next == ReaderStep \/ SenderStep \/ PeerStep \/ Stopped

Spec == Init /\ [][Next]_vars

\* The threads are scheduled; nothing says that a blocking send returns.
FairSpec == Spec /\ WF_vars(ReaderStep) /\ WF_vars(SenderStep)

-----------------------------------------------------------------------------
(* Properties *)

ReaderState == {"open", "header", "loop", "reading", "publish", "signal", "await",
                "check", "stop", "stopSignal", "join", "returned", "threw"}
SenderState == {"unstarted", "wait", "check", "takeBuffer", "acknowledge",
                "takeLength", "sending", "failSignal", "failStore", "exited"}

\* Every variable of StreamFile has a value of its type.
TypeOK ==
    /\ m_FilePosition \in 0 .. FileSize
    /\ buffers \in [Buffer -> Interval]
    /\ currentBufferIndex \in Buffer
    /\ bytesRead \in Nat
    /\ currentBuffer \in Buffer \cup {Uninitialised}
    /\ currentDataLength \in Nat \cup {Uninitialised}
    /\ doneReading \in BOOLEAN
    /\ doneSending \in BOOLEAN
    /\ dataReadyEvent \in BOOLEAN
    /\ bufferPtrReadEvent \in BOOLEAN
    /\ reader \in ReaderState
    /\ throwing \in BOOLEAN
    /\ sender \in SenderState
    /\ dataPtr \in Buffer \cup {Uninitialised}
    /\ sendLength \in Nat \cup {Uninitialised}
    /\ wire \in Seq(Interval)

\* The sender holds a pointer to a buffer it has not finished sending.
Holding == sender \in {"acknowledge", "takeLength", "sending"}

\* A send failed.
SendFailed == sender \in {"failSignal", "failStore"} \/ doneSending

\* ReadNextChunk never writes to the buffer that the sender was given and has
\* not finished with: the handshake on the two events keeps the two threads on
\* different buffers, whatever times out or fails.
BufferExclusion ==
    reader = "reading" =>
        /\ Holding => dataPtr # currentBufferIndex
        /\ sender = "takeBuffer" => currentBuffer # currentBufferIndex

\* send() is passed an initialised pointer and never more bytes than the read
\* into that buffer returned, although the length is read late.
SendStaysInBuffer ==
    sender = "sending" =>
        /\ dataPtr \in Buffer
        /\ sendLength \in 1 .. buffers[dataPtr].len

\* The chunks are sent in file order, none skipped and none sent twice.
ChunksInOrder ==
    \A i \in DOMAIN wire :
        wire[i].from = IF i = 1 THEN 0 ELSE wire[i - 1].from + kMaxChunkSize

\* A return that is not due to a failed send means every chunk was passed to
\* send(): neither the last chunk nor a wake-up is lost in the shutdown.
CompleteOnReturn ==
    reader = "returned" /\ ~doneSending => Sent = FileSize

\* A chunk is sent with its own length, unless its send failed or it is the
\* chunk before the last, whose length may be overwritten by the last one's.
OnlyPenultimateTruncated ==
    \A i \in DOMAIN wire :
        LET end == ChunkEnd(wire[i].from)
        IN  \/ wire[i].len = end - wire[i].from
            \/ wire[i].len = FileSize - end
            \/ i = Len(wire) /\ SendFailed

\* The stream as its connection sees it.  A failed send that the reader noticed
\* makes StreamFile return as if it had finished.
Stream == INSTANCE ChunkStream WITH
    sent <- Sent,
    broken <- SendFailed,
    outcome <- IF ~Ended THEN "streaming"
               ELSE IF reader = "threw" \/ doneSending THEN "abandoned"
               ELSE "complete"

\* StreamFile implements ChunkStream.
ImplementsChunkStream == Stream!Spec

-----------------------------------------------------------------------------
(* Liveness *)

\* Every send() returns, with success or failure.
PeerResponds == WF_vars(PeerStep)

\* StreamFile ends when the peer's side lets every send() return.
StreamFileEnds == PeerResponds => <>Ended

\* After a failed send the connection thread ends too, with no help from the
\* peer: the store of doneSending that the reader may have missed costs at most
\* the wait that times out.
FailedSendEndsStream == doneSending ~> Ended

=============================================================================
