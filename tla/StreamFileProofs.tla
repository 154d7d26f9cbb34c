-------------------------- MODULE StreamFileProofs --------------------------
(***************************************************************************)
(* Proofs about StreamFile, for every file size and chunk size: IInv is    *)
(* inductive, so the safety properties hold in every reachable state, and  *)
(* every step of StreamFile is a step or a stutter of ChunkStream.         *)
(***************************************************************************)
EXTENDS StreamFileInvariant, SequenceTheorems, TLAPS

\* Chunks are not empty, stay within the file, and only the last may be short.
LEMMA ChunkEndFacts ==
    ASSUME NEW p \in Nat, p <= FileSize
    PROVE  /\ ChunkEnd(p) \in p .. FileSize
           /\ ChunkEnd(p) - p \in 0 .. kMaxChunkSize
           /\ p < FileSize => p < ChunkEnd(p)
           /\ ChunkEnd(p) < FileSize => ChunkEnd(p) = p + kMaxChunkSize
BY FileSizeAssumption, ChunkSizeAssumption DEF ChunkEnd

\* Sent and Given are positions of the file.
LEMMA PositionTypes ==
    ASSUME TypeOK
    PROVE  /\ Sent \in 0 .. FileSize
           /\ Given \in 0 .. FileSize
<1>1. Sent \in 0 .. FileSize
  <2>1. CASE wire = <<>>
    BY <2>1, FileSizeAssumption DEF Sent
  <2>2. CASE wire # <<>>
    <3>1. wire[Len(wire)] \in Interval
      BY <2>2 DEF TypeOK
    <3> QED BY <2>2, <3>1, FileSizeAssumption, ChunkSizeAssumption
            DEF Sent, ChunkEnd, Interval
  <2> QED BY <2>1, <2>2
<1>2. ChunkEnd(Sent) \in 0 .. FileSize
  BY <1>1, FileSizeAssumption, ChunkSizeAssumption DEF ChunkEnd
<1> QED BY <1>1, <1>2 DEF Given

\* What appending the chunk in the sender's hand does to the wire.
LEMMA TransmitFacts ==
    ASSUME TypeOK, SenderHolds, sender = "sending", NEW n \in Nat, Transmit(n)
    PROVE  /\ wire' \in Seq(Interval)
           /\ Len(wire') = Len(wire) + 1
           /\ \A i \in 1 .. Len(wire) : wire'[i] = wire[i]
           /\ wire'[Len(wire) + 1] = [from |-> Sent, len |-> n]
           /\ Sent' = ChunkEnd(Sent)
           /\ Sent < FileSize
<1> DEFINE segment == [from |-> buffers[dataPtr].from, len |-> n]
<1>1. /\ dataPtr \in Buffer
      /\ buffers[dataPtr].from = Sent
      /\ Sent < FileSize
  BY DEF SenderHolds, Holding, HoldsChunk
<1>2. segment \in Interval
  BY <1>1, PositionTypes DEF Interval
<1>3. /\ wire' = Append(wire, segment)
      /\ wire \in Seq(Interval)
  BY DEF Transmit, TypeOK
<1> HIDE DEF segment
<1>4. /\ wire' \in Seq(Interval)
      /\ Len(wire') = Len(wire) + 1
      /\ \A i \in 1 .. Len(wire) : wire'[i] = wire[i]
      /\ wire'[Len(wire) + 1] = segment
  BY <1>2, <1>3
<1>5. wire' # <<>>
  BY <1>3, <1>4
<1>6. segment = [from |-> Sent, len |-> n]
  BY <1>1 DEF segment
<1> QED BY <1>1, <1>4, <1>5, <1>6 DEF Sent, ChunkEnd

-----------------------------------------------------------------------------
(* Each conjunct of IInv is preserved *)

\* The type invariant needs SenderHolds: the sender dereferences dataPtr.
LEMMA TypeOKStep ==
    ASSUME TypeOK, SenderHolds, Next
    PROVE  TypeOK'
<1> USE DEF TypeOK, ReaderState, SenderState, Buffer, kBufferCount, Uninitialised,
            readerVars, senderVars, sharedVars, eventVars
<1>1. CASE OpenFile \/ SendHeader \/ ReachEndOfFile \/ JoinSender
  BY <1>1 DEF OpenFile, SendHeader, ReachEndOfFile, JoinSender
<1>2. CASE BeginReadNextChunk
  BY <1>2, FileSizeAssumption DEF BeginReadNextChunk, Torn, Interval
<1>3. CASE FinishReadNextChunk
  <2>1. /\ m_FilePosition' = ChunkEnd(m_FilePosition)
        /\ ChunkEnd(m_FilePosition) \in 0 .. FileSize
        /\ ChunkEnd(m_FilePosition) - m_FilePosition \in Nat
    BY <1>3, FileSizeAssumption, ChunkEndFacts DEF FinishReadNextChunk
  <2>2. buffers' \in [Buffer -> Interval]
    BY <1>3, <2>1, FileSizeAssumption DEF FinishReadNextChunk, Interval
  <2> QED BY <1>3, <2>1, <2>2 DEF FinishReadNextChunk
<1>4. CASE FailReadNextChunk \/ TimeOut
  BY <1>4 DEF FailReadNextChunk, TimeOut
<1>5. CASE Publish \/ StopReading \/ StopSending
  <2>1. CASE Publish  BY <2>1 DEF Publish
  <2>2. CASE StopReading  BY <2>2 DEF StopReading
  <2>3. CASE StopSending  BY <2>3 DEF StopSending
  <2> QED BY <1>5, <2>1, <2>2, <2>3
<1>6. CASE SignalDataReady \/ AwaitBufferPtrRead \/ SignalStop
  <2>1. CASE SignalDataReady  BY <2>1 DEF SignalDataReady
  <2>2. CASE AwaitBufferPtrRead
    <3>1. bufferPtrReadEvent' \in BOOLEAN /\ reader' \in ReaderState
      BY <2>2 DEF AwaitBufferPtrRead
    <3>2. UNCHANGED <<dataReadyEvent, readerVars, senderVars, sharedVars, sender>>
      BY <2>2 DEF AwaitBufferPtrRead
    <3> QED BY <3>1, <3>2
  <2>3. CASE SignalStop  BY <2>3 DEF SignalStop
  <2> QED BY <1>6, <2>1, <2>2, <2>3
<1>7. CASE AwaitDataReady \/ AcknowledgeBuffer \/ SignalFailedSend
  <2>1. CASE AwaitDataReady
    <3>1. dataReadyEvent' \in BOOLEAN /\ sender' \in SenderState
      BY <2>1 DEF AwaitDataReady
    <3>2. UNCHANGED <<bufferPtrReadEvent, readerVars, senderVars, sharedVars, reader>>
      BY <2>1 DEF AwaitDataReady
    <3> QED BY <3>1, <3>2
  <2>2. CASE AcknowledgeBuffer  BY <2>2 DEF AcknowledgeBuffer
  <2>3. CASE SignalFailedSend  BY <2>3 DEF SignalFailedSend
  <2> QED BY <1>7, <2>1, <2>2, <2>3
<1>8. CASE CheckDoneSending
  BY <1>8 DEF CheckDoneSending
<1>9. CASE CheckDoneReading \/ TakeBuffer \/ TakeLength
  BY <1>9 DEF CheckDoneReading, TakeBuffer, TakeLength
<1>10. CASE FinishSend
  <2>1. sendLength \in Nat
    BY <1>10, FileSizeAssumption DEF FinishSend, SenderHolds, Holding
  <2>2. wire' \in Seq(Interval)
    BY <1>10, <2>1, TransmitFacts DEF FinishSend
  <2> QED BY <1>10, <2>2 DEF FinishSend
<1>11. CASE FailSend
  <2>1. sendLength \in Nat
    BY <1>11, FileSizeAssumption DEF FailSend, SenderHolds, Holding
  <2>2. wire' \in Seq(Interval)
    <3>1. CASE wire' = wire
      BY <3>1
    <3>2. CASE \E n \in 1 .. sendLength - 1 : Transmit(n)
      <4>1. PICK n \in 1 .. sendLength - 1 : Transmit(n)
        BY <3>2
      <4>2. n \in Nat /\ sender = "sending"
        BY <1>11, <2>1 DEF FailSend
      <4> QED BY <4>1, <4>2, TransmitFacts
    <3> QED BY <1>11, <3>1, <3>2 DEF FailSend
  <2> QED BY <1>11, <2>2 DEF FailSend
<1>12. CASE Stopped
  BY <1>12 DEF Stopped, vars
<1> QED BY <1>1, <1>2, <1>3, <1>4, <1>5, <1>6, <1>7, <1>8, <1>9, <1>10, <1>11, <1>12
        DEF Next, ReaderStep, SenderStep, PeerStep

LEMMA LifecycleStep ==
    ASSUME IInv, Next
    PROVE  Lifecycle'
<1> USE DEF IInv, Lifecycle, Ended, Stopping, TypeOK, SenderHolds, Holding,
            readerVars, senderVars, sharedVars, eventVars
<1>1. CASE ReaderStep
  BY <1>1 DEF ReaderStep, OpenFile, BeginReadNextChunk, FinishReadNextChunk,
     FailReadNextChunk, Publish, SignalDataReady, AwaitBufferPtrRead, TimeOut,
     CheckDoneSending, ReachEndOfFile, StopReading, SignalStop, JoinSender
<1>2. CASE SenderStep
  BY <1>2 DEF SenderStep, AwaitDataReady, CheckDoneReading, TakeBuffer,
     AcknowledgeBuffer, TakeLength, SignalFailedSend, StopSending
<1>3. CASE PeerStep
  BY <1>3 DEF PeerStep, SendHeader, FinishSend, FailSend
<1>4. CASE Stopped
  BY <1>4 DEF Stopped, vars
<1> QED BY <1>1, <1>2, <1>3, <1>4 DEF Next

\* The steps that leave the wire as it is leave Sent as it is.
LEMMA SentUnchanged ==
    ASSUME UNCHANGED wire
    PROVE  Sent' = Sent
BY DEF Sent, ChunkEnd

\* A full chunk is followed by one that is no longer than it.
LEMMA SenderHoldsStep ==
    ASSUME IInv, Next
    PROVE  SenderHolds'
<1> USE DEF IInv, SenderHolds, Holding, HoldsChunk, TypeOK,
            readerVars, senderVars, sharedVars, eventVars
<1>1. CASE \/ OpenFile \/ SendHeader \/ FailReadNextChunk \/ SignalDataReady
           \/ AwaitBufferPtrRead \/ TimeOut \/ CheckDoneSending \/ ReachEndOfFile
           \/ StopReading \/ SignalStop \/ JoinSender
  BY <1>1, SentUnchanged DEF OpenFile, SendHeader, FailReadNextChunk, SignalDataReady,
     AwaitBufferPtrRead, TimeOut, CheckDoneSending, ReachEndOfFile, StopReading,
     SignalStop, JoinSender
<1>2. CASE BeginReadNextChunk
  BY <1>2, SentUnchanged DEF BeginReadNextChunk, ReaderAhead, Producing, SendFailed, Lifecycle
<1>3. CASE FinishReadNextChunk
  BY <1>3, SentUnchanged DEF FinishReadNextChunk, ReaderAhead, Producing, SendFailed, Lifecycle
<1>4. CASE Publish
  <2>1. ASSUME Holding  PROVE ~SendFailed
    BY <2>1 DEF SendFailed, Lifecycle
  <2>2. ASSUME Holding
        PROVE  /\ currentDataLength' = ChunkEnd(Given) - Given
               /\ Given = ChunkEnd(Sent)
               /\ Given < FileSize
    BY <1>4, <2>1, <2>2 DEF Publish, ReaderAhead, Given
  <2>3. ASSUME Holding
        PROVE  /\ ChunkEnd(Given) - Given \in 1 .. kMaxChunkSize
               /\ ChunkEnd(Given) - Given \in {kMaxChunkSize, FileSize - ChunkEnd(Sent)}
               /\ buffers[dataPtr].len = kMaxChunkSize
    <3>1. /\ Sent \in 0 .. FileSize
          /\ Given \in 0 .. FileSize
          /\ buffers[dataPtr].len = ChunkEnd(Sent) - Sent
      BY <2>3, PositionTypes
    <3>2. ChunkEnd(Sent) = Sent + kMaxChunkSize
      BY <2>2, <2>3, <3>1, ChunkEndFacts, FileSizeAssumption
    <3>3. ChunkEnd(Given) \in {Given + kMaxChunkSize, FileSize}
      BY DEF ChunkEnd
    <3>4. ChunkEnd(Given) - Given \in 1 .. kMaxChunkSize
      BY <2>2, <2>3, <3>1, ChunkEndFacts, FileSizeAssumption, ChunkSizeAssumption
    <3> QED BY <2>2, <2>3, <3>1, <3>2, <3>3, <3>4, FileSizeAssumption, ChunkSizeAssumption
  <2> QED BY <1>4, <2>2, <2>3, SentUnchanged DEF Publish
<1>5. CASE AwaitDataReady \/ CheckDoneReading \/ AcknowledgeBuffer \/ TakeLength
           \/ SignalFailedSend \/ StopSending
  BY <1>5, SentUnchanged DEF AwaitDataReady, CheckDoneReading, AcknowledgeBuffer, TakeLength,
     SignalFailedSend, StopSending
<1>6. CASE TakeBuffer
  <2>1. /\ currentBuffer \in Buffer
        /\ HoldsChunk(currentBuffer, Sent)
        /\ currentDataLength = buffers[currentBuffer].len
    BY <1>6 DEF TakeBuffer, PendingChunk, Pending, SendFailed, Lifecycle, Given
  <2>2. buffers[currentBuffer].len \in 1 .. kMaxChunkSize
    <3>1. Sent \in 0 .. FileSize
      BY PositionTypes
    <3> QED BY <2>1, <3>1, ChunkEndFacts, FileSizeAssumption, ChunkSizeAssumption
  <2> QED BY <1>6, <2>1, <2>2, SentUnchanged DEF TakeBuffer
<1>7. CASE FinishSend \/ FailSend \/ Stopped
  BY <1>7, SentUnchanged DEF FinishSend, FailSend, Stopped, vars
<1> QED BY <1>1, <1>2, <1>3, <1>4, <1>5, <1>6, <1>7
        DEF Next, ReaderStep, SenderStep, PeerStep

\* Only SignalDataReady makes a chunk pending, and the reader waits from then
\* on: nothing changes the chunk before the sender takes it.
LEMMA PendingChunkStep ==
    ASSUME IInv, Next
    PROVE  PendingChunk'
<1> USE DEF IInv, PendingChunk, Pending, SendFailed, Holding, HoldsChunk, Given,
            Stopping, Lifecycle, ReaderAhead, Producing,
            readerVars, senderVars, sharedVars, eventVars
<1>1. CASE OpenFile \/ SendHeader \/ BeginReadNextChunk \/ ReachEndOfFile
  BY <1>1, SentUnchanged DEF OpenFile, SendHeader, BeginReadNextChunk, ReachEndOfFile
<1>2. CASE FinishReadNextChunk \/ FailReadNextChunk \/ Publish
  BY <1>2, SentUnchanged DEF FinishReadNextChunk, FailReadNextChunk, Publish
<1>3. CASE SignalDataReady
  BY <1>3, SentUnchanged DEF SignalDataReady
<1>4. CASE AwaitBufferPtrRead \/ TimeOut \/ CheckDoneSending
  BY <1>4, SentUnchanged DEF AwaitBufferPtrRead, TimeOut, CheckDoneSending
<1>5. CASE StopReading \/ SignalStop \/ JoinSender
  BY <1>5, SentUnchanged DEF StopReading, SignalStop, JoinSender
<1>6. CASE SenderStep
  BY <1>6, SentUnchanged DEF SenderStep, AwaitDataReady, CheckDoneReading, TakeBuffer,
     AcknowledgeBuffer, TakeLength, SignalFailedSend, StopSending,
     UnacknowledgedChunk
<1>7. CASE FinishSend
  <2>1. sendLength \in Nat
    BY <1>7, FileSizeAssumption DEF FinishSend, SenderHolds, TypeOK
  <2>2. Sent' = ChunkEnd(Sent)
    BY <1>7, <2>1, TransmitFacts DEF FinishSend
  <2>3. Given' = Given
    BY <1>7, <2>2 DEF FinishSend
  <2>4. UNCHANGED <<readerVars, sharedVars, eventVars, reader>> /\ ~Holding'
    BY <1>7 DEF FinishSend
  <2>5. Pending' => Pending
    BY <1>7, <2>4 DEF FinishSend
  <2> QED BY <1>7, <2>3, <2>4, <2>5 DEF FinishSend, ChunkEnd
<1>8. CASE FailSend \/ Stopped
  BY <1>8, SentUnchanged DEF FailSend, Stopped, vars
<1> QED BY <1>1, <1>2, <1>3, <1>4, <1>5, <1>6, <1>7, <1>8 DEF Next, ReaderStep, PeerStep

\* Between TakeBuffer and AcknowledgeBuffer the reader can only give up.
LEMMA UnacknowledgedChunkStep ==
    ASSUME IInv, Next
    PROVE  UnacknowledgedChunk'
<1> USE DEF IInv, UnacknowledgedChunk, Pending, SendFailed, Holding, HoldsChunk,
            Given, Stopping, Lifecycle, readerVars, senderVars, sharedVars, eventVars
<1>1. CASE ReaderStep
  BY <1>1, SentUnchanged DEF ReaderAhead, Producing, ReaderStep, OpenFile, BeginReadNextChunk, FinishReadNextChunk,
     FailReadNextChunk, Publish, SignalDataReady, AwaitBufferPtrRead, TimeOut,
     CheckDoneSending, ReachEndOfFile, StopReading, SignalStop, JoinSender
<1>2. CASE SenderStep
  BY <1>2, SentUnchanged DEF PendingChunk, SenderStep, AwaitDataReady, CheckDoneReading, TakeBuffer,
     AcknowledgeBuffer, TakeLength, SignalFailedSend, StopSending
<1>3. CASE PeerStep \/ Stopped
  BY <1>3, SentUnchanged DEF PeerStep, SendHeader, FinishSend, FailSend, Stopped, vars
<1> QED BY <1>1, <1>2, <1>3 DEF Next

LEMMA ReaderAheadStep ==
    ASSUME IInv, Next
    PROVE  ReaderAhead'
<1> USE DEF IInv, ReaderAhead, Producing, Pending, SendFailed, Holding, Given,
            Stopping, Lifecycle, readerVars, senderVars, sharedVars, eventVars
<1>1. CASE OpenFile \/ SendHeader
  BY <1>1, SentUnchanged DEF OpenFile, SendHeader, Sent
<1>2. CASE BeginReadNextChunk \/ ReachEndOfFile
  BY <1>2, SentUnchanged DEF BeginReadNextChunk, ReachEndOfFile
<1>3. CASE FinishReadNextChunk
  <2> DEFINE end == ChunkEnd(m_FilePosition)
  <2>1. /\ m_FilePosition < FileSize
        /\ currentBufferIndex \in Buffer
        /\ DOMAIN buffers = Buffer
    BY <1>3, FileSizeAssumption DEF FinishReadNextChunk, TypeOK
  <2>2. /\ buffers'[currentBufferIndex] =
              [from |-> m_FilePosition, len |-> end - m_FilePosition]
        /\ bytesRead' = end - m_FilePosition
        /\ m_FilePosition' = end
    BY <1>3, <2>1 DEF FinishReadNextChunk, TypeOK
  <2>3. reader' = "publish"
    BY <1>3 DEF FinishReadNextChunk
  <2>4. UNCHANGED <<currentBufferIndex, throwing, senderVars, sharedVars, eventVars, sender>>
    BY <1>3 DEF FinishReadNextChunk
  <2>5. Given' = Given
    BY <2>4, SentUnchanged DEF ChunkEnd
  <2>6. ~SendFailed => m_FilePosition = Given
    BY <1>3 DEF FinishReadNextChunk
  <2>7. ~SendFailed => HoldsChunk(currentBufferIndex, Given)'
    BY <2>1, <2>2, <2>4, <2>5, <2>6 DEF HoldsChunk, ChunkEnd
  <2> QED BY <1>3, <2>1, <2>2, <2>3, <2>4, <2>5, <2>6, <2>7 DEF FinishReadNextChunk, ChunkEnd
<1>4. CASE FailReadNextChunk \/ Publish
  BY <1>4, SentUnchanged DEF FailReadNextChunk, Publish, HoldsChunk
<1>5. CASE SignalDataReady
  BY <1>5, SentUnchanged DEF SignalDataReady
<1>6. CASE AwaitBufferPtrRead \/ TimeOut
  BY <1>6, SentUnchanged DEF AwaitBufferPtrRead, TimeOut, PendingChunk, UnacknowledgedChunk
<1>7. CASE CheckDoneSending
  BY <1>7, SentUnchanged DEF CheckDoneSending, TypeOK, Buffer, kBufferCount
<1>8. CASE StopReading \/ SignalStop \/ JoinSender
  BY <1>8, SentUnchanged DEF StopReading, SignalStop, JoinSender
<1>9. CASE SenderStep
  BY <1>9, SentUnchanged DEF PendingChunk, UnacknowledgedChunk, HoldsChunk,
     SenderStep, AwaitDataReady, CheckDoneReading, TakeBuffer,
     AcknowledgeBuffer, TakeLength, SignalFailedSend, StopSending
<1>10. CASE FinishSend
  <2>1. sendLength \in Nat
    BY <1>10, FileSizeAssumption DEF FinishSend, SenderHolds, TypeOK
  <2>2. Sent' = ChunkEnd(Sent)
    BY <1>10, <2>1, TransmitFacts DEF FinishSend
  <2>3. Given' = Given
    BY <1>10, <2>2 DEF FinishSend
  <2>4. UNCHANGED <<readerVars, sharedVars, eventVars, reader>> /\ ~Holding'
    BY <1>10 DEF FinishSend
  <2>5. /\ Pending' <=> Pending
        /\ ~SendFailed /\ ~SendFailed'
    BY <1>10, <2>4 DEF FinishSend
  <2> QED BY <1>10, <2>3, <2>4, <2>5 DEF FinishSend, ChunkEnd, HoldsChunk
<1>11. CASE FailSend \/ Stopped
  BY <1>11, SentUnchanged DEF FailSend, Stopped, vars
<1> QED BY <1>1, <1>2, <1>3, <1>4, <1>5, <1>6, <1>7, <1>8, <1>9, <1>10, <1>11
        DEF Next, ReaderStep, PeerStep

\* When the reader leaves the loop without an error, the sender has been given
\* the last chunk.
LEMMA ReaderDoneStep ==
    ASSUME IInv, Next
    PROVE  ReaderDone'
<1> USE DEF IInv, ReaderDone, Pending, SendFailed, Holding, Given, Stopping,
            Lifecycle, readerVars, senderVars, sharedVars, eventVars
<1>1. CASE ReaderStep
  BY <1>1, SentUnchanged DEF ReaderAhead, Producing, ReaderStep, OpenFile, BeginReadNextChunk, FinishReadNextChunk,
     FailReadNextChunk, Publish, SignalDataReady, AwaitBufferPtrRead, TimeOut,
     CheckDoneSending, ReachEndOfFile, StopReading, SignalStop, JoinSender
<1>2. CASE SenderStep
  BY <1>2, SentUnchanged DEF PendingChunk, UnacknowledgedChunk, SenderStep, AwaitDataReady, CheckDoneReading, TakeBuffer,
     AcknowledgeBuffer, TakeLength, SignalFailedSend, StopSending
<1>3. CASE FinishSend
  <2>1. sendLength \in Nat
    BY <1>3, FileSizeAssumption DEF FinishSend, SenderHolds, TypeOK
  <2>2. Sent' = ChunkEnd(Sent)
    BY <1>3, <2>1, TransmitFacts DEF FinishSend
  <2>3. Given' = Given
    BY <1>3, <2>2 DEF FinishSend
  <2> QED BY <1>3, <2>3 DEF FinishSend
<1>4. CASE SendHeader \/ FailSend \/ Stopped
  BY <1>4, SentUnchanged DEF SendHeader, FailSend, Stopped, vars
<1> QED BY <1>1, <1>2, <1>3, <1>4 DEF Next, PeerStep

\* The wire grows by the chunk that follows its last one.
LEMMA TransmitInOrder ==
    ASSUME TypeOK, SenderHolds, sender = "sending", ChunksInOrder,
           NEW n \in Nat, Transmit(n)
    PROVE  ChunksInOrder'
<1>1. /\ Len(wire') = Len(wire) + 1
      /\ \A i \in 1 .. Len(wire) : wire'[i] = wire[i]
      /\ wire'[Len(wire) + 1] = [from |-> Sent, len |-> n]
      /\ Sent < FileSize
      /\ wire' \in Seq(Interval)
  BY TransmitFacts
<1>2. /\ Len(wire) \in Nat
      /\ DOMAIN wire = 1 .. Len(wire)
      /\ DOMAIN wire' = 1 .. Len(wire) + 1
      /\ \A i \in 1 .. Len(wire) : wire[i] \in Interval
  BY <1>1 DEF TypeOK
<1>3. SUFFICES ASSUME NEW i \in 1 .. Len(wire) + 1
               PROVE  wire'[i].from = IF i = 1 THEN 0 ELSE wire'[i - 1].from + kMaxChunkSize
  BY <1>2 DEF ChunksInOrder
<1>4. CASE i \in 1 .. Len(wire)
  <2>1. wire'[i] = wire[i] /\ (i # 1 => wire'[i - 1] = wire[i - 1])
    BY <1>1, <1>2, <1>4
  <2> QED BY <1>2, <1>4, <2>1 DEF ChunksInOrder
<1>5. CASE i = Len(wire) + 1 /\ Len(wire) = 0
  BY <1>1, <1>5 DEF Sent
<1>6. CASE i = Len(wire) + 1 /\ Len(wire) # 0
  <2>1. wire[Len(wire)].from \in Nat
    BY <1>2, <1>6 DEF Interval
  <2>2. Sent = ChunkEnd(wire[Len(wire)].from)
    BY <1>1, <1>6 DEF Sent
  <2>3. Sent = wire[Len(wire)].from + kMaxChunkSize
    BY <1>1, <2>1, <2>2 DEF ChunkEnd
  <2> QED BY <1>1, <1>2, <1>6, <2>3
<1> QED BY <1>2, <1>4, <1>5, <1>6

LEMMA ChunksInOrderStep ==
    ASSUME IInv, Next
    PROVE  ChunksInOrder'
<1>1. CASE FinishSend
  <2>1. sendLength \in Nat /\ sender = "sending" /\ Transmit(sendLength)
    BY <1>1, FileSizeAssumption DEF IInv, FinishSend, SenderHolds, Holding, TypeOK
  <2> QED BY <2>1, TransmitInOrder DEF IInv
<1>2. CASE FailSend /\ wire' # wire
  <2>1. sendLength \in Nat /\ sender = "sending"
    BY <1>2, FileSizeAssumption DEF IInv, FailSend, SenderHolds, Holding, TypeOK
  <2>2. PICK n \in 1 .. sendLength - 1 : Transmit(n)
    BY <1>2 DEF FailSend
  <2> QED BY <2>1, <2>2, TransmitInOrder DEF IInv
<1>3. CASE UNCHANGED wire
  BY <1>3 DEF IInv, ChunksInOrder
<1>4. ReaderStep \/ SenderStep \/ SendHeader \/ Stopped => UNCHANGED wire
  BY DEF senderVars, Stopped, vars, SendHeader, ReaderStep, OpenFile, BeginReadNextChunk, FinishReadNextChunk,
     FailReadNextChunk, Publish, SignalDataReady, AwaitBufferPtrRead, TimeOut,
     CheckDoneSending, ReachEndOfFile, StopReading, SignalStop, JoinSender,
     SenderStep, AwaitDataReady, CheckDoneReading, TakeBuffer,
     AcknowledgeBuffer, TakeLength, SignalFailedSend, StopSending
<1> QED BY <1>1, <1>2, <1>3, <1>4 DEF Next, PeerStep

\* A chunk whose send fails may end anywhere; any other has its own length or
\* that of the last chunk.
LEMMA TransmitTruncated ==
    ASSUME TypeOK, Lifecycle, SenderHolds, sender = "sending", OnlyPenultimateTruncated,
           NEW n \in Nat, Transmit(n),
           SendFailed => SendFailed',
           \/ n \in {buffers[dataPtr].len, FileSize - ChunkEnd(Sent)}
           \/ SendFailed'
    PROVE  OnlyPenultimateTruncated'
<1>1. /\ Len(wire') = Len(wire) + 1
      /\ \A i \in 1 .. Len(wire) : wire'[i] = wire[i]
      /\ wire'[Len(wire) + 1] = [from |-> Sent, len |-> n]
      /\ wire' \in Seq(Interval)
  BY TransmitFacts
<1>2. /\ Len(wire) \in Nat
      /\ DOMAIN wire = 1 .. Len(wire)
      /\ DOMAIN wire' = 1 .. Len(wire) + 1
  BY <1>1 DEF TypeOK
<1>3. buffers[dataPtr].len = ChunkEnd(Sent) - Sent
  BY DEF SenderHolds, Holding, HoldsChunk
<1>4. ~SendFailed
  BY DEF SendFailed, Lifecycle
<1>5. SUFFICES ASSUME NEW i \in 1 .. Len(wire) + 1
               PROVE  \/ wire'[i].len = ChunkEnd(wire'[i].from) - wire'[i].from
                      \/ wire'[i].len = FileSize - ChunkEnd(wire'[i].from)
                      \/ i = Len(wire') /\ SendFailed'
  BY <1>2 DEF OnlyPenultimateTruncated, ChunkEnd
<1>6. CASE i \in 1 .. Len(wire)
  BY <1>1, <1>2, <1>4, <1>6 DEF OnlyPenultimateTruncated
<1>7. CASE i = Len(wire) + 1
  BY <1>1, <1>3, <1>7
<1> QED BY <1>2, <1>6, <1>7

LEMMA OnlyPenultimateTruncatedStep ==
    ASSUME IInv, Next
    PROVE  OnlyPenultimateTruncated'
<1>1. CASE FinishSend
  <2>1. /\ sendLength \in Nat
        /\ sender = "sending"
        /\ Transmit(sendLength)
        /\ sendLength \in {buffers[dataPtr].len, FileSize - ChunkEnd(Sent)}
    BY <1>1, FileSizeAssumption DEF IInv, FinishSend, SenderHolds, Holding, TypeOK
  <2> QED BY <2>1, TransmitTruncated DEF IInv, SendFailed, Lifecycle
<1>2. CASE FailSend /\ wire' # wire
  <2>1. sendLength \in Nat /\ sender = "sending" /\ SendFailed'
    BY <1>2, FileSizeAssumption
       DEF IInv, FailSend, SenderHolds, Holding, TypeOK, SendFailed
  <2>2. PICK n \in 1 .. sendLength - 1 : Transmit(n)
    BY <1>2 DEF FailSend
  <2> QED BY <2>1, <2>2, TransmitTruncated DEF IInv
<1>3. CASE UNCHANGED wire
  <2>1. SendFailed => SendFailed'
    BY DEF IInv, Lifecycle, SendFailed, Next, PeerStep, Stopped, vars, sharedVars,
       senderVars, readerVars, eventVars, SendHeader, FinishSend, FailSend,
       ReaderStep, OpenFile, BeginReadNextChunk, FinishReadNextChunk,
     FailReadNextChunk, Publish, SignalDataReady, AwaitBufferPtrRead, TimeOut,
     CheckDoneSending, ReachEndOfFile, StopReading, SignalStop, JoinSender,
       SenderStep, AwaitDataReady, CheckDoneReading, TakeBuffer,
     AcknowledgeBuffer, TakeLength, SignalFailedSend, StopSending
  <2> QED BY <1>3, <2>1 DEF IInv, OnlyPenultimateTruncated, ChunkEnd
<1>4. ReaderStep \/ SenderStep \/ SendHeader \/ Stopped => UNCHANGED wire
  BY DEF senderVars, Stopped, vars, SendHeader, ReaderStep, OpenFile, BeginReadNextChunk, FinishReadNextChunk,
     FailReadNextChunk, Publish, SignalDataReady, AwaitBufferPtrRead, TimeOut,
     CheckDoneSending, ReachEndOfFile, StopReading, SignalStop, JoinSender,
     SenderStep, AwaitDataReady, CheckDoneReading, TakeBuffer,
     AcknowledgeBuffer, TakeLength, SignalFailedSend, StopSending
<1> QED BY <1>1, <1>2, <1>3, <1>4 DEF Next, PeerStep

-----------------------------------------------------------------------------
(* The theorems *)

LEMMA InitIInv == Init => IInv
BY FileSizeAssumption, ChunkSizeAssumption
   DEF Init, IInv, TypeOK, ReaderState, SenderState, Buffer, kBufferCount, Uninitialised,
       Torn, Interval, Lifecycle, SenderHolds, PendingChunk, UnacknowledgedChunk,
       ReaderAhead, ReaderDone, ChunksInOrder, OnlyPenultimateTruncated, Holding,
       Pending, Producing, Stopping, SendFailed, Ended

LEMMA NextIInv == IInv /\ [Next]_vars => IInv'
<1> SUFFICES ASSUME IInv, [Next]_vars  PROVE IInv'
  OBVIOUS
<1>1. CASE Next
  <2>1. TypeOK'
    BY <1>1, TypeOKStep DEF IInv
  <2> QED BY <1>1, <2>1, LifecycleStep, SenderHoldsStep, PendingChunkStep,
             UnacknowledgedChunkStep, ReaderAheadStep, ReaderDoneStep,
             ChunksInOrderStep, OnlyPenultimateTruncatedStep DEF IInv
<1>2. CASE UNCHANGED vars
  <2> USE <1>2 DEF vars, readerVars, senderVars, sharedVars, eventVars, IInv
  <2>1. Sent' = Sent /\ Given' = Given
    BY SentUnchanged DEF Given, Holding, ChunkEnd
  <2>2. TypeOK' /\ Lifecycle'
    BY DEF TypeOK, Lifecycle, Ended, Stopping
  <2>3. SenderHolds' /\ PendingChunk' /\ UnacknowledgedChunk'
    BY <2>1 DEF SenderHolds, PendingChunk, UnacknowledgedChunk, HoldsChunk, ChunkEnd,
                Holding, Pending, Stopping, SendFailed
  <2>4. ReaderAhead' /\ ReaderDone'
    BY <2>1 DEF ReaderAhead, ReaderDone, HoldsChunk, ChunkEnd, Holding, Pending,
                Producing, Stopping, SendFailed
  <2>5. ChunksInOrder' /\ OnlyPenultimateTruncated'
    BY DEF ChunksInOrder, OnlyPenultimateTruncated, ChunkEnd, SendFailed
  <2> QED BY <2>2, <2>3, <2>4, <2>5
<1> QED BY <1>1, <1>2

\* Every reachable state satisfies the inductive invariant.
THEOREM Invariance == Spec => []IInv
<1>1. Init => IInv
  BY InitIInv
<1>2. IInv /\ [Next]_vars => IInv'
  BY NextIInv
<1> QED BY <1>1, <1>2, PTL DEF Spec

\* Every variable of StreamFile keeps its type.
THEOREM TypeCorrect == Spec => []TypeOK
<1>1. IInv => TypeOK
  BY DEF IInv
<1> QED BY <1>1, Invariance, PTL

\* The reader never overwrites the buffer that the sender was given, for any
\* file: the two buffers and the two events of StreamFile are enough.
THEOREM BuffersExclusive == Spec => []BufferExclusion
<1>1. IInv => BufferExclusion
  BY DEF IInv, BufferExclusion, Lifecycle, PendingChunk, ReaderAhead, Pending,
         Producing, Stopping, SendFailed, Holding
<1> QED BY <1>1, Invariance, PTL

\* send() never gets more bytes than were read into the buffer it is given.
THEOREM SendsStayInBuffer == Spec => []SendStaysInBuffer
<1>1. IInv => SendStaysInBuffer
  BY DEF IInv, SendStaysInBuffer, SenderHolds, Holding
<1> QED BY <1>1, Invariance, PTL

\* Chunks are sent in file order, none skipped and none twice.
THEOREM SendsChunksInOrder == Spec => []ChunksInOrder
<1>1. IInv => ChunksInOrder
  BY DEF IInv
<1> QED BY <1>1, Invariance, PTL

\* The late read of the length can shorten the chunk before the last only.
THEOREM TruncatesOnlyPenultimate == Spec => []OnlyPenultimateTruncated
<1>1. IInv => OnlyPenultimateTruncated
  BY DEF IInv
<1> QED BY <1>1, Invariance, PTL

LEMMA ReturnFacts ==
    ASSUME IInv
    PROVE  CompleteOnReturn
BY DEF IInv, CompleteOnReturn, ReaderDone, Lifecycle, Ended, Stopping, SendFailed,
       Holding, Given

\* A return without a failed send means that every chunk was sent.
THEOREM ReturnsComplete == Spec => []CompleteOnReturn
<1>1. IInv => CompleteOnReturn
  BY ReturnFacts
<1> QED BY <1>1, Invariance, PTL

-----------------------------------------------------------------------------
(* Refinement *)

LEMMA InitRefines == Init => Stream!Init
BY DEF Init, Stream!Init, Sent, SendFailed, Ended

LEMMA StepRefines ==
    ASSUME IInv, Next
    PROVE  [Stream!Next]_(Stream!vars)
<1> USE DEF Stream!Next, Stream!Send, Stream!Break, Stream!Complete, Stream!Abandon,
            Stream!vars, Ended, SendFailed
<1>1. CASE OpenFile
  BY <1>1, SentUnchanged DEF OpenFile, readerVars, senderVars, sharedVars, IInv, Lifecycle
<1>2. CASE JoinSender
  <2>1. UNCHANGED <<wire, sender, doneSending>> /\ sender = "exited" /\ reader = "join"
    BY <1>2 DEF JoinSender, senderVars, sharedVars
  <2>2. Sent' = Sent
    BY <2>1, SentUnchanged
  <2>3. CASE throwing \/ doneSending
    BY <1>2, <2>1, <2>2, <2>3 DEF JoinSender
  <2>4. CASE ~throwing /\ ~doneSending
    <3>1. Sent = FileSize
      BY <2>1, <2>4 DEF IInv, ReaderDone, Stopping, Holding, Given
    <3> QED BY <1>2, <2>1, <2>2, <2>4, <3>1 DEF JoinSender
  <2> QED BY <2>3, <2>4
<1>3. CASE FinishSend
  <2>1. /\ sendLength \in Nat
        /\ sender = "sending"
        /\ Transmit(sendLength)
        /\ UNCHANGED <<reader, doneSending>>
        /\ sender' = "wait"
    BY <1>3, FileSizeAssumption
       DEF IInv, FinishSend, SenderHolds, Holding, TypeOK, sharedVars
  <2>2. Sent' = ChunkEnd(Sent) /\ Sent < FileSize
    BY <2>1, TransmitFacts DEF IInv
  <2>4. Sent # FileSize
    BY <2>2, PositionTypes, FileSizeAssumption DEF IInv
  <2>3. ~doneSending /\ ~Ended
    BY <2>1 DEF IInv, Lifecycle
  <2> QED BY <2>1, <2>2, <2>3, <2>4 DEF ChunkEnd, Stream!ChunkEnd
<1>4. CASE FailSend
  <2>1. /\ sendLength \in Nat
        /\ sender = "sending"
        /\ UNCHANGED <<reader, doneSending>>
        /\ sender' = "failSignal"
    BY <1>4, FileSizeAssumption
       DEF IInv, FailSend, SenderHolds, Holding, TypeOK, sharedVars
  <2>2. Sent' \in {Sent, ChunkEnd(Sent)}
    <3>1. CASE wire' = wire
      BY <3>1, SentUnchanged
    <3>2. CASE \E n \in 1 .. sendLength - 1 : Transmit(n)
      <4>1. PICK n \in 1 .. sendLength - 1 : Transmit(n)
        BY <3>2
      <4>2. n \in Nat
        BY <2>1
      <4> QED BY <2>1, <4>1, <4>2, TransmitFacts DEF IInv
    <3> QED BY <1>4, <3>1, <3>2 DEF FailSend
  <2>3. ~doneSending /\ ~Ended
    BY <2>1 DEF IInv, Lifecycle
  <2>4. Sent # FileSize
    BY <2>1, PositionTypes, FileSizeAssumption
       DEF IInv, SenderHolds, Holding, HoldsChunk
  <2> QED BY <2>1, <2>2, <2>3, <2>4 DEF ChunkEnd, Stream!ChunkEnd
<1>5. CASE ReaderStep /\ ~OpenFile /\ ~JoinSender
  <2>1. UNCHANGED <<wire, sender, doneSending>> /\ ~Ended /\ ~Ended'
    BY <1>5 DEF senderVars, sharedVars, readerVars, ReaderStep, OpenFile, BeginReadNextChunk, FinishReadNextChunk,
     FailReadNextChunk, Publish, SignalDataReady, AwaitBufferPtrRead, TimeOut,
     CheckDoneSending, ReachEndOfFile, StopReading, SignalStop, JoinSender
  <2> QED BY <2>1, SentUnchanged
<1>6. CASE SenderStep
  <2>1. /\ UNCHANGED <<wire, reader>>
        /\ SendFailed' <=> SendFailed
        /\ doneSending' # doneSending => ~Ended
    BY <1>6 DEF IInv, Lifecycle, senderVars, sharedVars, readerVars, SenderStep, AwaitDataReady, CheckDoneReading, TakeBuffer,
     AcknowledgeBuffer, TakeLength, SignalFailedSend, StopSending
  <2> QED BY <2>1, SentUnchanged
<1>7. CASE SendHeader
  <2>1. UNCHANGED <<wire, doneSending>> /\ ~Ended /\ ~Ended' /\ sender' = "wait"
    BY <1>7 DEF SendHeader, senderVars, sharedVars
  <2>2. sender = "unstarted"
    BY <1>7 DEF SendHeader, IInv, Lifecycle
  <2> QED BY <2>1, <2>2, SentUnchanged
<1>8. CASE Stopped
  BY <1>8, SentUnchanged DEF Stopped, vars, senderVars, sharedVars
<1> QED BY <1>1, <1>2, <1>3, <1>4, <1>5, <1>6, <1>7, <1>8 DEF Next, PeerStep

\* StreamFile implements ChunkStream: seen from its connection, the chunks go out
\* in order, nothing follows a failed send, and "complete" means complete.
THEOREM Refinement == Spec => ImplementsChunkStream
<1>1. Init => Stream!Init
  BY InitRefines
<1>2. IInv /\ [Next]_vars => [Stream!Next]_(Stream!vars)
  <2>1. ASSUME IInv, Next  PROVE [Stream!Next]_(Stream!vars)
    BY <2>1, StepRefines
  <2>2. ASSUME UNCHANGED vars  PROVE UNCHANGED Stream!vars
    BY <2>2, SentUnchanged
       DEF vars, senderVars, sharedVars, Stream!vars, SendFailed, Ended
  <2> QED BY <2>1, <2>2
<1> QED BY <1>1, <1>2, Invariance, PTL DEF Spec, ImplementsChunkStream, Stream!Spec

=============================================================================
