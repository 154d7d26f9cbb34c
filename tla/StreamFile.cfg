SPECIFICATION FairSpec
CONSTANTS
    FileSize = 7
    kMaxChunkSize = 2
INVARIANTS
    IInv
    BufferExclusion
    SendStaysInBuffer
    CompleteOnReturn
    OnlyPenultimateTruncated
PROPERTIES
    ImplementsChunkStream
    StreamFileEnds
    FailedSendEndsStream
