SPECIFICATION FairSpec
CONSTANTS
    FileSize = 5
    kMaxChunkSize = 2
PROPERTY TimeoutThrows
