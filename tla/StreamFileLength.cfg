SPECIFICATION Spec
CONSTANTS
    FileSize = 7
    kMaxChunkSize = 2
INVARIANT ContentLengthKept
