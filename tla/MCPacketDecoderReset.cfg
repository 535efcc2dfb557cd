CONSTANTS
    m1 = m1
    m2 = m2
    Corrupt = Corrupt
    NoByte = NoByte
    HeaderSize = 3
    Frames <- MCFrames
    MaxChunk <- MCMaxChunk

SPECIFICATION ReuseSpec

INVARIANT NoCorruptFrame

CHECK_DEADLOCK FALSE
