SPECIFICATION Spec
CONSTANTS
    Base = 7
    Nmax = 4
    Unroll = 3
    ByteMax = 3
    Half = 8
    Word = 64
    MaxLen = 13
INVARIANTS NoWrap InsideData Checksum
