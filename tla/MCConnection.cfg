\* Every stream of up to five bytes, cut up in every way into reads of one or two:
\* a read may bring two lines, or less than one.
CONSTANTS
    kMaxLineBytes = 2
    kReadChunkBytes = 2
    MaxBytes = 5
SPECIFICATION FairSpec
INVARIANTS FramingIsExact  BufferIsBounded
PROPERTIES NoLineIsStuck
