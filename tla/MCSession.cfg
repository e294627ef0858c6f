\* Three requests over streams that hold two bytes: less than a request, and
\* exactly one reply.
CONSTANTS
    kMaxLineBytes = 2
    kReadChunkBytes = 2
    Requests <- Typed
    Window = 2
    MaxRequests = 3
    MaxBytes = 15
    None = None
SPECIFICATION FairSpec
INVARIANTS RepliesMatchRequests
PROPERTIES  ImplementsConnection
