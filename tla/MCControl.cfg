SPECIFICATION Spec
CONSTANTS
    READ_BUFFER_BYTES = 2
    MAX_REQUEST_BYTES = 2
    MAX_FRAME_FDS = 2
    Segments <- MCSegments
    MaxSegments = 3
INVARIANTS
    MemoryBounded
    ResponsesFollowFrames
    FramesAreLines
    SocketsMatchVms
PROPERTIES
    RequestsAnswered
