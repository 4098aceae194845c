SPECIFICATION Spec
CONSTANTS
    PeerFrames <- AnyFrames
    BufferSize = 2
    ReplySize = 2
    WaitTimes = 1
    MaxFrames = 3
CHECK_DEADLOCK FALSE
PROPERTIES
    EveryFrameIsReceived
