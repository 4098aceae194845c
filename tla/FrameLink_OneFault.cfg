SPECIFICATION Spec
CONSTANTS
    EventNum = 1
    Streams <- AllStreams
    MaxFaults = 1
    NoiseBytes <- SomeNoise
INVARIANTS
    TypeOK
    IntactFramesArriveUntilOverrun
    ContentsAreGenuine
    NeverOverruns
PROPERTIES
    ImplementsLossyLink
