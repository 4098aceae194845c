SPECIFICATION Spec
CONSTANTS
    Settings <- TheSettings
    Queries <- TheQueries
    Answers <- TheAnswers
    Routed <- TheRouted
    MaxCalls = 3
CHECK_DEADLOCK FALSE
PROPERTIES
    FramesAreWhole
