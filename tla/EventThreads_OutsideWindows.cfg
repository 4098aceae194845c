SPECIFICATION FairSpec
CONSTANTS
    EventNum = 2
    PoolSize = 3
    Messages <- TwoMessages
    MaxAccepted = 4
    SwitchPoints <- OutsideWindows
INVARIANTS
    TypeOK
    HandledInOrder
    NothingLeaks
PROPERTIES
    EveryMessageHandled
