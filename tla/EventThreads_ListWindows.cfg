SPECIFICATION FairSpec
CONSTANTS
    EventNum = 2
    PoolSize = 3
    Messages <- TwoMessages
    MaxAccepted = 2
    SwitchPoints <- OutsideEventWindow
CHECK_DEADLOCK FALSE
PROPERTIES
    EveryMessageHandled
