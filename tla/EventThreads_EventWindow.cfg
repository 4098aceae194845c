SPECIFICATION Spec
CONSTANTS
    EventNum = 2
    PoolSize = 3
    Messages <- TwoMessages
    MaxAccepted = 3
    SwitchPoints <- OutsideListWindows
CHECK_DEADLOCK FALSE
INVARIANTS
    HandledInOrder
