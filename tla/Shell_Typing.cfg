SPECIFICATION FairSpec
CONSTANTS
    Chars <- Keys
    Size = 2
    BLANK = "blank"
    ERASE = "erase"
    CR = "cr"
    EOT = "eot"
    SHELL_MAX_LINE_LEN = 5
    SHELL_MAX_ARGUMENTS = 1
    Commands <- Table
    ON <- OnWord
    OFF <- OffWord
    Inputs <- AllInputs
CHECK_DEADLOCK FALSE
INVARIANTS
    TypeOK
    RunsWhatWasTyped
PROPERTIES
    ImplementsSerialQueue
    InputIsConsumed
