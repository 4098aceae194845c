SPECIFICATION FairSpec
CONSTANTS
    PoolSize = 4
    Data = {d1, d2}
    Zero = d1
INVARIANTS
    TypeOK
    WellFormed
PROPERTIES
    RemovesEveryOccurrence
    RefusesOnlyWhenFull
    ImplementsFifo
    CallsReturn
