SPECIFICATION FairSpec
CONSTANTS
    vehicle = vehicle
    phone = phone
    Devices <- Both
    Acknowledges <- Phone
    UserSettings <- Settings
    UserQueries <- Queries
    EventNum = 1
    MaxCommands = 3
    MaxLost = 1
INVARIANTS
    TypeOK
    RefusesOnlyAfterFailure
PROPERTIES
    ComesToRest
