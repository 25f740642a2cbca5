SPECIFICATION Spec
CONSTANTS
    Frameworks = {"alembic", "aerich"}
    Variables = {"ctx"}
    Calls <- MCCalls
    Statements <- MCStatements
    Readings <- MCReadings
    CallReadings <- MCCallReadings
    Tables <- MCTables
    Helpers <- MCHelpers
    Fold <- MCFold
    MaxDepth = 2
CONSTRAINT Followed
CHECK_DEADLOCK FALSE
INVARIANTS
    TypeOK
    
    AutocommitSound
    SupportedSeen
    IdentityExact
