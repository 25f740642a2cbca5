SPECIFICATION Spec
CONSTANTS
    Variables = {"SQL", "OPS"}
    Values <- MCValues
    Operations <- MCOperations
    Readings <- MCReadings
    Nodes <- MCNodes
    Spelled <- MCSpelled
    Symbols <- MCSymbols
INVARIANTS
    TypeOK
    SqlExact
    CallsUnderstood
    ArmsJudged
