SPECIFICATION Spec
CONSTANTS
    Frameworks = {"alembic"}
    Variables = {"ctx"}
    Calls = {}
    Statements = {}
    Readings = {}
    CallReadings <- MCDisplaced
    Tables <- MCTables
    Helpers = {}
    Fold <- MCFold
    MaxDepth = 2
CHECK_DEADLOCK FALSE
INVARIANT
    PlacesAside
