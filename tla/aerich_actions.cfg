SPECIFICATION Spec
CONSTANTS
    Frameworks = {"aerich"}
    Variables = {"ctx"}
    Calls = {}
    Statements = {}
    Readings <- MCActions
    CallReadings = {}
    Tables <- MCTables
    Helpers <- MCNoHelper
    Fold <- MCFold
    MaxDepth = 2
CHECK_DEADLOCK FALSE
INVARIANT
    ActionsSeen
