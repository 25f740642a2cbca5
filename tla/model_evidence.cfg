SPECIFICATION Spec
CONSTANTS
    MaxDepth = 5
    MaxExpansion = 12
    MaxClasses = 3
    MaxVisiting = 2
    Snapshots <- MCSnapshots
    ConfigFiles <- MCConfigFiles
    Statements <- MCStatements
    PlainStatements <- MCPlain
    MaxStatements = 4
    MaxFiles = 3
    MaxBytes = 3
    Tables = {"t", "u", "default"}
    Schemas = {"no schema", "s"}
    TableColumns = {"c", "x", "y", "id"}
    Column = "c"
INVARIANTS
    TypeOK
    AbsenceSound
    EvidenceFromModel
    NothingUncovered
    AbsencePrecise
