SPECIFICATION Spec
CONSTANTS
    Depth = 3
    FileConfigs <- MCFileConfigs
    Clis <- MCClis
    Rules = {"R1", "R2"}
    Files = {"a", "b"}
    Layout = {"a"}
    ArgumentLists <- MCArgumentLists
    Max = 1
    NewTypes = {"regular", "link", "directory", "absent"}
    MaxWrites = 2
CHECK_DEADLOCK FALSE
INVARIANTS
    TypeOK
    ConfigInBounds
    NearestConfig
    QuietMeansChecked
    ReadSound
PROPERTY
    Terminates
