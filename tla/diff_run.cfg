CONSTANTS
    Commits <- MCCommits
    NoCommit = none
    Migrations = {1, 2}
    Others = {3}
    Tree <- MCTree
    Models <- MCModels
    Configured = {0, 1, 3, 4}
    MergeBase <- MCMergeBase
    Selections <- MCSelections
    MaxMoves = 1
SPECIFICATION Spec
INVARIANTS TypeOK QuietVerdict NothingSkipped OneEvidence DropsAuthorised StagedReadsOneTree
PROPERTY Terminates
CHECK_DEADLOCK FALSE
