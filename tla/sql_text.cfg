SPECIFICATION Spec
CONSTANT Names = {"orders"}
INVARIANTS
    TypeOK
    StatementsSeen
