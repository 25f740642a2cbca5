------------------------ MODULE MigrationOperations ------------------------
(***************************************************************************)
(* The operations of src/ast/operations.rs as the extractors make them:    *)
(* type and table, the database identity of the table when it is certain,  *)
(* and what else the rules read of one: flags, or the old name of a        *)
(* renamed table.                                                          *)
(***************************************************************************)
EXTENDS Naturals, Sequences, FiniteSets, SequencesExt

NoSchema == "none"
Identity(schema, name) == [schema |-> schema, name |-> name]
NoIdentity == Identity("unknown", "unknown")

Operation(type, table, identity, detail) == [type |-> type, table |-> table, identity |-> identity, detail |-> detail]

IndexType(adds, concurrently) ==
    IF adds THEN IF concurrently THEN "AddIndexConcurrently" ELSE "AddIndex"
            ELSE IF concurrently THEN "RemoveIndexConcurrently" ELSE "RemoveIndex"

When(condition, ops) == IF condition THEN ops ELSE <<>>
Flags(condition, flag) == IF condition THEN {flag} ELSE {}
=============================================================================
