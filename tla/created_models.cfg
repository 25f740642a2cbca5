SPECIFICATION Spec
CONSTANTS
    Names = {"orders", "Orders", "lines"}
    Lower <- MCLower
    Schemas = {"public"}
    DefaultSchema = "public"
    NoSchema = NoSchema
    NoTable <- MCNone
    Features = {"conditional_rename", "schema_alias", "raw_case", "raw_sql",
                "unread_sql", "unknown_table", "state_only"}
INVARIANTS
    TypeOK
    CreatedAreNew
    ExemptionSound
PROPERTY
    ImplementsFreshTables
