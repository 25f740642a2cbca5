SPECIFICATION Spec
CONSTANTS
    Tables <- MCTables
    TableOf <- MCTableOf
    Names = {"c"}
    Features = {"savepoint", "conditional_autocommit", "begin_in_autocommit", "schema_alias", "end"}
INVARIANTS
    TypeOK
    TracksOpenTransaction
    ValidationSound
PROPERTY
    ValidationPrecise
