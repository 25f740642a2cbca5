SPECIFICATION Spec
CONSTANTS
    Migrations <- MCMigrations
    Configs <- MCConfigs
INVARIANTS
    TypeOK
    HazardsReported
    ReportsJustified
