SPECIFICATION Spec
CONSTANTS
    Config <- TwoSources
    AllTables = AllTables
    Universe <- Relations
    Alphabet <- Names
    Holdings <- Undotted
    Qualified <- Join
    Reads <- ReadUnquoted
    Elsewhere = Elsewhere
    Iceberg <- IcebergName
    PgTable <- PgTableName
    MyPgTable <- MyPgTableName
PROPERTY
    CollisionsAreBroken
CHECK_DEADLOCK FALSE
