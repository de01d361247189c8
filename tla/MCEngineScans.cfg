SPECIFICATION EngineSpec
CONSTANTS
    Config <- TwoSources
    AllTables = AllTables
    Universe <- Relations
    Alphabet <- Names
    Holdings <- AnyContents
    Qualified <- Join
    Reads <- ReadUnquoted
    Elsewhere = Elsewhere
    Iceberg <- IcebergName
    PgTable <- PgTableName
    MyPgTable <- MyPgTableName
    Queries = {q1, q2}
    Dropped = Dropped
    MaxTables = 2
    MaxVersion = 1
    MaxRequests = 2
    Explored <- OneTableEach
SYMMETRY AnyQuery
INVARIANTS
    EngineTypeOK
    WaitsOnLiveConnection
    ReadsDuringQuery
    LossIsContained
    CanonicalNamesComplete
    BareNameGoesToFirst
    NamedUnlessTaken
    
CHECK_DEADLOCK FALSE
