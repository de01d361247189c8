SPECIFICATION Spec
CONSTANTS
    MaxParams = 2
    PgTypes = {"UNKNOWN", "FLOAT8", "INT8"}
    ArrowTypes = {"Int64"}
CHECK_DEADLOCK FALSE
INVARIANT DeclaredTypesWin
