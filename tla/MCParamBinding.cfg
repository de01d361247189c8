SPECIFICATION Spec
CONSTANTS
    MaxParams = 2
    PgTypes = {"UNKNOWN", "INT8", "INT4", "FLOAT8", "NUMERIC", "BYTEA"}
    ArrowTypes = {"Untyped", "Int64", "Float64", "Utf8", "Decimal128", "Binary"}
CHECK_DEADLOCK FALSE
INVARIANTS
    BindingTypeOK
    UndeclaredBindCorrectly
    DescribedIsAccepted
