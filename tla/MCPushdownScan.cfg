SPECIFICATION Spec
CONSTANTS
    RowIds = {r1, r2}
    Columns = {"n", "s", "u"}
    A = A  b = b  lo = lo  up = up  bad = bad  nan = nan  far = far
    Values <- ValueSet
    Null = Null  None = None
    Strings = {A, b, lo, up, bad}
    Unprintable = {nan}
    Uncastable <- UncastableUuids
    Undecodable = {far}
    PgRank <- PgOrder
    ArrowRank <- ArrowOrder
    Tables <- AllTables
    Filters <- AllFilters
    Limits <- LimitSet
CHECK_DEADLOCK FALSE
INVARIANTS
    TypeOK
    SupersetFetched
    SameAnswer
    OnlyNeededRows
