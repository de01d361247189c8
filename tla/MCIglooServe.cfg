SPECIFICATION Spec
CONSTANTS
    q = q
    u = u
    w = w
    b = b
    c1 = c1
    c2 = c2
    e1 = e1
    e2 = e2
    Keys = {q, u, w}
    ReadOnly = {q, u}
    Unencodable = {u}
    Requests <- AllRequests
    Clients = {c1, c2}
    Events = {e1, e2}
    Preexisting = {}
    Absent = Absent
    NoParams = NoParams
    NoRequest = NoRequest
    Miss = Miss
    MaxEntries = 2
    Ttl = 1
    MaxClock = 2
    MaxTick = 2
    MaxVersion = 1
SYMMETRY Interchangeable
INVARIANTS
    TypeOK
    AnswersOwnRequest
    NoEntrySurvivesSync
    OneSyncPerEvent
