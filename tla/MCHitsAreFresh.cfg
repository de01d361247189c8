SPECIFICATION Spec
CONSTANTS
    q = q
    u = u
    w = w
    b = b
    c1 = c1
    c2 = c2
    e1 = e1
    Keys = {q, u, w}
    ReadOnly = {q, u}
    Unencodable = {u}
    Requests <- QueryRequests
    Clients = {c1, c2}
    Events = {e1}
    Preexisting = {}
    Absent = Absent
    NoParams = NoParams
    NoRequest = NoRequest
    Miss = Miss
    MaxEntries = 1
    Ttl = 1
    MaxClock = 0
    MaxTick = 3
    MaxVersion = 1
PROPERTY
    HitsAreFresh
