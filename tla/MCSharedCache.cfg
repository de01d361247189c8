SPECIFICATION Spec
CONSTANTS
    k1 = k1
    k2 = k2
    k3 = k3
    p1 = p1
    p2 = p2
    b1 = b1
    b2 = b2
    Keys = {k1, k2, k3}
    Threads = {p1, p2}
    Batches = {b1, b2}
    Miss = Miss
    Idle = Idle
    MaxEntries = 2
    Ttl = 1
    MaxClock = 2
    MaxTick = 4
SYMMETRY Symmetry
INVARIANTS
    TypeOK
    CapacityBound
    RecencyStamps
    CounterConservation
PROPERTY
    ImplementsRecencyCache
