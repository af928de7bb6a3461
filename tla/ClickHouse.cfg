SPECIFICATION SuiteSpec
CONSTANTS
    c1 = c1 c2 = c2 k1 = k1 k2 = k2 m1 = m1 m2 = m2 n1 = n1 n2 = n2 lock = lock mrk = mrk
    p1 = p1 p2 = p2
    None = None Hole = Hole Absent = Absent Off = Off
    Collectors <- TwoCollectors
    Ttl = 2
    MaxTime = 5
    Bias = 10
    Markers = {lock, mrk}
    Peers = {p1, p2}
    MaxFaults = 3
    MaxDeletes = 2
    NodesOf <- OneServerOrTwo
    Buffers = {1, 2, 3}
    BodyCap = 2
    MaxOutages = 3
    Groups <- OneTableOrTwo
    TTL = 3
    Margin = 1
    Stmts = 2
    Parts = 2
    FenceTime = 4
    Windows = 2
SYMMETRY Symmetry
CHECK_DEADLOCK FALSE
INVARIANTS
    TakenIsCollected
    Converged
    NothingOrphaned
    NeverTorn
PROPERTIES
    WholeWindows
