SPECIFICATION SuiteSpec
CONSTANTS
    ta = ta tb = tb kx = kx s1 = s1 s2 = s2 s3 = s3 NoSnap = NoSnap
    Truncate = Truncate None = None Off = Off
    Workers = {1, 2} Spans = {s1, s2, s3} Chunk = 2 Slots = 1 MayPanic = TRUE
    Writers = {1, 2} Modes <- Races MaxEvolve = 1
    MaxRows = 4 MaxFiles = 3 Tries = 2 MaxStalls = 2
SYMMETRY Symmetry
INVARIANTS
    PublishesWhole
    WholeVersion
    IceOnce
    StagedExactly
PROPERTIES
    SuccessIsExact
