SPECIFICATION SuiteSpec
CONSTANTS
    x1 = x1 x2 = x2 x3 = x3 y1 = y1 y2 = y2 None = None Off = Off
    Silence = 5 Latency = 2 DrainMax = 2 Versions = {"v2b", "v2", "v1", "none"}
    MaxFrames = 2 MaxBusy = 6 MaxMsgs = 4
    Named <- Spellings
SYMMETRY Symmetry
INVARIANTS
    AppliedUpToWatermark
    ConfirmedApplied
    ProvenBeforeReady
    CopiedWhole
