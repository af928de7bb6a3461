SPECIFICATION Spec
CONSTANTS
    Runs = {r1, r2}
    Tables = {t1, t2}
    NoRun = NoRun
    Depth = 1
    MaxWal = 3
    Faults = {"stream", "unit", "load", "source"}
SYMMETRY Symmetry
INVARIANTS
    Exact
PROPERTIES
    SuccessIsDurable
    ConfirmsApplied
    IsMirror
