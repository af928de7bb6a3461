SPECIFICATION Spec
CONSTANTS
    sa = sa sb = sb r1 = r1 r2 = r2 r3 = r3 q1 = q1 q2 = q2 t1 = t1 t2 = t2 t3 = t3 w1 = w1 w2 = w2
    None = None Refused = Refused Absent = Absent Null = Null Off = Off
    Sources <- TwoSources Runs <- TwoRuns Setups <- LoadSetups MaxRow = 3 MaxStarts = 4 MaxDeaths = 1
SYMMETRY Symmetry
CHECK_DEADLOCK FALSE
INVARIANTS
    CursorExact
    BqExactly
    ReadsExact
    Peak
PROPERTIES
    OnlySwapsErase
