CONSTANTS
    d1 = d1  c1 = c1  s1 = s1  t1 = t1  t2 = t2  NoRun = NoRun
    Runs <- ThreeRuns
    Kind <- OneDrain
    Source <- OneSource
    Targets <- GroupOfTwo
    Parent <- Bootstrap
    Tables = {t1, t2}
    Faults = {"create", "undo", "drop"}
SPECIFICATION Spec
CHECK_DEADLOCK FALSE
INVARIANT NoWedge
