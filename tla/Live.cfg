SPECIFICATION FairSpec
CONSTANTS
    g1 = g1 r1 = r1 r2 = r2 p1 = p1 p2 = p2 x1 = x1 x2 = x2 b1 = b1 b2 = b2 b3 = b3 w1 = w1
    w2 = w2 lock = lock mrk = mrk q1 = q1 d1 = d1 d2 = d2 NoRun = NoRun Nil = Nil Off = Off
CHECK_DEADLOCK FALSE
PROPERTIES
    RunsEnd
    LoadsEnd
    DeadAreCleared
