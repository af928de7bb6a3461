SPECIFICATION Spec
CONSTANTS
    d1 = d1 d2 = d2 s1 = s1 i1 = i1 i2 = i2 i3 = i3 t1 = t1 r1 = r1 r2 = r2 g1 = g1 g2 = g2
    NoRun = NoRun Off = Off
SYMMETRY Symmetry
CHECK_DEADLOCK FALSE
INVARIANTS
    ExclusiveLanes
    LossHarmless
