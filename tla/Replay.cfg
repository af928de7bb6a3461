SPECIFICATION Spec
CONSTANTS
    k1 = k1 k2 = k2 k3 = k3 None = None Hole = Hole Vacant = Vacant Off = Off
SYMMETRY Symmetry
CHECK_DEADLOCK FALSE
INVARIANTS
    CollapseConverges
    LogFaithful
    CurrentTrue
PROPERTIES
    CollapseExact
