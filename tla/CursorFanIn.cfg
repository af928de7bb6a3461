SPECIFICATION CursorSpec
CONSTANTS
    Sources = {a, b}
    Runs = {r1}
    Setups <- FanInSetups
    MaxRow = 3
    MaxStarts = 3
    MaxDeaths = 0
    None = None
    Refused = Refused
CHECK_DEADLOCK FALSE
INVARIANT Complete
