SPECIFICATION SuiteSpec
CONSTANTS
    Off = Off
    Servers = {"a", "b"} Members = {1, 2} Worlds <- GroupWorlds
    MaxRuns = 3 MaxClears = 1 MaxResets = 1 MaxPurges = 1
    LeaseKeys = {1, 2} Collectors = {"c"} Ttl = 4 Pause = 1 MaxTime = 7 MaxUnits = 1
INVARIANTS
    Faithful
    Whole
    NoLateWrite
    ValuesAgree
