CONSTANTS
    Servers = {r1, r2}
    Worlds = {"UP", "DOWN"}
    EventInterval = 2
    ScriptTimeout = 2
    MaxTime = 4
    MaxLog = 6
    MaxRestarts = 0
    MaxElections = 2
    ApplyTimeouts = FALSE
    NoLeader = NoLeader
SPECIFICATION Spec
SYMMETRY ServerSymmetry
VIEW StateView

INVARIANT NotifyOnce
CHECK_DEADLOCK FALSE
