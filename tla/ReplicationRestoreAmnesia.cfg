CONSTANTS
    Servers = {r1, r2}
    Worlds = {"UP", "DOWN"}
    EventInterval = 2
    ScriptTimeout = 2
    MaxTime = 4
    MaxLog = 6
    MaxRestarts = 1
    MaxElections = 2
    ApplyTimeouts = FALSE
    NoLeader = NoLeader
SPECIFICATION Spec
SYMMETRY ServerSymmetry
VIEW StateView

PROPERTY NotifiedBeforeRecorded
CHECK_DEADLOCK FALSE
