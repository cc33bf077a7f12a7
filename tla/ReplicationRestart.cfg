CONSTANTS
    Servers = {r1, r2}
    Worlds = {"UP"}
    EventInterval = 2
    ScriptTimeout = 2
    MaxTime = 3
    MaxLog = 3
    MaxRestarts = 1
    MaxElections = 2
    ApplyTimeouts = TRUE
    NoLeader = NoLeader
SPECIFICATION Spec
SYMMETRY ServerSymmetry
VIEW StateView
INVARIANT TypeOK CmFollowsLog
CHECK_DEADLOCK FALSE
