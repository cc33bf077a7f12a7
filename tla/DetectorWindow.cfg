\* Two probes of one key, seven pushes (the ring of five wraps), with the
\* scavenger and raft DELETE/SET. A panic ends the process, so a state with
\* crashed = TRUE has no successor.
CONSTANTS
    Keys = {k1}
    Probes = {p1, p2}
    Outcomes = {"UP", "DOWN", "EMPTY"}
    WindowSize = 5
    MinSamples = 3
    MaxPushes = 7
    NoWindow = NoWindow
    NoKey = NoKey
SYMMETRY ProbeSymmetry
SPECIFICATION Spec
INVARIANT TypeOK
INVARIANT WindowMatchesReference
CHECK_DEADLOCK FALSE
