\* A DELETE of the key and a scavenger pass while a probe is between Ping
\* and Phi.
CONSTANTS
    Keys = {k1}
    Probes = {p1, p2}
    Outcomes = {"UP", "DOWN", "EMPTY"}
    WindowSize = 5
    MinSamples = 3
    MaxPushes = 7
    NoWindow = NoWindow
    NoKey = NoKey
SYMMETRY ProbeSymmetry
SPECIFICATION Spec
INVARIANT NoPhiOnDeletedWindow
