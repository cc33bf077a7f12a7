\* Stable leader with the default timing: eventInterval (60 s) is not longer
\* than the notification round trip (60 s script timeout + 1 s kill grace +
\* up to 5 s raft apply), here 2 ticks against 3.
CONSTANTS
    Nodes = {n1, n2, n3}
    Observed = {"UP", "DOWN", "EMPTY"}
    Quorum = 2
    EventInterval = 2
    ScriptTimeout = 3
    StaleAfter = 2
    MaxTime = 30
SYMMETRY NodeSymmetry
VIEW StateView
SPECIFICATION Spec
INVARIANT NotifyOncePerTransition
