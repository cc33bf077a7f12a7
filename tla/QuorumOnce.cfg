\* Stable leader; a notification round trip (script + result record) ends
\* before eventInterval reopens the gate.
CONSTANTS
    Nodes = {n1, n2, n3}
    Observed = {"UP", "DOWN", "EMPTY"}
    Quorum = 2
    EventInterval = 2
    ScriptTimeout = 2
    StaleAfter = 2
    MaxTime = 30
SYMMETRY NodeSymmetry
VIEW StateView
SPECIFICATION Spec
INVARIANT TypeOK
INVARIANT NotifyOncePerTransition
INVARIANT RecordedMatchesDecided
