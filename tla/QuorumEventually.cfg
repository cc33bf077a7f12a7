\* Stable leader, three nodes reporting UP or DOWN, under the fairness of
\* the periodic loops. No symmetry: it is unsound with per-node fairness.
CONSTANTS
    Nodes = {n1, n2, n3}
    Observed = {"UP", "DOWN"}
    Quorum = 2
    EventInterval = 2
    ScriptTimeout = 2
    StaleAfter = 2
    MaxTime = 30
VIEW StateView
SPECIFICATION FairSpec
PROPERTY StableRecorded
