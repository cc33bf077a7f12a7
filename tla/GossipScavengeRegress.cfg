\* Three nodes, one of them publishing two observations that the others
\* relay; two transmits per broadcast; membership may flap and packets may
\* be lost or reordered (two packets in flight at once).
CONSTANTS
    Nodes = {n1, n2, n3}
    Origins = {n1}
    Statuses = {"UP", "DOWN"}
    MaxTs = 2
    MaxInFlight = 2
    TransmitLimit = 2
    Absent = Absent
SYMMETRY RelaySymmetry
SPECIFICATION Spec
INVARIANT SlotNeverRegresses
