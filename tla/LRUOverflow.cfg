\* Capacity 3, as test() in lru.go builds it, with 4 keys: a Get of the head
\* followed by a Get of the node behind it drops a node off the prev chain
\* from the tail, and that key is never evicted again.
CONSTANTS
    Keys = {k1, k2, k3, k4}
    Vals = {v1}
    Cap = 3
    Nodes = {c1, c2, c3, c4, c5, c6}
    Nil = Nil
    NoVal = NoVal
SYMMETRY CellSymmetry
VIEW StateView
SPECIFICATION Spec
INVARIANT SizeWithinCap
