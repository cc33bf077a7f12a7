------------------------------- MODULE MCLRU -------------------------------
EXTENDS LRU, TLC

\* Heap cells are interchangeable: which free cell a new node takes is
\* invisible to the program.
CellSymmetry == Permutations(Nodes)

\* A free cell's stale fields are never read again (a new node overwrites
\* them), so states that differ only there are the same program state.
StateView ==
    LET Blank(f, z) == [c \in Nodes |-> IF c \in Free THEN z ELSE f[c]]
    IN  <<mp, Blank(key, Nil), Blank(value, NoVal), Blank(prev, Nil),
          Blank(next, Nil), head, tail, out, panicked>>

=============================================================================
