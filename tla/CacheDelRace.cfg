\* The FSM goroutine applies SET/DELETE of one key while one reader clones.
CONSTANTS
    Readers = {r1}
    Writer = fsm
    Keys = {k1}
    Vals = {v1}
    Absent = Absent
SPECIFICATION Spec
INVARIANT NoConcurrentMapWrite
