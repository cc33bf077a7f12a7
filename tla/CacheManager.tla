---------------------------- MODULE CacheManager ----------------------------
(***************************************************************************)
(* cacheManager (cache.go): the replicated key -> value table behind its    *)
(* sync.RWMutex. The FSM goroutine applies SET and DELETE (FSM.Apply) and  *)
(* Restore (UnMarshal); reader goroutines (scavenger and makeGossip1       *)
(* Clone, quorum Get, http Marshal) read under RLock.                      *)
(*                                                                         *)
(* A map operation is split into its start and end so that two goroutines *)
(* inside the map at once are visible: Go's runtime aborts the process on  *)
(* a map write that overlaps any other access.                             *)
(***************************************************************************)
EXTENDS Naturals, FiniteSets

CONSTANTS
    Readers,   \* goroutines that only read the table
    Writer,    \* the FSM goroutine applying raft log entries
    Keys,
    Vals,
    Absent     \* model value: no entry for the key

Procs == Readers \cup {Writer}

VARIABLES data, writer, readers, pc, op

vars == <<data, writer, readers, pc, op>>

\* The tables UnMarshal can decode: any key -> value map.
Tables == [Keys -> Vals \cup {Absent}]

\* pc: "idle" -> "locked" (lock held) -> "inside" (in the map) -> "locked"
\* -> "idle"; op is the map operation the goroutine performs. A read is
\* Get, GetKey, Clone, Marshal or MarshalForKey; a restore is UnMarshal's
\* c.data = newData, after its decode outside the lock.
Ops == [kind : {"read"}, key : Keys, val : {Absent}]
        \cup [kind : {"set"}, key : Keys, val : Vals]
        \cup [kind : {"del"}, key : Keys, val : {Absent}]
        \cup [kind : {"restore"}, table : Tables]

TypeOK ==
    /\ data \in Tables
    /\ writer \in BOOLEAN
    /\ readers \subseteq Procs
    /\ pc \in [Procs -> {"idle", "locked", "inside"}]
    /\ op \in [Procs -> Ops]

\* The lock a method takes: Set and UnMarshal take Lock; Get, Clone,
\* Marshal and also Del take RLock.
TakesWriteLock(o) == o.kind \in {"set", "restore"}

IsWrite(o) == o.kind # "read"

Init ==
    /\ data = [k \in Keys |-> Absent]
    /\ writer = FALSE
    /\ readers = {}
    /\ pc = [p \in Procs |-> "idle"]
    /\ op = [p \in Procs |-> [kind |-> "read", key |-> CHOOSE k \in Keys : TRUE, val |-> Absent]]

\* A goroutine calls a method: Lock waits for no holder, RLock for no writer.
Acquire(p, o) ==
    /\ pc[p] = "idle"
    /\ p \in Readers => o.kind = "read"
    /\ ~writer
    /\ IF TakesWriteLock(o)
       THEN readers = {} /\ writer' = TRUE /\ UNCHANGED readers
       ELSE readers' = readers \cup {p} /\ UNCHANGED writer
    /\ pc' = [pc EXCEPT ![p] = "locked"]
    /\ op' = [op EXCEPT ![p] = o]
    /\ UNCHANGED data

\* The map access starts ...
EnterMap(p) ==
    /\ pc[p] = "locked"
    /\ pc' = [pc EXCEPT ![p] = "inside"]
    /\ UNCHANGED <<data, writer, readers, op>>

\* ... and ends, with c.data[key] = value, delete(c.data, key) or
\* c.data = newData.
LeaveMap(p) ==
    /\ pc[p] = "inside"
    /\ data' = CASE op[p].kind = "restore" -> op[p].table
                  [] op[p].kind \in {"set", "del"} -> [data EXCEPT ![op[p].key] = op[p].val]
                  [] OTHER -> data
    /\ pc' = [pc EXCEPT ![p] = "locked"]
    /\ UNCHANGED <<writer, readers, op>>

\* The deferred Unlock / RUnlock.
Release(p) ==
    /\ pc[p] = "locked"
    /\ IF TakesWriteLock(op[p])
       THEN writer' = FALSE /\ UNCHANGED readers
       ELSE readers' = readers \ {p} /\ UNCHANGED writer
    /\ pc' = [pc EXCEPT ![p] = "idle"]
    /\ UNCHANGED <<data, op>>

Next ==
    \E p \in Procs :
        \/ \E o \in Ops : Acquire(p, o)
        \/ EnterMap(p)
        \/ LeaveMap(p)
        \/ Release(p)

Spec == Init /\ [][Next]_vars

-----------------------------------------------------------------------------
\* No goroutine writes the map while another one is inside it: the lock
\* discipline of cacheManager excludes the "concurrent map read and map
\* write" fatal error of the Go runtime.
NoConcurrentMapWrite ==
    \A p, q \in Procs :
        (p # q /\ pc[p] = "inside" /\ pc[q] = "inside") => ~IsWrite(op[p])

=============================================================================
