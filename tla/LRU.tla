--------------------------------- MODULE LRU ---------------------------------
(***************************************************************************)
(* The doubly linked LRU cache of lru.go.  Nodes is a set of heap cells;  *)
(* their key, value, prev and next fields are functions of the cell, and   *)
(* Nil is the nil pointer.  A new node takes a cell that no live pointer   *)
(* reaches: the garbage collector's reuse of memory is invisible to Go.  Get and Put run *)
(* whole under the cache's mutex, so each is one step.  A write through a  *)
(* nil pointer panics, which ends the program: the step sets panicked and  *)
(* nothing runs after it.                                                  *)
(***************************************************************************)
EXTENDS Naturals, FiniteSets, Sequences

CONSTANTS Keys, Vals, Cap, Nodes, Nil, NoVal

ASSUME Cap \in Nat \ {0}

VARIABLES mp, key, value, prev, next, head, tail, out, panicked

vars == <<mp, key, value, prev, next, head, tail, out, panicked>>

Ptr == Nodes \cup {Nil}

\* The cells some live pointer reaches, and the ones free for a new node.
RECURSIVE Closure(_, _)
Closure(S, fuel) ==
    LET T == (S \cup {prev[n] : n \in S} \cup {next[n] : n \in S}) \ {Nil}
    IN  IF T = S \/ fuel = 0 THEN S ELSE Closure(T, fuel - 1)

Live == Closure(({head, tail} \cup {mp[k] : k \in Keys}) \ {Nil},
                Cardinality(Nodes))

Free == Nodes \ Live

TypeOK ==
    /\ mp \in [Keys -> Ptr]
    /\ key \in [Nodes -> Keys \cup {Nil}]
    /\ value \in [Nodes -> Vals \cup {NoVal}]
    /\ prev \in [Nodes -> Ptr] /\ next \in [Nodes -> Ptr]
    /\ head \in Ptr /\ tail \in Ptr
    /\ out \in (Vals \cup {NoVal}) \X BOOLEAN
    /\ panicked \in BOOLEAN
    /\ \A n \in Live : key[n] \in Keys /\ value[n] \in Vals

\* The pointer fields as one record, so that a handler's statements can be
\* applied one after the other; panic records a write through nil.
Heap == [mp |-> mp, prev |-> prev, next |-> next, head |-> head,
         tail |-> tail, panic |-> FALSE]

\* n.next = m and n.prev = m.
SetNext(h, n, m) ==
    IF h.panic THEN h
    ELSE IF n = Nil THEN [h EXCEPT !.panic = TRUE] ELSE [h EXCEPT !.next[n] = m]
SetPrev(h, n, m) ==
    IF h.panic THEN h
    ELSE IF n = Nil THEN [h EXCEPT !.panic = TRUE] ELSE [h EXCEPT !.prev[n] = m]

\* removeAndInsert: unlink node (nothing when it is the head), then link it
\* in front of the head.
removeAndInsert(h, n) ==
    LET p == h.prev[n]
        x == h.next[n]
        h1 == CASE n = h.head -> h
                [] n = h.tail -> SetNext([h EXCEPT !.tail = p], p, Nil)
                [] OTHER ->
                     LET u == SetPrev(SetNext(h, p, x), x, p)
                     IN  IF u.panic THEN u
                         ELSE [u EXCEPT !.prev[n] = Nil, !.next[n] = Nil]
        h2 == SetPrev(SetNext(h1, n, h1.head), h1.head, n)
    IN  IF h2.panic THEN h2 ELSE [h2 EXCEPT !.head = n]

\* delTail: forget the tail's key and make its predecessor the tail.
delTail(h) ==
    IF h.tail = Nil THEN [h EXCEPT !.panic = TRUE]
    ELSE LET t == h.tail
         IN  SetNext([h EXCEPT !.mp[key[t]] = Nil, !.tail = h.prev[t]],
                     h.prev[t], Nil)

\* len(c.mp)
Size(m) == Cardinality({k \in Keys : m[k] # Nil})

\* len(c.mp) >= c.cap
Full(m) == Size(m) >= Cap

\* The end of a handler: its pointer writes take effect, with the other
\* variables it sets, unless it panicked.
Commit(h, key2, value2, out2) ==
    IF h.panic
    THEN /\ panicked' = TRUE
         /\ UNCHANGED <<mp, key, value, prev, next, head, tail, out>>
    ELSE /\ mp' = h.mp /\ prev' = h.prev /\ next' = h.next
         /\ head' = h.head /\ tail' = h.tail
         /\ key' = key2 /\ value' = value2 /\ out' = out2
         /\ UNCHANGED panicked

Init ==
    /\ mp = [k \in Keys |-> Nil]
    /\ key = [n \in Nodes |-> Nil]
    /\ value = [n \in Nodes |-> NoVal]
    /\ prev = [n \in Nodes |-> Nil]
    /\ next = [n \in Nodes |-> Nil]
    /\ head = Nil /\ tail = Nil
    /\ out = <<NoVal, FALSE>>
    /\ panicked = FALSE

\* Get: a held key returns its value and moves to the front.
Get(k) ==
    /\ ~panicked
    /\ IF mp[k] # Nil
       THEN Commit(removeAndInsert(Heap, mp[k]), key, value,
                   <<value[mp[k]], TRUE>>)
       ELSE /\ out' = <<NoVal, FALSE>>
            /\ UNCHANGED <<mp, key, value, prev, next, head, tail, panicked>>

\* Put into an empty list: the new node is head and tail.
PutFirst(k, v) ==
    /\ ~panicked
    /\ head = Nil
    /\ Free # {}
    /\ LET f == CHOOSE c \in Free : TRUE
       IN  Commit([Heap EXCEPT !.head = f, !.tail = f, !.mp[k] = f],
                  [key EXCEPT ![f] = k], [value EXCEPT ![f] = v], out)

\* Put of a held key: new value, moved to the front.
PutHeld(k, v) ==
    /\ ~panicked
    /\ head # Nil
    /\ mp[k] # Nil
    /\ Commit(removeAndInsert(Heap, mp[k]), key,
              [value EXCEPT ![mp[k]] = v], out)

\* Put of a new key: evict the tail when full, then link a new node in
\* front of the head.
PutNew(k, v) ==
    /\ ~panicked
    /\ head # Nil
    /\ mp[k] = Nil
    /\ Free # {}
    /\ LET f == CHOOSE c \in Free : TRUE
           h1 == IF Full(mp) THEN delTail(Heap) ELSE Heap
           h2 == SetPrev(SetNext([h1 EXCEPT !.mp[k] = f], f, h1.head), h1.head, f)
       IN  Commit([h2 EXCEPT !.head = f],
                  [key EXCEPT ![f] = k], [value EXCEPT ![f] = v], out)

Put(k, v) == PutFirst(k, v) \/ PutHeld(k, v) \/ PutNew(k, v)

Next == \E k \in Keys : Get(k) \/ \E v \in Vals : Put(k, v)

Spec == Init /\ [][Next]_vars

\* The map never holds more than cap keys: Put evicts the tail first once
\* len(c.mp) >= c.cap (line 77), and the tail is the least recently used.
SizeWithinCap == Size(mp) <= Cap

=============================================================================
