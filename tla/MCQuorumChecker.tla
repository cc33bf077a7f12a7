-------------------------- MODULE MCQuorumChecker --------------------------
(* Model-checking instance of QuorumChecker: node identities as a symmetry *)
(* set, and a view that fingerprints a state by the ages of its            *)
(* timestamps instead of their absolute values.                            *)
EXTENDS QuorumChecker, TLC

NodeSymmetry == Permutations(Nodes)

\* Past this age a watermark no longer gates anything and every fresh
\* observation is newer than it.
Horizon == IF EventInterval > StaleAfter + 1 THEN EventInterval ELSE StaleAfter + 1

AgeOf(t) == IF now - t > Horizon THEN Horizon ELSE now - t

\* A stale observation can never count again: it is as good as absent.
ObsView(o) ==
    IF o.status = NoStatus \/ now - o.ts > StaleAfter
    THEN [status |-> NoStatus, age |-> Horizon]
    ELSE [status |-> o.status, age |-> now - o.ts]

ConsView(c) ==
    [c EXCEPT !.prevEventTime = AgeOf(c.prevEventTime), !.emptyTime = AgeOf(c.emptyTime)]

LastOf(seq) == IF seq = <<>> THEN NoStatus ELSE seq[Len(seq)]

\* The Clone() is dead between scans; notified matters only through its last note per channel and whether
\* the property already fails.
StateView ==
    << [n \in Nodes |-> ObsView(obs[n])], ConsView(cons), pc,
       IF pc = "idle" THEN <<>>
       ELSE [obs |-> [n \in Nodes |-> ObsView(snap.obs[n])], cons |-> ConsView(snap.cons)],
       {[j EXCEPT !.start = now - j.start] : j \in jobs},
       LastOf(EventNotes), LastOf(EmptyNotes), NotifyOncePerTransition, decided >>
=============================================================================
