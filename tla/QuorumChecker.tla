--------------------------- MODULE QuorumChecker ---------------------------
(***************************************************************************)
(* The decision core of couchbase-ha-service (src/.../quorum.go) for one   *)
(* tracked key, on the raft leader.                                        *)
(*                                                                         *)
(*  - obs    : the leader's gossipCacheManager entry for the key, the      *)
(*             consensus map node -> (status, timestamp);                  *)
(*  - cons   : the log-replicated fields of that entry (prevConsensus,    *)
(*             prevEventTime, empty, emptyTime), written only by FSM.Apply *)
(*             of NOTIFY_* commands the leader appends;                    *)
(*  - pc,snap: the quorumCheck1 goroutine, which works on a Clone();       *)
(*  - jobs   : notification commands handed to doTimeoutShellCmd, whose    *)
(*             goroutines run the script and send the result to            *)
(*             quorumCheck2;                                               *)
(*  - now    : the leader's clock, in ticks of the 10 s scan period.       *)
(*                                                                         *)
(* notified and decided are history variables for the properties.          *)
(***************************************************************************)
EXTENDS Integers, Sequences, FiniteSets, QuorumRules

CONSTANTS
    Nodes,          \* gossip members whose observations reach the leader
    Observed,       \* statuses the detector may report (Phi's range)
    Quorum,         \* -gossipQuorum
    EventInterval,  \* -eventInterval, in ticks
    ScriptTimeout,  \* notification script timeout + kill grace + raft apply, in ticks
    StaleAfter,     \* STALE_INFO_INTERVAL_IN_SECONDS, in ticks
    MaxTime         \* bound on the clock

ASSUME Observed \subseteq {UP, DOWN, EMPTY, LESS_THAN_MINSAMPLE,
                           NOT_FILL_SAMPLES, "NO_EMPTY_IN_SAMPLES"}
ASSUME Quorum \in Nat \ {0} /\ EventInterval \in Nat \ {0}
ASSUME ScriptTimeout \in Nat \ {0} /\ StaleAfter \in Nat /\ MaxTime \in Nat

\* time.Time{}.UnixNano() overflows to a large negative number: every real
\* timestamp is newer, and time.Since of it exceeds every interval.
ZeroTime == -(EventInterval + StaleAfter + MaxTime + 1)

VARIABLES now, obs, cons, pc, snap, jobs, notified, decided

vars == <<now, obs, cons, pc, snap, jobs, notified, decided>>

Time == ZeroTime .. MaxTime
Obs == [status : Observed \cup {NoStatus}, ts : Time]
Cons == [prevConsensus : {UP, DOWN, NoStatus}, prevEventTime : Time,
         empty : BOOLEAN, emptyTime : Time]
Job == [status : {UP, DOWN, EMPTY, EMPTY_RECOVER}, start : 0 .. MaxTime,
        ran : BOOLEAN]

TypeOK ==
    /\ now \in 0 .. MaxTime
    /\ obs \in [Nodes -> Obs]
    /\ cons \in Cons
    /\ pc \in {"idle", "event", "empty"}
    /\ snap \in [obs : [Nodes -> Obs], cons : Cons]
    /\ jobs \subseteq Job
    /\ notified \in Seq({UP, DOWN, EMPTY, EMPTY_RECOVER})
    /\ decided \in [event : {UP, DOWN, NoStatus},
                    empty : {EMPTY, EMPTY_RECOVER, NoStatus}]

-----------------------------------------------------------------------------
(* hasEvent and emptyRecover (quorum.go), over a Clone() v at time t.      *)

\* Nodes whose observation is newer than the watermark and not stale.
Fresh(v, wm, t) ==
    {n \in Nodes : /\ v.obs[n].status # NoStatus
                   /\ v.obs[n].ts > wm
                   /\ t - v.obs[n].ts <= StaleAfter}

Count(v, wm, t, s) == Cardinality({n \in Fresh(v, wm, t) : v.obs[n].status = s})

\* statusNow: the first status of countMap reaching the quorum; Go's map
\* order is unspecified, so any of them, or "" when none does.
StatusNow(v, wm, t) ==
    LET q == {s \in Observed : Count(v, wm, t, s) >= Quorum}
    IN  IF q = {} THEN {NoStatus} ELSE q

RecoverCount(v, t) ==
    Cardinality({n \in Fresh(v, v.cons.emptyTime, t) :
                   v.obs[n].status \notin {LESS_THAN_MINSAMPLE, NOT_FILL_SAMPLES, EMPTY}})

\* emptyRecover's result for a given statusNow.
EmptyRecover(v, t, statusNow) ==
    statusNow # EMPTY /\ RecoverCount(v, t) >= Quorum

-----------------------------------------------------------------------------
Init ==
    /\ now = 0
    /\ obs = [n \in Nodes |-> [status |-> NoStatus, ts |-> ZeroTime]]
    /\ cons = [prevConsensus |-> NoStatus, prevEventTime |-> ZeroTime,
               empty |-> FALSE, emptyTime |-> ZeroTime]
    /\ pc = "idle"
    /\ snap = [obs |-> obs, cons |-> cons]
    /\ jobs = {}
    /\ notified = <<>>
    /\ decided = [event |-> NoStatus, empty |-> NoStatus]

\* Mutant: ShellCmdTimeout never kills the script at its timeout.
Tick_NoKill ==
    /\ now < MaxTime
    /\ pc = "idle"
    /\ now' = now + 1
    /\ UNCHANGED <<obs, cons, pc, snap, jobs, notified, decided>>

\* The clock advances; no notification outlives its timeout, and a scan of
\* the single key finishes within the tick it started in.
Tick ==
    /\ now < MaxTime
    /\ pc = "idle"
    /\ \A j \in jobs : now + 1 < j.start + ScriptTimeout
    /\ now' = now + 1
    /\ UNCHANGED <<obs, cons, pc, snap, jobs, notified, decided>>

\* bridge.makeGossip2 / consumeGossip -> gossipCacheManager.Set: node n's
\* derived status s, stamped now, replaces its slot only if strictly newer.
Set(n, s) ==
    /\ now > obs[n].ts
    /\ obs' = [obs EXCEPT ![n] = [status |-> s, ts |-> now]]
    /\ UNCHANGED <<now, cons, pc, snap, jobs, notified, decided>>

\* quorumCheck1: write permission and raft barrier pass on the stable
\* leader; the scan works on a Clone() of the key's entry.
QuorumCheck1 ==
    /\ pc = "idle"
    /\ pc' = "event"
    /\ snap' = [obs |-> obs, cons |-> cons]
    /\ UNCHANGED <<now, obs, cons, jobs, notified, decided>>

\* Mutant: the pending path appends NOTIFY_TIME but not NOTIFY_STATUS.
CheckEvent_PendingKeepsStatus ==
    /\ pc = "event"
    /\ pc' = "empty"
    /\ IF now - snap.cons.prevEventTime < EventInterval
       THEN UNCHANGED <<cons, jobs, decided>>
       ELSE \E s \in StatusNow(snap, snap.cons.prevEventTime, now) :
              CASE EventKind(s, snap.cons.prevConsensus) = "event" ->
                     /\ cons' = [cons EXCEPT !.prevEventTime = now]
                     /\ jobs' = jobs \cup {[status |-> s, start |-> now, ran |-> FALSE]}
                     /\ decided' = [decided EXCEPT !.event = s]
                [] EventKind(s, snap.cons.prevConsensus) = "pending" ->
                     /\ cons' = [cons EXCEPT !.prevEventTime = now]
                     /\ decided' = [decided EXCEPT !.event = s]
                     /\ UNCHANGED jobs
                [] OTHER -> UNCHANGED <<cons, jobs, decided>>
    /\ UNCHANGED <<now, obs, snap, notified>>

\* checkEvent: an event appends NOTIFY_TIME and schedules the script; a
\* pending appends NOTIFY_TIME and NOTIFY_STATUS and notifies nobody.
CheckEvent ==
    /\ pc = "event"
    /\ pc' = "empty"
    /\ IF now - snap.cons.prevEventTime < EventInterval
       THEN UNCHANGED <<cons, jobs, decided>>
       ELSE \E s \in StatusNow(snap, snap.cons.prevEventTime, now) :
              CASE EventKind(s, snap.cons.prevConsensus) = "event" ->
                     /\ cons' = [cons EXCEPT !.prevEventTime = now]
                     /\ jobs' = jobs \cup {[status |-> s, start |-> now, ran |-> FALSE]}
                     /\ decided' = [decided EXCEPT !.event = s]
                [] EventKind(s, snap.cons.prevConsensus) = "pending" ->
                     /\ cons' = [cons EXCEPT !.prevEventTime = now, !.prevConsensus = s]
                     /\ decided' = [decided EXCEPT !.event = s]
                     /\ UNCHANGED jobs
                [] OTHER -> UNCHANGED <<cons, jobs, decided>>
    /\ UNCHANGED <<now, obs, snap, notified>>

\* checkEmpty: EMPTY reaching the quorum on a key not marked empty, or a
\* recovery quorum on a key marked empty, appends NOTIFY_EMPTY_TIME and
\* schedules the script. It reads the same Clone() as checkEvent.
CheckEmpty ==
    /\ pc = "empty"
    /\ pc' = "idle"
    /\ IF now - snap.cons.emptyTime < EventInterval
       THEN UNCHANGED <<cons, jobs, decided>>
       ELSE \E s \in StatusNow(snap, snap.cons.emptyTime, now) :
              LET note == CASE s = EMPTY /\ ~snap.cons.empty -> EMPTY
                            [] EmptyRecover(snap, now, s) /\ snap.cons.empty -> EMPTY_RECOVER
                            [] OTHER -> NoStatus
              IN  IF note = NoStatus
                  THEN UNCHANGED <<cons, jobs, decided>>
                  ELSE /\ cons' = [cons EXCEPT !.emptyTime = now]
                       /\ jobs' = jobs \cup {[status |-> note, start |-> now, ran |-> FALSE]}
                       /\ decided' = [decided EXCEPT !.empty = note]
    /\ UNCHANGED <<now, obs, snap, notified>>

\* doTimeoutShellCmd's goroutine: permission holds, the notification script
\* runs (the external effect) and its result is queued for quorumCheck2.
RunScript(j) ==
    /\ ~j.ran
    /\ jobs' = (jobs \ {j}) \cup {[j EXCEPT !.ran = TRUE]}
    /\ notified' = Append(notified, j.status)
    /\ UNCHANGED <<now, obs, cons, pc, snap, decided>>

\* Mutant: quorumCheck2 without the EMPTY / EMPTY_RECOVER cases.
QuorumCheck2_AllAsStatus(j) ==
    /\ j.ran
    /\ jobs' = jobs \ {j}
    /\ cons' = [cons EXCEPT !.prevConsensus = j.status]
    /\ UNCHANGED <<now, obs, pc, snap, notified, decided>>

\* quorumCheck2: records the notified status through the raft log:
\* NOTIFY_EMPTY true/false, otherwise NOTIFY_STATUS.
QuorumCheck2(j) ==
    /\ j.ran
    /\ jobs' = jobs \ {j}
    /\ cons' = CASE j.status = EMPTY         -> [cons EXCEPT !.empty = TRUE]
                 [] j.status = EMPTY_RECOVER -> [cons EXCEPT !.empty = FALSE]
                 [] OTHER                    -> [cons EXCEPT !.prevConsensus = j.status]
    /\ UNCHANGED <<now, obs, pc, snap, notified, decided>>

Next ==
    \/ Tick
    \/ \E n \in Nodes, s \in Observed : Set(n, s)
    \/ QuorumCheck1
    \/ CheckEvent
    \/ CheckEmpty
    \/ \E j \in jobs : RunScript(j) \/ QuorumCheck2(j)

Spec == Init /\ [][Next]_vars

\* The scheduling the code gives its loops.  quorumCheck1 (and with it
\* checkEvent and checkEmpty) runs every period in GoRoutineInSleep; every
\* node's makeGossip1 runs every period and its result is re-broadcast each
\* time, so an observation of each node keeps reaching the leader's Set
\* however many packets are lost; doTimeoutShellCmd's goroutine and
\* quorumCheck2 run as soon as they can.  Time itself cannot be held up
\* forever, although Tick is disabled while a scan or a script is in
\* progress: it is strongly fair.
FairSpec ==
    /\ Spec
    /\ SF_vars(Tick)
    /\ WF_vars(QuorumCheck1) /\ WF_vars(CheckEvent) /\ WF_vars(CheckEmpty)
    /\ \A n \in Nodes : WF_vars(\E s \in Observed : Set(n, s))
    /\ WF_vars(\E j \in jobs : RunScript(j))
    /\ WF_vars(\E j \in jobs : QuorumCheck2(j))

-----------------------------------------------------------------------------
(* Properties.                                                             *)

EventNotes == SelectSeq(notified, LAMBDA s : s \in {UP, DOWN})
EmptyNotes == SelectSeq(notified, LAMBDA s : s \in {EMPTY, EMPTY_RECOVER})
NoRepeat(seq) == \A i \in 1 .. Len(seq) - 1 : seq[i] # seq[i + 1]

\* Exactly one notification per transition (spec section 1 and property 7):
\* the notification scripts run by checkEvent never report the same
\* UP/DOWN status twice in a row, and those run by checkEmpty never report
\* EMPTY or EMPTY_RECOVER twice in a row. It depends on the eventInterval
\* gate, the watermarks and quorumCheck2 recording each result in time.
NotifyOncePerTransition ==
    NoRepeat(EventNotes) /\ NoRepeat(EmptyNotes)

\* Once no notification is in flight, the log-replicated prevConsensus and
\* empty flag of the key equal the last decision checkEvent and checkEmpty
\* made, whether that decision was recorded directly (pending) or through
\* the script result consumed by quorumCheck2.
RecordedMatchesDecided ==
    jobs = {} =>
        /\ cons.prevConsensus = decided.event
        /\ cons.empty = (decided.empty = EMPTY)

\* The nodes whose latest observation is not stale and has a status in S.
FreshIn(S) == {n \in Nodes : obs[n].status \in S /\ now - obs[n].ts <= StaleAfter}

\* A strict majority of the nodes currently report status s.
MajorityAt(s) ==
    LET agree == FreshIn({s})
    IN  Cardinality(agree) > Cardinality(Nodes \ agree)

\* A status that a majority of the nodes keeps reporting is eventually the
\* key's recorded consensus for good, whatever the others report: from
\* some point on checkEvent sees only it reach the quorum among the fresh
\* observations newer than prevEventTime, notifies it (after the opposite
\* status) or takes it as a pending, and the NOTIFY_STATUS record of
\* quorumCheck2 or of the pending path sets prevConsensus.  With a quorum
\* of at most half the nodes, a minority status also reaches it, and Go's
\* map order in hasEvent may pick it at any scan.
RecordedOnceMajority(s) == <>[]MajorityAt(s) => <>[](cons.prevConsensus = s)

StableRecorded == RecordedOnceMajority(UP) /\ RecordedOnceMajority(DOWN)

=============================================================================
