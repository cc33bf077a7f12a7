----------------------------- MODULE Replication -----------------------------
(***************************************************************************)
(* One tracked key across the raft servers: the committed log and each     *)
(* server's FSM (fsm.go), snapshots and restarts, leadership and the write *)
(* flag (stCached.monitorLeadrship, httpServer), the admin writes doSet /  *)
(* doDel (http.go), and the quorum checker's notify-then-record protocol   *)
(* (quorum.go) on whichever server leads.                                  *)
(*                                                                         *)
(*  - log        : the committed raft log (raft itself is a library; its  *)
(*                 guarantees are taken as given: one committed log, only  *)
(*                 the leader appends, a leader has every entry);          *)
(*  - applied[r] : the index FSM.Apply has reached on r;                   *)
(*  - fsm[r]     : cacheManager's entry for the key (present) and the      *)
(*                 gcm bookkeeping the NOTIFY_* entries write (cons);      *)
(*  - snap[r]    : r's latest persisted raft snapshot: its index and the   *)
(*                 cm in it, and the index FSM.Snapshot was called at if   *)
(*                 one is not persisted yet (taking);                      *)
(*  - leader     : the raft leader, or NoLeader;                           *)
(*  - writeFlag  : httpServer.enableWrite on each server;                  *)
(*  - world      : the status a quorum of fresh gossip observations        *)
(*                 currently agrees on (GossipStore, QuorumChecker model   *)
(*                 how it forms);                                          *)
(*  - jobs       : notifications between cmdCh and quorumCheck2, per       *)
(*                 server.                                                 *)
(*                                                                         *)
(* notified (the scripts' external effect), sinceRecord (the statuses     *)
(* notified since the log last recorded one), snap[r].at (the applied      *)
(* index when the snapshot was written) and restoredAt (that index for the *)
(* snapshot r last restored) are history variables.                        *)
(***************************************************************************)
EXTENDS Integers, Sequences, FiniteSets, QuorumRules

CONSTANTS
    Servers,
    Worlds,         \* statuses a quorum of observations may agree on
    EventInterval,  \* -eventInterval, in ticks of the scan period
    ScriptTimeout,  \* script timeout + kill grace + raft apply, in ticks
    MaxTime,        \* bound on the clock
    MaxLog,         \* bound on the log length
    MaxRestarts,    \* bound on server restarts
    MaxElections,   \* bound on leader elections
    ApplyTimeouts,  \* whether raft.Apply may time out on a leader
    NoLeader        \* model value

ASSUME Worlds \subseteq {UP, DOWN, EMPTY}
ASSUME EventInterval \in Nat \ {0} /\ ScriptTimeout \in Nat \ {0}
ASSUME ApplyTimeouts \in BOOLEAN

\* snap[r].taking when no snapshot is being persisted.
NoSnapshot == -1

\* time.Time{}: older than anything, and every gate is open on it.
ZeroTime == -(EventInterval + MaxTime + 1)
Time == ZeroTime .. MaxTime

Cons == [prevConsensus : {UP, DOWN, NoStatus}, prevEventTime : Time,
         empty : BOOLEAN, emptyTime : Time]
ZeroCons == [prevConsensus |-> NoStatus, prevEventTime |-> ZeroTime,
             empty |-> FALSE, emptyTime |-> ZeroTime]

\* logEntryData: the command and the one argument it uses.
Entry == [cmd : {"SET", "DELETE", "NOTIFY_STATUS", "NOTIFY_TIME",
                 "NOTIFY_EMPTY", "NOTIFY_EMPTY_TIME"},
          st : {UP, DOWN, NoStatus}, t : Time, b : BOOLEAN]
Cmd(c) == [cmd |-> c, st |-> NoStatus, t |-> ZeroTime, b |-> FALSE]
StatusEntry(s) == [Cmd("NOTIFY_STATUS") EXCEPT !.st = s]
TimeEntry(c, t) == [Cmd(c) EXCEPT !.t = t]
EmptyEntry(b) == [Cmd("NOTIFY_EMPTY") EXCEPT !.b = b]

Job == [srv : Servers, status : {UP, DOWN, EMPTY, EMPTY_RECOVER},
        start : 0 .. MaxTime, ran : BOOLEAN]

VARIABLES now, world, log, applied, fsm, snap, leader, writeFlag, jobs,
          restarts, elections, scanned, notified, sinceRecord, restoredAt

vars == <<now, world, log, applied, fsm, snap, leader, writeFlag, jobs,
          restarts, elections, scanned, notified, sinceRecord, restoredAt>>

TypeOK ==
    /\ now \in 0 .. MaxTime
    /\ world \in Worlds
    /\ log \in Seq(Entry) /\ Len(log) <= MaxLog
    /\ applied \in [Servers -> 0 .. MaxLog]
    /\ fsm \in [Servers -> [present : BOOLEAN, cons : Cons]]
    /\ snap \in [Servers -> [idx : 0 .. MaxLog, present : BOOLEAN,
                              taking : {NoSnapshot} \cup 0 .. MaxLog,
                              at : 0 .. MaxLog]]
    /\ leader \in Servers \cup {NoLeader}
    /\ writeFlag \in [Servers -> BOOLEAN]
    /\ jobs \subseteq Job
    /\ restarts \in 0 .. MaxRestarts
    /\ elections \in 0 .. MaxElections
    /\ scanned \subseteq Servers
    /\ notified \in Seq({UP, DOWN, EMPTY, EMPTY_RECOVER})
    /\ sinceRecord \subseteq {UP, DOWN}
    /\ restoredAt \in [Servers -> 0 .. MaxLog]

-----------------------------------------------------------------------------
\* Mutant: NOTIFY_TIME's value is converted with the wrong unit.
ApplyEntry_TimeUnits(f, e) ==
    CASE e.cmd = "SET"               -> [f EXCEPT !.present = TRUE]
      [] e.cmd = "DELETE"            -> [f EXCEPT !.present = FALSE]
      [] e.cmd = "NOTIFY_STATUS"     -> [f EXCEPT !.cons.prevConsensus = e.st]
      [] e.cmd = "NOTIFY_TIME"       -> [f EXCEPT !.cons.prevEventTime = e.t * 1000]
      [] e.cmd = "NOTIFY_EMPTY"      -> [f EXCEPT !.cons.empty = e.b]
      [] e.cmd = "NOTIFY_EMPTY_TIME" -> [f EXCEPT !.cons.emptyTime = e.t]

\* FSM.Apply of one entry to a server's state.
ApplyEntry(f, e) ==
    CASE e.cmd = "SET"               -> [f EXCEPT !.present = TRUE]
      [] e.cmd = "DELETE"            -> [f EXCEPT !.present = FALSE]
      [] e.cmd = "NOTIFY_STATUS"     -> [f EXCEPT !.cons.prevConsensus = e.st]
      [] e.cmd = "NOTIFY_TIME"       -> [f EXCEPT !.cons.prevEventTime = e.t]
      [] e.cmd = "NOTIFY_EMPTY"      -> [f EXCEPT !.cons.empty = e.b]
      [] e.cmd = "NOTIFY_EMPTY_TIME" -> [f EXCEPT !.cons.emptyTime = e.t]

\* statusNow of hasEvent / emptyRecover: the observations are refreshed
\* every period, so those of this tick are newer than any earlier
\* watermark and none is newer than a watermark of this tick.
StatusNow(wm) == IF wm < now THEN world ELSE NoStatus

\* The entries and the job checkEvent produces on consensus c.
EventEntries(c) ==
    IF now - c.prevEventTime < EventInterval THEN <<>>
    ELSE LET s == StatusNow(c.prevEventTime)
         IN  CASE EventKind(s, c.prevConsensus) = "event" ->
                    <<TimeEntry("NOTIFY_TIME", now)>>
               [] EventKind(s, c.prevConsensus) = "pending" ->
                    <<TimeEntry("NOTIFY_TIME", now), StatusEntry(s)>>
               [] OTHER -> <<>>

EventJob(c) ==
    IF now - c.prevEventTime >= EventInterval
       /\ EventKind(StatusNow(c.prevEventTime), c.prevConsensus) = "event"
    THEN {StatusNow(c.prevEventTime)} ELSE {}

\* The notification checkEmpty schedules on c, if any.
EmptyJob(c) ==
    IF now - c.emptyTime < EventInterval THEN {}
    ELSE LET s == StatusNow(c.emptyTime)
         IN  CASE s = EMPTY /\ ~c.empty               -> {EMPTY}
               [] s \in {UP, DOWN} /\ c.empty         -> {EMPTY_RECOVER}
               [] OTHER                               -> {}

EmptyEntries(c) ==
    IF EmptyJob(c) # {} THEN <<TimeEntry("NOTIFY_EMPTY_TIME", now)>> ELSE <<>>

\* quorumCheck2's record of a notified status.
RecordEntry(s) ==
    CASE s = EMPTY         -> EmptyEntry(TRUE)
      [] s = EMPTY_RECOVER -> EmptyEntry(FALSE)
      [] OTHER             -> StatusEntry(s)

\* notifyFollower reaches raft.Apply on r, which can commit only if r leads.
CanAppend(r) == writeFlag[r] /\ leader = r

\* The entries of seq at the positions in K, in order: the calls of a
\* sequence of notifyFollower calls whose raft.Apply did not fail.
RECURSIVE Kept(_, _)
Kept(seq, K) ==
    IF seq = <<>> THEN <<>>
    ELSE (IF 1 \in K THEN <<Head(seq)>> ELSE <<>>)
         \o Kept(Tail(seq), {k - 1 : k \in K \ {1}})

\* The history of records: a step that appends a NOTIFY_STATUS starts a
\* new period with nothing notified yet.
TrackRecords ==
    sinceRecord' =
        IF \E i \in Len(log) + 1 .. Len(log') : log'[i].cmd = "NOTIFY_STATUS"
        THEN {} ELSE sinceRecord

-----------------------------------------------------------------------------
Init ==
    /\ now = 0
    /\ world \in Worlds
    /\ log = <<Cmd("SET")>>
    /\ applied = [r \in Servers |-> 1]
    /\ fsm = [r \in Servers |-> [present |-> TRUE, cons |-> ZeroCons]]
    /\ snap = [r \in Servers |-> [idx |-> 0, present |-> FALSE,
                                   taking |-> NoSnapshot, at |-> 0]]
    /\ leader \in Servers
    /\ writeFlag = [r \in Servers |-> FALSE]
    /\ jobs = {}
    /\ restarts = 0
    /\ elections = 0
    /\ scanned = {}
    /\ notified = <<>>
    /\ sinceRecord = {}
    /\ restoredAt = [r \in Servers |-> 0]

\* The clock advances one scan period; ShellCmdTimeout bounds every
\* notification. The verifiers of the nodes report anew each period, so the
\* status their fresh observations agree on may change.
Tick(s) ==
    /\ now < MaxTime
    /\ \A j \in jobs : now + 1 < j.start + ScriptTimeout
    /\ now' = now + 1
    /\ world' = s
    /\ scanned' = {}
    /\ UNCHANGED <<restoredAt, log, applied, fsm, snap, leader, writeFlag, jobs,
                   restarts, elections, notified, sinceRecord>>

\* raft elects r once the cluster has no leader, or the leader steps down
\* (a lost quorum of heartbeats).
Elect(r) ==
    /\ leader = NoLeader
    /\ elections < MaxElections
    /\ leader' = r
    /\ elections' = elections + 1
    /\ UNCHANGED <<restoredAt, now, world, log, applied, fsm, snap, writeFlag, jobs,
                   restarts, scanned, notified, sinceRecord>>

StepDown ==
    /\ leader # NoLeader
    /\ leader' = NoLeader
    /\ UNCHANGED <<restoredAt, now, world, log, applied, fsm, snap, writeFlag, jobs,
                   restarts, elections, scanned, notified, sinceRecord>>

\* monitorLeadrship takes the leadership notification and sets the flag.
SyncWriteFlag(r) ==
    /\ writeFlag[r] # (leader = r)
    /\ writeFlag' = [writeFlag EXCEPT ![r] = (leader = r)]
    /\ UNCHANGED <<restoredAt, now, world, log, applied, fsm, snap, leader, jobs,
                   restarts, elections, scanned, notified, sinceRecord>>

\* FSM.Apply of the next committed entry on r.
Apply(r) ==
    /\ applied[r] < Len(log)
    /\ applied' = [applied EXCEPT ![r] = @ + 1]
    /\ fsm' = [fsm EXCEPT ![r] = ApplyEntry(@, log[applied[r] + 1])]
    /\ UNCHANGED <<restoredAt, now, world, log, snap, leader, writeFlag, jobs, restarts,
                   elections, scanned, notified, sinceRecord>>

\* FSM.Snapshot, called by raft at r's applied index: it returns a
\* snapshot that refers to the live cacheManager, not a copy of it.
Snapshot(r) ==
    /\ snap[r].taking = NoSnapshot
    /\ snap[r].idx < applied[r]
    /\ snap' = [snap EXCEPT ![r].taking = applied[r]]
    /\ UNCHANGED <<restoredAt, now, world, log, applied, fsm, leader, writeFlag, jobs,
                   restarts, elections, scanned, notified, sinceRecord>>

\* raft persists the snapshot later, while FSM.Apply goes on: the sink gets
\* the cacheManager as it is now (cm.Marshal), labelled with the index
\* FSM.Snapshot was called at.
Persist(r) ==
    /\ snap[r].taking # NoSnapshot
    /\ snap' = [snap EXCEPT ![r] = [idx |-> snap[r].taking,
                                    present |-> fsm[r].present,
                                    taking |-> NoSnapshot, at |-> applied[r]]]
    /\ UNCHANGED <<restoredAt, now, world, log, applied, fsm, leader, writeFlag, jobs,
                   restarts, elections, scanned, notified, sinceRecord>>

\* Mutant: the restarted server resumes at its old index, not the snapshot's.
Restart_KeepApplied(r) ==
    /\ restarts < MaxRestarts
    /\ restarts' = restarts + 1
    /\ fsm' = [fsm EXCEPT ![r] = [present |-> snap[r].present, cons |-> ZeroCons]]
    /\ snap' = [snap EXCEPT ![r].taking = NoSnapshot]
    /\ restoredAt' = [restoredAt EXCEPT ![r] = snap[r].at]
    /\ writeFlag' = [writeFlag EXCEPT ![r] = FALSE]
    /\ leader' = IF leader = r THEN NoLeader ELSE leader
    /\ jobs' = {j \in jobs : j.srv # r}
    /\ UNCHANGED <<now, world, log, applied, elections, scanned, notified, sinceRecord>>

\* r crashes and restarts: a snapshot not yet persisted is lost, a new
\* gossipCacheManager, FSM.Restore of the latest persisted snapshot into
\* cm, and the log replayed from the snapshot's index; r's goroutines and
\* their notifications are gone. restoredAt is the applied index at which
\* the restored cm was written.
Restart(r) ==
    /\ restarts < MaxRestarts
    /\ restarts' = restarts + 1
    /\ fsm' = [fsm EXCEPT ![r] = [present |-> snap[r].present, cons |-> ZeroCons]]
    /\ applied' = [applied EXCEPT ![r] = snap[r].idx]
    /\ snap' = [snap EXCEPT ![r].taking = NoSnapshot]
    /\ restoredAt' = [restoredAt EXCEPT ![r] = snap[r].at]
    /\ writeFlag' = [writeFlag EXCEPT ![r] = FALSE]
    /\ leader' = IF leader = r THEN NoLeader ELSE leader
    /\ jobs' = {j \in jobs : j.srv # r}
    /\ UNCHANGED <<now, world, log, elections, scanned, notified, sinceRecord>>

\* doSet / doDel on r: the write flag admits the request and raft.Apply
\* commits it on the leader.
AdminWrite(r, c) ==
    /\ CanAppend(r)
    /\ Len(log) < MaxLog
    /\ log' = Append(log, Cmd(c))
    /\ UNCHANGED <<restoredAt, now, world, applied, fsm, snap, leader, writeFlag, jobs,
                   restarts, elections, scanned, notified, sinceRecord>>

\* quorumCheck1 on r, once per scan period (GoRoutineInSleep): the write
\* flag admits it, the raft Barrier returns once r has applied the whole
\* log, and checkEvent and checkEmpty run on a Clone() of the entry,
\* appending through notifyFollower and queueing their notifications. A
\* failed raft.Apply is logged and the scan goes on: r may lose leadership
\* part-way (the later appends fail), or, with ApplyTimeouts, any append
\* may time out; the notifications are queued all the same.
QuorumCheck(r) ==
    LET c == fsm[r].cons
        new == EventEntries(c) \o EmptyEntries(c)
        news == EventJob(c) \cup EmptyJob(c)
    IN  /\ r \notin scanned
        /\ CanAppend(r)
        /\ applied[r] = Len(log)
        /\ new # <<>>
        /\ Len(log) + Len(new) <= MaxLog
        /\ \/ /\ log' = log \o new
              /\ UNCHANGED leader
           \/ /\ \E k \in 0 .. Len(new) - 1 : log' = log \o SubSeq(new, 1, k)
              /\ leader' = NoLeader
           \/ /\ ApplyTimeouts
              /\ \E ok \in SUBSET (1 .. Len(new)) : log' = log \o Kept(new, ok)
              /\ UNCHANGED leader
        /\ jobs' = jobs \cup {[srv |-> r, status |-> s, start |-> now, ran |-> FALSE] : s \in news}
        /\ scanned' = scanned \cup {r}
        /\ TrackRecords
        /\ UNCHANGED <<restoredAt, now, world, applied, fsm, snap, writeFlag,
                       restarts, elections, notified>>

\* doTimeoutShellCmd's goroutine on j.srv: without the write flag it
\* returns; otherwise the script runs and its result goes to quorumCheck2.
RunScript(j) ==
    /\ ~j.ran
    /\ IF writeFlag[j.srv]
       THEN /\ jobs' = (jobs \ {j}) \cup {[j EXCEPT !.ran = TRUE]}
            /\ notified' = Append(notified, j.status)
            /\ sinceRecord' = sinceRecord \cup ({j.status} \cap {UP, DOWN})
       ELSE /\ jobs' = jobs \ {j}
            /\ UNCHANGED <<notified, sinceRecord>>
    /\ UNCHANGED <<restoredAt, now, world, log, applied, fsm, snap, leader, writeFlag,
                   restarts, elections, scanned>>

\* quorumCheck2 on j.srv records the result through notifyFollower; the
\* append fails (and is only logged) unless j.srv still leads, and, with
\* ApplyTimeouts, may time out even then.
Record(j) ==
    /\ j.ran
    /\ jobs' = jobs \ {j}
    /\ \/ /\ CanAppend(j.srv)
          /\ Len(log) < MaxLog
          /\ log' = Append(log, RecordEntry(j.status))
       \/ /\ ~CanAppend(j.srv) \/ ApplyTimeouts
          /\ UNCHANGED log
    /\ TrackRecords
    /\ UNCHANGED <<restoredAt, now, world, applied, fsm, snap, leader, writeFlag,
                   restarts, elections, scanned, notified>>

Next ==
    \/ \E s \in Worlds : Tick(s)
    \/ StepDown
    \/ \E r \in Servers :
          \/ Elect(r) \/ SyncWriteFlag(r) \/ Apply(r) \/ Snapshot(r) \/ Persist(r)
          \/ Restart(r) \/ QuorumCheck(r)
          \/ \E c \in {"SET", "DELETE"} : AdminWrite(r, c)
    \/ \E j \in jobs : RunScript(j) \/ Record(j)

Spec == Init /\ [][Next]_vars

-----------------------------------------------------------------------------
(* Properties.                                                             *)

\* Reference: the key is in cm after the first k entries iff the last
\* SET or DELETE among them is a SET (it starts absent).
RECURSIVE PresentAfter(_)
PresentAfter(k) ==
    IF k = 0 THEN FALSE
    ELSE IF log[k].cmd = "SET" THEN TRUE
    ELSE IF log[k].cmd = "DELETE" THEN FALSE
    ELSE PresentAfter(k - 1)

\* Every server's cacheManager holds the key exactly when the log prefix it
\* has applied says so, through snapshots, restarts and replays, once the
\* replay has passed the index at which the restored snapshot was written.
\* FSM.Snapshot hands raft the live cacheManager, so a snapshot persisted
\* after further Applies holds entries past its index, and a restored
\* server replays them a second time; before the replay passes them its cm
\* is ahead of its index. SET and DELETE overwrite, so the replay must end
\* where the log says.
CmFollowsLog ==
    \A r \in Servers : applied[r] >= restoredAt[r] =>
        fsm[r].present = PresentAfter(applied[r])

\* The last status recorded in the log (NOTIFY_STATUS), or NoStatus.
LastRecorded(l) ==
    LET idx == {i \in 1 .. Len(l) : l[i].cmd = "NOTIFY_STATUS"}
    IN  IF idx = {} THEN NoStatus
        ELSE l[CHOOSE i \in idx : \A k \in idx : k <= i].st

EventNotes == SelectSeq(notified, LAMBDA s : s \in {UP, DOWN})

\* A UP <-> DOWN transition enters the log (a NOTIFY_STATUS opposite to
\* the status recorded last) only if that status was notified since the
\* last record: the cluster never records a transition it told nobody
\* about, whichever server leads and whatever it restored from.
NotifiedBeforeRecorded ==
    [][LastRecorded(log) \in {UP, DOWN}
       /\ LastRecorded(log') = Opposite(LastRecorded(log))
       => LastRecorded(log') \in sinceRecord]_vars

\* No two consecutive notifications of one kind carry the same status:
\* each transition and each EMPTY / recovery is notified once.
NoRepeat(seq) == \A i \in 1 .. Len(seq) - 1 : seq[i] # seq[i + 1]
NotifyOnce ==
    /\ NoRepeat(EventNotes)
    /\ NoRepeat(SelectSeq(notified, LAMBDA s : s \in {EMPTY, EMPTY_RECOVER}))

=============================================================================
