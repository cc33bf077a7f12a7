---------------------------- MODULE MCReplication ----------------------------
EXTENDS Replication, TLC

ServerSymmetry == Permutations(Servers)

\* The last element of a sequence, or NoStatus.
LastOr(seq) == IF seq = <<>> THEN NoStatus ELSE seq[Len(seq)]

\* restoredAt once r's replay has passed it: only CmFollowsLog reads it,
\* and applied[r] only falls again by a Restart, which overwrites it.
ReplayView == [r \in Servers |-> IF applied[r] >= restoredAt[r] THEN 0 ELSE restoredAt[r]]

\* States that differ only in what no later step or property reads are
\* merged: snapshots once no restart is left (only Restart reads snap),
\* the restore point once the replay has passed it, and
\* the notification history beyond its last event and last EMPTY note (the
\* properties compare a new note or record with those only).
StateView ==
    <<now, world, log, applied, fsm,
      IF restarts < MaxRestarts THEN snap ELSE {},
      leader, writeFlag, jobs, restarts, elections, scanned,
      sinceRecord, ReplayView, LastOr(EventNotes),
      LastOr(SelectSeq(notified, LAMBDA s : s \in {EMPTY, EMPTY_RECOVER}))>>

=============================================================================
