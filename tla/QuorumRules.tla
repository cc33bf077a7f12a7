---------------------------- MODULE QuorumRules ----------------------------
(***************************************************************************)
(* The status values of gossipCache.go and the outcome rule of hasEvent    *)
(* (quorum.go), shared by the models of the quorum checker.                *)
(***************************************************************************)

\* gossipStatus values; NoStatus is Go's "" zero value.
UP == "UP"
DOWN == "DOWN"
EMPTY == "EMPTY"
LESS_THAN_MINSAMPLE == "LESS_THAN_MINSAMPLE"
NOT_FILL_SAMPLES == "NOT_FILL_SAMPLES"
EMPTY_RECOVER == "EMPTY_RECOVER"
NoStatus == ""

-----------------------------------------------------------------------------
Opposite(s) == IF s = UP THEN DOWN ELSE UP

\* Mutant: the pending test comes before the transition test.
EventKind_PendingFirst(statusNow, prev) ==
    CASE statusNow \in {UP, DOWN} /\ prev # statusNow -> "pending"
      [] OTHER                                        -> "none"

\* hasEvent's (hasEvent, pending) pair as one outcome.
EventKind(statusNow, prev) ==
    CASE statusNow \in {UP, DOWN} /\ prev = Opposite(statusNow) -> "event"
      [] statusNow \in {UP, DOWN} /\ prev # statusNow          -> "pending"
      [] OTHER                                                 -> "none"

=============================================================================
