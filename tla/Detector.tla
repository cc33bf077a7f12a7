------------------------------ MODULE Detector ------------------------------
(***************************************************************************)
(* The verification side of one node (commonDetector.go,                   *)
(* commonVerifier.go, bridge.go makeGossip1/makeGossip2, the detector half *)
(* of scavenger.go).                                                       *)
(*                                                                         *)
(*  - present : which keys the replicated cacheManager holds (raft SET /   *)
(*              DELETE);                                                   *)
(*  - w       : Detector.w, one Windowed ring per key, or NoWindow;        *)
(*  - probe   : the verify goroutines, each Ping -> Phi -> send on         *)
(*              outputCh;                                                  *)
(*  - scav    : the scavenger goroutine between its cm.Clone() and its     *)
(*              pass over detector.Clone();                                *)
(*  - recorded: per key, the output makeGossip2 stamped last (a later      *)
(*              Lamport timestamp wins in gossipCacheManager.Set);         *)
(*  - crashed : a goroutine panicked, which ends the process.              *)
(*                                                                         *)
(* hist and pushed are history variables: the outcomes pushed into the     *)
(* current window, and the number of pushes ever made per key.             *)
(***************************************************************************)
EXTENDS Integers, Sequences, FiniteSets

CONSTANTS
    Keys,        \* tracked keys
    Probes,      \* verify goroutines that may be in flight at once
    Outcomes,    \* verification script outputs ("" is already "EMPTY")
    WindowSize,  \* NewDetector(5, 3)
    MinSamples,
    MaxPushes,   \* bound on the pushes per key
    NoWindow,    \* model value: no entry in Detector.w
    NoKey        \* model value: an idle goroutine's key

EMPTY == "EMPTY"
LESS_THAN_MINSAMPLE == "LESS_THAN_MINSAMPLE"
NOT_FILL_SAMPLES == "NOT_FILL_SAMPLES"
NO_EMPTY_IN_SAMPLES == "NO_EMPTY_IN_SAMPLES"
NoStatus == ""   \* the zero StatusAndTime's Status

ASSUME EMPTY \in Outcomes
ASSUME MinSamples \in 1 .. WindowSize /\ MaxPushes \in Nat

PhiStatus == Outcomes \cup {LESS_THAN_MINSAMPLE, NOT_FILL_SAMPLES, NO_EMPTY_IN_SAMPLES}
Slots == 0 .. WindowSize - 1
Window == [data : [Slots -> Outcomes \cup {NoStatus}], head : Slots, length : Nat]

VARIABLES present, w, probe, scav, recorded, crashed, hist, pushed

vars == <<present, w, probe, scav, recorded, crashed, hist, pushed>>

TypeOK ==
    /\ present \in [Keys -> BOOLEAN]
    /\ w \in [Keys -> Window \cup {NoWindow}]
    /\ probe \in [Probes -> [pc : {"idle", "ping", "phi", "send"},
                             key : Keys \cup {NoKey},
                             status : PhiStatus \cup {NoStatus},
                             seq : 0 .. MaxPushes]]
    /\ scav \in [pc : {"idle", "detector"}, data : SUBSET Keys]
    /\ recorded \in [Keys -> [status : PhiStatus \cup {NoStatus}, seq : 0 .. MaxPushes]]
    /\ crashed \in BOOLEAN
    /\ hist \in [Keys -> Seq(Outcomes)]
    /\ pushed \in [Keys -> 0 .. MaxPushes]

-----------------------------------------------------------------------------
(* Windowed (commonDetector.go).                                           *)

NewWindowed == [data |-> [i \in Slots |-> NoStatus], head |-> 0, length |-> 0]

\* Mutant: Push without the wrap of head.
Push_NoWrap(win, s) ==
    [win EXCEPT !.data[win.head] = s, !.head = win.head + 1, !.length = win.length + 1]

Push(win, s) ==
    [win EXCEPT !.data[win.head] = s,
                !.head = IF win.head + 1 >= WindowSize THEN 0 ELSE win.head + 1,
                !.length = win.length + 1]

WLen(win) == IF win.length < WindowSize THEN win.length ELSE WindowSize

\* Mutant: the newest sample is taken at head instead of head - 1.
LastNSamples_AtHead(win, samples) ==
    LET length == WLen(win)
    IN  [j \in 1 .. samples |->
           win.data[(win.head - (samples - j) + length) % length]]

\* samples <= Len(): ret[samples-1-i] = data[(head-1-i+length) % length].
LastNSamples(win, samples) ==
    LET length == WLen(win)
    IN  [j \in 1 .. samples |->
           win.data[(win.head - 1 - (samples - j) + length) % length]]

\* Phi: LESS_THAN_MINSAMPLE below minSamples; the status all of the last
\* minSamples samples agree on; else NO_EMPTY_IN_SAMPLES when none of them
\* is EMPTY, and NOT_FILL_SAMPLES otherwise.
PhiOf(win) ==
    IF WLen(win) < MinSamples THEN LESS_THAN_MINSAMPLE
    ELSE LET last == LastNSamples(win, MinSamples)
             count(s) == Cardinality({i \in 1 .. MinSamples : last[i] = s})
             agreed == {s \in Outcomes \cup {NoStatus} : count(s) = MinSamples}
         IN  IF agreed # {} THEN CHOOSE s \in agreed : TRUE
             ELSE IF count(EMPTY) = 0 THEN NO_EMPTY_IN_SAMPLES
             ELSE NOT_FILL_SAMPLES

\* Reference definitions over the sequence of pushed outcomes.
LastOfSeq(h, n) == SubSeq(h, Len(h) - n + 1, Len(h))

RefPhi(h) ==
    IF Len(h) < MinSamples THEN LESS_THAN_MINSAMPLE
    ELSE LET last == LastOfSeq(h, MinSamples)
             seen == {last[i] : i \in 1 .. MinSamples}
         IN  IF Cardinality(seen) = 1 THEN last[1]
             ELSE IF EMPTY \notin seen THEN NO_EMPTY_IN_SAMPLES
             ELSE NOT_FILL_SAMPLES

-----------------------------------------------------------------------------
Idle == [pc |-> "idle", key |-> NoKey, status |-> NoStatus, seq |-> 0]

Init ==
    /\ present = [k \in Keys |-> TRUE]
    /\ w = [k \in Keys |-> NoWindow]
    /\ probe = [p \in Probes |-> Idle]
    /\ scav = [pc |-> "idle", data |-> {}]
    /\ recorded = [k \in Keys |-> [status |-> NoStatus, seq |-> 0]]
    /\ crashed = FALSE
    /\ hist = [k \in Keys |-> <<>>]
    /\ pushed = [k \in Keys |-> 0]

InFlight(k) == Cardinality({p \in Probes : probe[p].key = k})

\* FSM.Apply of CMD_SET / CMD_DELETE on this replica's cacheManager.
SetKey(k) ==
    /\ ~crashed /\ ~present[k]
    /\ present' = [present EXCEPT ![k] = TRUE]
    /\ UNCHANGED <<w, probe, scav, recorded, crashed, hist, pushed>>

DelKeyFromStore(k) ==
    /\ ~crashed /\ present[k]
    /\ present' = [present EXCEPT ![k] = FALSE]
    /\ UNCHANGED <<w, probe, scav, recorded, crashed, hist, pushed>>

\* makeGossip1 hands a key of cm.Clone() to verify, which starts a
\* goroutine for it; an earlier probe of the same key may still run.
Fanout(p, k) ==
    /\ ~crashed /\ present[k]
    /\ probe[p].pc = "idle"
    /\ pushed[k] + InFlight(k) < MaxPushes
    /\ probe' = [probe EXCEPT ![p] = [Idle EXCEPT !.pc = "ping", !.key = k]]
    /\ UNCHANGED <<present, w, scav, recorded, crashed, hist, pushed>>

\* Ping: the script's output o is pushed under d.mu, creating the window
\* when the key has none.
Ping(p, o) ==
    LET k == probe[p].key
        win == IF w[k] = NoWindow THEN NewWindowed ELSE w[k]
    IN  /\ ~crashed /\ probe[p].pc = "ping"
        /\ w' = [w EXCEPT ![k] = Push(win, o)]
        /\ hist' = [hist EXCEPT ![k] = IF w[k] = NoWindow THEN <<o>> ELSE Append(@, o)]
        /\ pushed' = [pushed EXCEPT ![k] = @ + 1]
        /\ probe' = [probe EXCEPT ![p].pc = "phi"]
        /\ UNCHANGED <<present, scav, recorded, crashed>>

\* Phi, under d.mu again: d.w[key].Len() on a deleted window is a nil
\* pointer dereference, a panic in the goroutine.
Phi(p) ==
    LET k == probe[p].key
    IN  /\ ~crashed /\ probe[p].pc = "phi"
        /\ IF w[k] = NoWindow
           THEN /\ crashed' = TRUE
                /\ UNCHANGED probe
           ELSE /\ probe' = [probe EXCEPT ![p].pc = "send", ![p].status = PhiOf(w[k]),
                                          ![p].seq = pushed[k]]
                /\ UNCHANGED crashed
        /\ UNCHANGED <<present, w, scav, recorded, hist, pushed>>

\* makeGossip2 receives the output and stamps it with the next timestamp.
Absorb(p) ==
    LET k == probe[p].key
    IN  /\ ~crashed /\ probe[p].pc = "send"
        /\ recorded' = [recorded EXCEPT ![k] = [status |-> probe[p].status,
                                                seq |-> probe[p].seq]]
        /\ probe' = [probe EXCEPT ![p] = Idle]
        /\ UNCHANGED <<present, w, scav, crashed, hist, pushed>>

\* scavenge: data := st.cm.Clone() ...
ScavengeStart ==
    /\ ~crashed /\ scav.pc = "idle"
    /\ scav' = [pc |-> "detector", data |-> {k \in Keys : present[k]}]
    /\ UNCHANGED <<present, w, probe, recorded, crashed, hist, pushed>>

\* ... and later every key of detector.Clone() not in data is DelKey'd.
ScavengeDetector ==
    /\ ~crashed /\ scav.pc = "detector"
    /\ w' = [k \in Keys |-> IF k \in scav.data THEN w[k] ELSE NoWindow]
    /\ hist' = [k \in Keys |-> IF k \in scav.data THEN hist[k] ELSE <<>>]
    /\ scav' = [pc |-> "idle", data |-> {}]
    /\ UNCHANGED <<present, probe, recorded, crashed, pushed>>

Next ==
    \/ \E k \in Keys : SetKey(k) \/ DelKeyFromStore(k)
    \/ \E p \in Probes :
          \/ \E k \in Keys : Fanout(p, k)
          \/ \E o \in Outcomes : Ping(p, o)
          \/ Phi(p)
          \/ Absorb(p)
    \/ ScavengeStart
    \/ ScavengeDetector

Spec == Init /\ [][Next]_vars

-----------------------------------------------------------------------------
(* Properties.                                                             *)

\* Every window the detector holds agrees with the outcomes pushed into it
\* since it was created: Len() is the fill count capped at the window
\* size, LastNSamples returns the most recent ones oldest first, and Phi
\* equals the unanimity rule of the spec (section 4.2) applied to them.
WindowMatchesReference ==
    \A k \in Keys : w[k] # NoWindow =>
        /\ WLen(w[k]) = IF Len(hist[k]) < WindowSize THEN Len(hist[k]) ELSE WindowSize
        /\ LastNSamples(w[k], WLen(w[k])) = LastOfSeq(hist[k], WLen(w[k]))
        /\ PhiOf(w[k]) = RefPhi(hist[k])

\* No verify goroutine evaluates Phi on a key whose window the scavenger
\* deleted after that goroutine's Ping (a nil dereference that panics).
NoPhiOnDeletedWindow == ~crashed

\* The status makeGossip2 records last for a key is never derived from an
\* older window than the one it replaces: outputs are stamped in the order
\* they reach outputCh, not the order of the Pings they come from.
RecordedFollowsPings ==
    [][\A k \in Keys : recorded'[k].seq >= recorded[k].seq]_vars

=============================================================================
