----------------------------- MODULE GossipStore -----------------------------
(***************************************************************************)
(* The gossip half of the consensus store for one key, on every node:      *)
(*                                                                         *)
(*  - gcm[n][m]  : gossipCacheManager.data[key].consensus[m] on node n;    *)
(*  - lastTs[n]  : bridge.lastTimeStamp of node n;                         *)
(*  - queue[n]   : the memberlist TransmitLimitedQueue of n's MyDelegate,  *)
(*                 each entry with its transmit count;                     *)
(*  - net        : UDP packets in flight, each carrying the broadcasts     *)
(*                 GetBroadcasts put in it;                                *)
(*  - members[n] : the nodes n's memberlist holds alive or suspect.        *)
(*                                                                         *)
(* pub (what each origin published) and seen (the newest timestamp n ever  *)
(* held for m) are history variables. Observations carry the raw value    *)
(* and key only as payload, so a message is (node, timestamp, status).     *)
(***************************************************************************)
EXTENDS Naturals, FiniteSets

CONSTANTS
    Nodes,
    Origins,        \* nodes whose verifier produces outputs for the key
    Statuses,       \* derived statuses makeGossip2 can stamp
    MaxTs,          \* bound on the timestamps an origin issues
    TransmitLimit,  \* RetransmitMult * ceil(log10(NumNodes + 1))
    MaxInFlight,    \* bound on the packets in flight at once
    Absent          \* model value: no slot for that origin

ASSUME Origins \subseteq Nodes /\ TransmitLimit \in Nat \ {0} /\ MaxTs \in Nat

Obs == [node : Nodes, ts : 1 .. MaxTs, status : Statuses]

VARIABLES gcm, lastTs, queue, net, members, pub, seen

vars == <<gcm, lastTs, queue, net, members, pub, seen>>

TypeOK ==
    /\ gcm \in [Nodes -> [Nodes -> Obs \cup {Absent}]]
    /\ lastTs \in [Nodes -> 0 .. MaxTs]
    /\ queue \in [Nodes -> SUBSET [msg : Obs, transmits : 0 .. TransmitLimit - 1]]
    /\ net \subseteq [to : Nodes, msgs : SUBSET Obs]
    /\ members \in [Nodes -> SUBSET Nodes]
    /\ pub \in [Nodes -> SUBSET Obs]
    /\ seen \in [Nodes -> [Nodes -> 0 .. MaxTs]]

-----------------------------------------------------------------------------
\* MyBroadcastMessage.Invalidates: same node and key, strictly newer.
Invalidates(new, old) == new.node = old.node /\ new.ts > old.ts

\* gossipCacheManager.Set accepts o when the origin has no slot yet or o is
\* strictly newer than the slot.
Newer(slot, o) == slot = Absent \/ o.ts > slot.ts

\* The observations of msgs that a run of Set over them leaves stored: for
\* each origin the newest one, if Set accepts it. (Set is last-writer-wins
\* per origin, so the order of the run does not change the outcome.)
Accepted(n, msgs) ==
    {o \in msgs : /\ Newer(gcm[n][o.node], o)
                  /\ \A p \in msgs : p.node = o.node => p.ts <= o.ts}

\* Set on node n for every observation of msgs: the accepted ones replace
\* their slots and are queued for broadcast (SetBroadcasts ->
\* QueueBroadcast), each dropping the queued broadcasts it invalidates.
SetAll(n, msgs) ==
    LET acc == Accepted(n, msgs)
    IN  /\ gcm' = [gcm EXCEPT ![n] = [m \in Nodes |->
                      IF \E o \in acc : o.node = m
                      THEN CHOOSE o \in acc : o.node = m
                      ELSE gcm[n][m]]]
        /\ queue' = [queue EXCEPT ![n] =
                      {b \in @ : ~\E o \in acc : Invalidates(o, b.msg)}
                      \cup {[msg |-> o, transmits |-> 0] : o \in acc}]
        /\ seen' = [seen EXCEPT ![n] = [m \in Nodes |->
                      IF \E o \in acc : o.node = m /\ o.ts > seen[n][m]
                      THEN (CHOOSE o \in acc : o.node = m).ts
                      ELSE seen[n][m]]]

Init ==
    /\ gcm = [n \in Nodes |-> [m \in Nodes |-> Absent]]
    /\ lastTs = [n \in Nodes |-> 0]
    /\ queue = [n \in Nodes |-> {}]
    /\ net = {}
    /\ members = [n \in Nodes |-> Nodes]
    /\ pub = [n \in Nodes |-> {}]
    /\ seen = [n \in Nodes |-> [m \in Nodes |-> 0]]

\* makeGossip2: an output of n's verifier is stamped
\* Max(now, lastTimeStamp) + 1 and stored through Set under n's address.
Publish(n, s) ==
    LET o == [node |-> n, ts |-> lastTs[n] + 1, status |-> s]
    IN  /\ lastTs[n] < MaxTs
        /\ lastTs' = [lastTs EXCEPT ![n] = o.ts]
        /\ pub' = [pub EXCEPT ![n] = @ \cup {o}]
        /\ SetAll(n, {o})
        /\ UNCHANGED <<net, members>>

\* memberlist's gossip round to member m: GetBroadcasts packs every queued
\* broadcast into the packet, counts one transmit on each and drops those
\* that reached the limit.
Gossip(n, m) ==
    /\ m \in members[n] \ {n}
    /\ queue[n] # {}
    /\ Cardinality(net) < MaxInFlight
    /\ net' = net \cup {[to |-> m, msgs |-> {b.msg : b \in queue[n]}]}
    /\ queue' = [queue EXCEPT ![n] =
                   {[b EXCEPT !.transmits = @ + 1] :
                       b \in {c \in @ : c.transmits + 1 < TransmitLimit}}]
    /\ UNCHANGED <<gcm, lastTs, members, pub, seen>>

\* The packet arrives and its broadcasts are applied: NotifyMsg parses and
\* appends each to msgs, and the next consumeGossip takes them all
\* (GetMessages) and applies each with Set. The wait in msgs is folded into
\* the packet's time in flight.
Deliver(p) ==
    /\ p \in net
    /\ net' = net \ {p}
    /\ SetAll(p.to, p.msgs)
    /\ UNCHANGED <<lastTs, members, pub>>

\* UDP loses the packet.
Drop(p) ==
    /\ p \in net
    /\ net' = net \ {p}
    /\ UNCHANGED <<gcm, lastTs, queue, members, pub, seen>>

\* n's memberlist declares m dead (a missed probe is enough) and tells
\* MyEventDelegate.NotifyLeave, and the node drops out of Members(); later
\* it is alive again (its refutation, or reJoinGossipNodes). Only origins are
\* declared dead here: a relay holds no slot of its own, and the gossip
\* rounds a relay's death would skip are already behaviours in which
\* nobody picks it as a target.
MarkDead(n, m) ==
    /\ m \in (members[n] \cap Origins) \ {n}
    /\ members' = [members EXCEPT ![n] = @ \ {m}]
    /\ UNCHANGED <<gcm, lastTs, queue, net, pub, seen>>

Revive(n, m) ==
    /\ m \notin members[n]
    /\ members' = [members EXCEPT ![n] = @ \cup {m}]
    /\ UNCHANGED <<gcm, lastTs, queue, net, pub, seen>>

\* scavenge, gcm part: every slot of a node not in Members() is deleted
\* with DelNodeAddr.
Scavenge(n) ==
    /\ \E m \in Nodes \ members[n] : gcm[n][m] # Absent
    /\ gcm' = [gcm EXCEPT ![n] = [m \in Nodes |->
                  IF m \in members[n] THEN gcm[n][m] ELSE Absent]]
    /\ UNCHANGED <<lastTs, queue, net, members, pub, seen>>

Next ==
    \/ \E n \in Origins, s \in Statuses : Publish(n, s)
    \/ \E n, m \in Nodes : Gossip(n, m) \/ MarkDead(n, m) \/ Revive(n, m)
    \/ \E p \in net : Deliver(p) \/ Drop(p)
    \/ \E n \in Nodes : Scavenge(n)

Spec == Init /\ [][Next]_vars

-----------------------------------------------------------------------------
(* Properties.                                                             *)

\* Per node and origin, a stored observation is never older than one the
\* node held before: spec section 3's "a write is applied only if its
\* timestamp is strictly greater than the existing timestamp for that node
\* (monotonic per node)". Set's strict > (gossipCache.go:77) keeps it
\* through any loss, duplication and reordering of packets, but the
\* scavenger's DelNodeAddr (scavenger.go:26) empties the slot of an origin
\* that left the holder's member list, and a late packet of that origin
\* then fills it with an older observation, which Set also re-queues for
\* broadcast.
SlotNeverRegresses ==
    \A n, m \in Nodes : gcm[n][m] # Absent => gcm[n][m].ts >= seen[n][m]

=============================================================================
