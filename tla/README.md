# TLA+ models of stcache (couchbase-ha-service)

This directory holds TLA+ models of the Go service in
`src/src/couchbase-ha-service`, the TLC configurations that check them, and
`PROJECT.json`. `PROJECT.json` lists the components, the runs, the mutants,
the source lines behind each definition (`map`), the findings and the hazards.

## The system

Each node of the service runs a pipeline. The pieces are:

- **cacheManager** (`cache.go`): the replicated table of tracked keys, with
  key -> verification input. It is written only by the raft **FSM**
  (`fsm.go`, `Apply` of `SET`/`DELETE`), and restored from snapshots.
- **Detector / Windowed** (`commonDetector.go`): one ring buffer of 5
  verification outcomes per key. `Phi` answers a status only when the last
  3 samples agree.
- **Verifier** (`commonVerifier.go`): for each input it starts a goroutine
  (pool of 100) that runs `Ping` (the script, then a push) and then `Phi`,
  and sends the result to `outputCh`.
- **bridge** (`bridge.go`):
  - `makeGossip1` feeds every key of `cm.Clone()` to the verifier every
    scan period.
  - `makeGossip2` stamps each output with a Lamport timestamp, stores it
    locally (`gossipCacheManager.Set`) and broadcasts it.
  - `consumeGossip` stores peers' messages.
- **gossipCacheManager** (`gossipCache.go`): per key, the latest
  (status, timestamp) of every node, plus the consensus bookkeeping
  (`prevConsensus`, `prevEventTime`, `empty`, `emptyTime`). That bookkeeping
  is written through the raft log (`NOTIFY_*` entries).
- **quorumChecker** (`quorum.go`): on the leader, every period it clones the
  gcm and runs `checkEvent` and `checkEmpty` for each key.
  - `hasEvent` counts each status among the nodes' observations newer than
    the last event (and at most `STALE_INFO_INTERVAL_IN_SECONDS` = 300 s old) and picks the one reaching the
    quorum.
  - An event is an UP<->DOWN transition from `prevConsensus`, or a first
    status after a pending.
  - An event appends `NOTIFY_TIME` to raft and queues the notification script
    (`doTimeoutShellCmd`, `ShellCmdTimeout` in `shellCmd.go`).
  - `quorumCheck2` records the notified status (`NOTIFY_STATUS`,
    `NOTIFY_EMPTY`).
  - Both checks are gated by `eventInterval` since the last notification.
- **scavenger** (`scavenger.go`): deletes gcm and Detector entries of keys
  no longer in the cacheManager.
- **LRU cache** (`lru.go`): a mutex-guarded doubly linked LRU list with a
  key -> node map. Nothing else in the service uses it.
- **gossip / delegate / stCached / http**: memberlist transport, leadership
  monitor and write flag, and the admin HTTP API.

The hard behaviours are:

- concurrent verify goroutines on one key;
- the scavenger racing those goroutines;
- the read-write lock discipline of the two caches;
- the time-gated, asynchronous notify-then-record protocol of the quorum
  checker;
- lossy, reordered gossip;
- leadership changes;
- raft snapshots.

## Modules

### `QuorumChecker.tla` (with `MCQuorumChecker.tla`)

This is one key on a stable leader. Time is counted in ticks of the scan
period.

| state | code |
|---|---|
| `obs[n]` | gcm's `consensus[node]` (status, timestamp) |
| `cons` | `prevConsensus`, `prevEventTime`, `empty`, `emptyTime` |
| `pc`, `snap` | the scan in progress and its `Clone()` |
| `jobs` | notifications between `cmdCh` and the raft record of `quorumCheck2` |
| `notified` | the scripts' external effect, a history |
| `decided` | a history of the last decision of each check |

| action | code |
|---|---|
| `Set` | `gossipCacheManager.Set`: last writer wins on a strictly newer timestamp |
| `QuorumCheck1` | the snapshot |
| `CheckEvent` | `checkEvent` with `hasEvent` |
| `CheckEmpty` | `checkEmpty` with `emptyRecover` |
| `RunScript` | `doTimeoutShellCmd` |
| `QuorumCheck2` | `quorumCheck2` |
| `Tick` | the clock; a script never outlives `ScriptTimeout` (`ShellCmdTimeout` kills it) |

- `ZeroTime` stands for `time.Time{}.UnixNano()`, which is below every real
  timestamp.
- The Go map iteration that picks `statusNow` is a choice (`\E s \in StatusNow`).

### `Detector.tla` (with `MCDetector.tla`)

This is one node's verification side.

| state | code |
|---|---|
| `w` | the rings |
| `probe` | verify goroutines: `Fanout`, then `Ping`, `Phi`, `Absorb` (makeGossip2's stamp) |
| `present` | the cacheManager's keys: `SetKey`/`DelKeyFromStore`, the FSM |
| `scav` | the scavenger between its `cm.Clone()` and its detector pass (`ScavengeStart`, `ScavengeDetector`) |

- `Push`, `WLen`, `LastNSamples` and `PhiOf` translate `Windowed` and
  `Detector.Phi`.
- `LastOfSeq` and `RefPhi` are the reference definitions over the sequence
  of pushed outcomes (`hist`).
- `GoRoutineInTimeScale` (base.go) only sets how long `makeGossip1`
  sleeps between fan-outs. `Fanout` may happen at any time, so the interval
  is not modelled.

### `QuorumRules.tla`

This module holds the `gossipStatus` values and `hasEvent`'s outcome rule (`EventKind`: event, pending or none), shared by `QuorumChecker` and `Replication`.

### `GossipStore.tla` (with `MCGossipStore.tla`)

`GossipStore` is the gossip half of the consensus store for one key, on every node, with the scavenger's `DelNodeAddr` pass. Its property is spec section 3's per-node monotonic write (`SlotNeverRegresses`).

| state | code |
|---|---|
| `gcm[n][m]` | node n's `consensus[m]` for the key |
| `lastTs[n]` | `bridge.lastTimeStamp` |
| `queue[n]` | the `TransmitLimitedQueue` of n's `MyDelegate`, with transmit counts |
| `net` | UDP packets in flight, each carrying what `GetBroadcasts` packed |
| `members[n]` | n's memberlist view (alive or suspect nodes) |
| `pub`, `seen` | history: what each origin published, and the newest timestamp n ever held per origin |

| action | code |
|---|---|
| `Publish` | `makeGossip2`: stamp `max(now, last)+1`, `gcm.Set` |
| `SetAll` (inside `Publish`/`Deliver`) | `gcm.Set` on a strictly newer timestamp or an absent slot, and its `SetBroadcasts`, where `QueueBroadcast` drops the invalidated entries |
| `Gossip` | `GetBroadcasts` in one gossip round: every queued broadcast goes into one packet, and an entry is retired after `TransmitLimit` transmits |
| `Deliver`, `Drop` | `NotifyMsg` + `getMessages` + `consumeGossip` in one step, or UDP loss |
| `MarkDead`, `Revive` | memberlist declaring an origin dead (`NotifyLeave`; it leaves `Members()`), its refutation or `reJoinGossipNodes` |
| `Scavenge` | the scavenger's `DelNodeAddr` pass (scavenger.go:23-28); its `DelKey` pass is not modelled |

`LocalState` is always empty, so push-pull carries nothing and is left out.

### `Replication.tla` (with `MCReplication.tla`)

This module covers one tracked key across the raft servers. Raft is a library, so its guarantees are taken as given: one committed log, only the leader appends, and a new leader has every committed entry.

| state | code |
|---|---|
| `log` | the committed raft log of `logEntryData` |
| `applied[r]`, `fsm[r]` | how far `FSM.Apply` got on r; the key's presence in `cm` and the gcm fields `prevConsensus`, `prevEventTime`, `empty`, `emptyTime` |
| `snap[r]` | r's latest persisted snapshot: its index and the `cm` in it (`FSM.Snapshot` holds `cm` only), and `taking`, the index of a snapshot not yet persisted |
| `restoredAt[r]` | history: the applied index at which the snapshot r last restored was written |
| `leader`, `writeFlag[r]` | the raft leader; `httpServer.enableWrite`, which starts off (`ENABLE_WRITE_FALSE`) and follows `leaderNotifyCh` with a lag |
| `world` | the status fresh observations agree on; `GossipStore` and `QuorumChecker` model how it forms |
| `jobs` | notifications between `cmdCh` and `quorumCheck2` |
| `notified`, `sinceRecord` | history: the scripts' effect, and what was notified since the last `NOTIFY_STATUS` record |

| action | code |
|---|---|
| `Tick(s)` | a scan period passes; `ShellCmdTimeout` bounds each job; the observed status may change |
| `Elect`, `StepDown` | raft leadership |
| `SyncWriteFlag` | `monitorLeadrship` -> `setWriteFlag` |
| `Apply` | `FSM.Apply` of the next entry |
| `Snapshot`, `Persist`, `Restart` | `FSM.Snapshot` returns a reference to the live `cm` at r's applied index; raft persists it at a later step (`Persist`, taken to write `cm.Marshal()`; the snapshot type's `Persist` is not in the repository), so it may hold entries past its index. A crash and restart loses an unpersisted snapshot and brings a fresh gcm, `FSM.Restore` (`cm.UnMarshal`) and replay from the snapshot's index |
| `AdminWrite` | `doSet`/`doDel`: `checkWritePermission`, then a raft append |
| `QuorumCheck` | `quorumCheck1` at most once per period: flag, `Barrier`, `checkEvent` + `checkEmpty` on the clone of the gcm entry, whether or not `cm` still holds the key (only the scavenger's unmodelled `DelKey` removes the entry). Each `notifyFollower` may fail: leadership is lost part-way, or with `ApplyTimeouts` any append may fail; the notifications are queued regardless |
| `RunScript`, `Record` | `doTimeoutShellCmd` (skipped without the flag); `quorumCheck2`'s record, which fails off the leader |

### `CacheManager.tla`

The `sync.RWMutex` of `cacheManager` around its Go map. Each method's map
access is split into `EnterMap`/`LeaveMap`, so that overlapping accesses are
states. Readers do `Get`, `GetKey`, `Clone`, `Marshal` or `MarshalForKey`;
the FSM goroutine does `Set`, `Del` and `UnMarshal` (`FSM.Restore`, whose
`c.data = newData` replaces the whole table, `Tables`). `TakesWriteLock`
records which methods take `Lock`: `Set` and `UnMarshal` do, and `Del` does
not.

### `LRU.tla` (with `MCLRU.tla`)

`lru.go` as a heap of linked cells:
- The variables are the cells' `key`/`value`/`prev`/`next` fields, `mp`,
  `head` and `tail`. `Nil` is the nil pointer.
- `Get` and each branch of `Put` (`PutFirst`, `PutHeld`, `PutNew`) are one
  step each, because the mutex is held for the whole call.
- Their statements are applied one after another to a record (`Heap`)
  through `removeAndInsert`, `delTail`, `SetNext` and `SetPrev`.
- A write through nil sets `panicked`, and nothing runs after it.
- A new node takes a cell that no live pointer reaches (`Free`). This is
  the garbage collector's reuse, which Go code cannot observe.

`Get` of the head runs `node.next = c.head` without unlinking it first,
which links the head to itself (line 56). The `prev` chain from the tail
still holds the recency order after that, until a `Get` of the node
behind the head splices through the loop. With capacity 1, `delTail`
writes through the only node's nil `prev` (line 89); no run uses that
capacity.

## Runs

| run | result | shows |
|---|---|---|
| `quorum_once` (`QuorumOnce.cfg`) | pass | With 3 nodes, quorum 2, UP/DOWN/EMPTY observations, `eventInterval` 2 ticks, script timeout 2, staleness 2, 30 ticks, every transition and every EMPTY/recovery is notified exactly once (`NotifyOncePerTransition`). Whenever no notification is outstanding, the raft-recorded `prevConsensus`/`empty` equal the checks' last decision (`RecordedMatchesDecided`). |
| `quorum_slow_script` | violation | With a script timeout of 3 > `eventInterval`, EMPTY is notified twice. The gate reopens before `quorumCheck2` has recorded `empty`. With the defaults (60 s interval; a script timeout of 60 s plus the 1 s kill grace plus a 5 s raft apply), the real round trip exceeds the interval. |
| `quorum_eventually` | pass | Under `FairSpec`, with 3 nodes reporting UP or DOWN, quorum 2 and the same timing as `quorum_once`, a status that a majority keeps reporting is eventually the recorded `prevConsensus` for good (`StableRecorded`). The dissenting node may keep reporting the other status. No symmetry, since it is unsound with per-node fairness. |
| `detector_window` | pass | Through wrap-around and two concurrent probes, `Len`, `LastNSamples` and `Phi` agree with the reference definitions (`WindowMatchesReference`). |
| `detector_scavenge_race` | violation | Delete, then scavenger clone, then re-add, then Ping creates a new window. The scavenger deletes it, and `Phi` dereferences nil (`NoPhiOnDeletedWindow`). |
| `gossip_scavenge_regress` | violation | With 3 nodes (1 origin, 2 relays), 2 statuses, timestamps up to 2, a retransmit limit of 2 and 2 packets in flight: the origin publishes ts 1 and ts 2; a packet with ts 1 to relay n2 is delayed; n2 learns ts 2, declares the origin dead and scavenges its slot (`DelNodeAddr`); the late packet arrives and `Set` stores ts 1 in the empty slot and queues it for broadcast (`SlotNeverRegresses`). Spec section 3 says writes are monotonic per node. With the `Scavenge` action removed, the same bounds give no violation, so loss, duplication and reordering alone cannot cause it. |
| `replication_restart` | pass | With 2 servers, one restart, 2 elections, apply timeouts, a log of 3 and 3 ticks, every server's `cm` matches the log prefix it has applied once its replay has passed the index at which the restored snapshot was written (`CmFollowsLog`, against the recursive reference `PresentAfter`). Before that point the `cm` can be ahead of its index: a snapshot persisted after a later DELETE restores a `cm` without the key at an index where the log still has it. TLC reaches that state, and the property shows the replay always repairs it, because SET and DELETE overwrite. |
| `replication_failover` | pass | With no restarts, through 2 elections, the write-flag lag, leadership lost part-way through a scan and lost records (UP/DOWN, write flags starting off, a log of 5, 4 ticks), a UP<->DOWN transition is recorded only after it was notified (`NotifiedBeforeRecorded`). |
| `replication_restore_amnesia` | violation | A pending UP is recorded. The leader snapshots `cm` at that index, restarts and is re-elected. Its gcm has lost `prevConsensus` and `prevEventTime`, so one tick later it records DOWN as a pending, with no notification. |
| `replication_failed_append` | violation | Leadership is lost while `NOTIFY_TIME` is appended. The DOWN job is queued anyway, and the same server is re-elected. With the gate still open, DOWN is notified twice (`NotifyOnce`). |
| `lru_overflow` | violation | With capacity 3 (the value `test()` uses) and 4 keys, the trace is Put k1, Put k2, Get k2 (self-loop), Put k3, Get k2, Get k1, Get k3, Put k4, Put k2. The middle-node unlink of k2 in the fifth call splices through the self-loop, so the old tail's `prev` skips a node. Later evictions delete a key that is already gone, and the map holds 4 keys (`SizeWithinCap`). |
| `cache_del_race` | violation | `Del` under `RLock` overlaps a reader inside the map (`NoConcurrentMapWrite`), which is Go's fatal concurrent map write. |

Every property of a passing run has a mutant in `PROJECT.json`. Each mutant
is an operator defined next to the original that TLC must refute:

- `Tick_NoKill`: no script kill at the timeout.
- `CheckEvent_PendingKeepsStatus`: the pending branch drops `NOTIFY_STATUS`.
- `QuorumCheck2_AllAsStatus`: the EMPTY cases are dropped.
- `Push_NoWrap`: `head` never wraps.
- `LastNSamples_AtHead`: reads the newest sample at `head` instead of `head-1`.
- `ApplyEntry_TimeUnits`: `NOTIFY_TIME` is converted with the wrong unit.
- `Restart_KeepApplied`: a restored server resumes at its old index.
- `EventKind_PendingFirst`: `hasEvent` tests "pending" before "transition".

## Bounds and reductions

**Quorum runs.** Three nodes and quorum 2 are the smallest majority in which
one node can disagree. Three observed statuses give transitions, pendings,
EMPTY and recovery.

- An interval, timeout and staleness of 2 ticks let observations go stale,
  gates reopen and scripts overlap scans.
- 30 ticks allow many successive transitions.
- `StateView` replaces timestamps by ages capped at the horizon where no
  guard can tell them apart. Observations that are stale or older than the
  watermark count as absent.
- Node symmetry is sound because nothing distinguishes nodes.

**Detector runs.** One key and two probes.

- Seven pushes wrap the ring of 5 once and leave minSamples 3 after it.
- Probe symmetry is sound.
- `CHECK_DEADLOCK FALSE`: the push bound ends every behaviour, and a panic
  ends the process.

**Cache run.** One reader and the FSM writer, one key and one value.

**LRU run.**
- Capacity 3 (the value `test()` uses) with 4 keys and 6 cells. The
  overflow needs 9 calls.
- Cell symmetry is sound because addresses are only compared with each
  other.
- `StateView` blanks the fields of free cells, which no one reads again.

**Gossip runs.** These use three nodes with one origin, and the other two are symmetric relays (`SYMMETRY`).
- Only origins publish and only origins are declared dead: a relay holds no slot of its own. A relay's death only removes it as a gossip target, which behaviours that never pick it already cover.
- Two timestamps give one replacement.
- A retransmit limit of 2 lets an entry be retired while copies are in flight.
- `MaxInFlight` 2 bounds the packets.
- The violation needs only one origin and two timestamps.

**Replication runs.** These use two servers (symmetric). Each question has its own bounds:
- The restart run keeps a single observed status (UP) so that SET/DELETE, snapshots and the restart dominate. Its log of 3 (the initial SET and two more entries) is the least that lets a snapshot taken at one index be persisted after a SET or DELETE at the next and still leaves an entry to replay. A log of 4 with the late persist exceeds the time budget.
- The failover runs use UP and DOWN without restarts. The failover run's log of 5 is the initial SET plus the least that holds a pending UP (`NOTIFY_TIME`, `NOTIFY_STATUS`) and a notified DOWN with its `NOTIFY_TIME` and record. A log of 6 exceeds the time budget.

`quorumCheck1` runs at most once per server per tick, as `GoRoutineInSleep` schedules it. An election happens only from a leaderless state; a direct hand-over is a step-down followed by an election. `StateView` drops snapshots once no restart is left, since only `Restart` reads them, and the restore point once the replay has passed it. It also keeps only the last notification of each kind, which is all the properties compare with. `CHECK_DEADLOCK FALSE`: the clock, log and election bounds end every behaviour.

## Fairness

Only `quorum_eventually` assumes fairness (`QuorumChecker!FairSpec`).

- **Weak fairness:**
  - `QuorumCheck1`, `CheckEvent` and `CheckEmpty`: `quorumCheck1` runs in
    `GoRoutineInSleep` every 10 s.
  - Each node's `Set`: every node's `makeGossip1` re-verifies and
    re-broadcasts every period, so some observation of it keeps reaching
    the leader however many packets are lost.
  - `RunScript` and `QuorumCheck2`: their goroutines run as soon as they can.
- **Strong fairness on `Tick`:** time cannot stop, although `Tick` is
  disabled while a scan is in progress or a script is running.

`Set` may still choose any status, so the dissenting node is unconstrained.
With quorum 1 of 3, TLC finds `StableRecorded` violated: `hasEvent`'s map
order can keep picking the minority status (`quorum.go:225`). No fairness
is assumed for gossip delivery in `GossipStore`, because memberlist's UDP
transport gives none.

"A majority keeps reporting s" (`MajorityAt`) counts only observations that
are not stale (`now - ts <= StaleAfter`), the same ones `checkEvent` counts.
`StateView` merges a stale observation with an absent one, so a property
that read stale observations would not be preserved by the view. Counting
only fresh observations keeps `StableRecorded` sound under `VIEW`.

## Not modelled yet, and the plan

Later modules will be added in this order:

1. **Scavenger's `DelKey` pass** in `Replication`, which resets the replicated bookkeeping on each node at its own time.
2. **Liveness of EMPTY.** `StableRecorded` covers UP/DOWN; an EMPTY majority being recorded (`cons.empty`) needs EMPTY in `Observed`, which is beyond the time budget without node symmetry: with UP, DOWN and EMPTY observed, the check of an EMPTY liveness property on its own passes 7 million distinct states in 10 minutes without finishing.
3. **Pipeline.** A composition of Detector, GossipStore and QuorumChecker
   over several nodes. It will have a liveness property (a stable majority
   status is eventually notified) under weak fairness of the periodic loops,
   which `GoRoutineInSleep` and `GoRoutineInTimeScale` justify. It will also cover clock skew
   between nodes.

Out of reach or out of scope:

- `lru.go`'s `test()` and `ArticlesCategoryHandler` are never called; they only print.
- `options.go` and `main.go` are wiring; the defaults give the constants.
- `doJoin`/`doLeave` (raft and gossip membership changes) are left out; the server set is fixed. The other HTTP handlers only read.
- The raft library (election, replication, snapshot persistence) is taken as given; its snapshot sink is not in the repository.
- `MyEventDelegate.Num` (and with it the retransmit limit) is the constant `TransmitLimit`.
