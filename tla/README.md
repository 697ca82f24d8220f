# A verification project for the DynamoDB Streams consumer

The repository is a consumer library for DynamoDB Streams in the style of the Kinesis Client
Library: a fleet of workers shares the shards of a stream through leases in a DynamoDB table,
delivers every record at least once and in order within a shard, persists checkpoints, follows
reshards from parent to child, and talks to clients in other languages through a sidecar process.
This directory models that coordination in TLA+, checks it with TLC on small instances, and proves
the central safety properties with TLAPS for every instance.

Line numbers below refer to the sources of the repository; `PROJECT.json` maps every definition to
the lines it models.

## The system

| Part | State | Operations | What makes it correct |
|---|---|---|---|
| Lease table (`lease-dynamodb/src/dynamodb.rs`) | one row per shard: owner, counter (the optimistic lock), checkpoint, completed flag, parents; plus a heartbeat row per worker and the leader sentinel | conditional writes `acquire`/`claim`, `renew`, `checkpoint`, `heartbeat`, `mark_complete`, `delete_lease`, `release`, `create_shard_lease`, `try_acquire_leadership`; an eventually consistent scan `list_all`; `ensure_table` at every start | a worker that was displaced cannot write; a stale read never turns into a wrong write; no start alters a table that is not its own |
| Shard processing (`worker/src/fleet.rs`: `process_shard`, `CkptDefer`, `release_owned`) | per pass: resume position and counter; per worker: pending acks | read a batch, deliver it, persist the ack now or later, finish a shard, give leases back | at-least-once delivery: no position that anybody can resume from lies beyond an unacknowledged record; a shard is completed exactly once all of it was acknowledged |
| Coordination cycle (`run_cycle`) | none of its own | leadership, shard sync, heartbeat, tick, acquire, re-read, one task per owned and eligible shard | parent before child; the cycle keeps its worker alive in the eyes of the others |
| Shard discovery and garbage collection (`leader_shard_sync`, `cleanup_completed_leases`, `core/src/cleanup.rs`, `core/src/leader.rs`) | `SyncState`: seeded, child_synced | seed from a full describe, per-parent child lookup, fallback, tombstone deletion | no shard is lost, reopened, or started at the wrong position |
| Leader election (`Leadership::step`) | a counter and a coordinator of its own | scan, renew, create, steal | one winner per counter value; a dead leader is replaced |
| Lease coordinator and taker (`core/src/coordinator.rs`, `core/src/taker.rs`) | per observed worker: last counter and when it changed | `tick`, `is_owner_expired`, `compute_leases_to_take` | live workers are not reaped, dead ones are, and rebalancing comes to rest |
| Sidecar (`sidecar/src/ipc.rs`, `sidecar/src/main.rs`, `protocol/`) | waiters by shard, the stop flag, the connection | `deliver_batch`, the reader task, the main loop, `graceful_handoff` | acks reach the batch they are for; leases are announced before they are given up; a stop ends the process |
| Stream source (`source-ddbstreams/`) | the cursor cache | `describe_shards`, `describe_child_shards`, `get_records`; pure: `build_shard_graph`, `merge_child_shards`, `close_open_parents` | a batch continues exactly after the requested position; the lineage is the same however it was looked up |
| Bounded pool and idle backoff (`run_bounded_pool`) | the pool's limit and queue, the schedule of shards across cycles | run at most `k` passes, fold their outcomes, back idle shards off, resize online | a shard is never with two pool workers, and every shard is polled again |
| In-process `Scheduler` and single `Worker` (`core/src/lib.rs`, `worker/src/lib.rs`, `worker/src/aws.rs`) | the pass: shards, completion snapshot, counter and position | pass after pass over the eligible shards until all are complete | parent before child; rows say what was done; an `Ok` means that the stream is drained, and it comes |
| Clients (`clients/`) | - | handle lines in order, acknowledge a batch after it was handled | - |

Workers interact through the table alone: nobody sends a message to another worker. What is hard
follows from that: every decision is made on a scan that may already be out of date (and may be
older than the previous one), every write can succeed without its reply arriving, an owner
learns that it was displaced only from its next conditional write, several workers may believe to
lead, processes die between any two calls, and clocks are local. The stream changes too: shards close, open
and age out between two pages of one describe. In the sidecar the hard part is
the one connection shared by all shards, whose two directions and whose end race each other.

## Modules

Every module splits its handlers at the awaits on the lease table or the stream: what happens
between two awaits is one action, so another worker can act between a read and the write that
depends on it. Payloads are reduced to positions; a sequence number is a number in `1..LastSeq`,
and 0 stands for TRIM_HORIZON.

- **`LeaseStore`** - the conditional writes on a row as operators: the condition (`Holds`,
  `Unmoved`) apart from the effect (`Claimed`, `Checkpointed`, `Completed`, `Released`), so an action
  can state both outcomes. Claiming and checkpointing move the counter; `mark_complete` does not.
- **`Fleet`** - workers over shards whose rows are published: the scan, the decision what to take
  (any set of open leases that are not its own; which of them is `Balancer`'s subject), the read
  and the conditional claim, the re-read that starts the passes, `process_shard` call by call
  (deliver, checkpoint, flush at SHARD_END, mark complete), `CkptDefer` (`pending`), a graceful stop
  with `release_owned`, crashes and restarts, clients that vanish (a batch in flight then waits for its ack for ever, `DeliverHangs`).
  Stale scans read from `replica`, a copy that lags behind `lease`. A failed call was applied or was not, the flush and the
  release of a graceful stop included.
- **`ShardLog`** - the abstract specification: per shard, a log, the prefix of it that was handled, a
  durable position within the prefix, and a finish only at the end of a closed log. `Fleet`'s
  refinement maps `handled <- acked`, `durable <- checkpoint`, `finished <- completed`.
- **`ShardSync`** - the stream's lineage (`Reshard`, `Trim`), the leader's sync step by step with
  the rows of the scan at the start of its cycle (`snap`), garbage collection, and what each
  worker derives from the rows: what it takes, what is eligible, when everything is complete. Every scan may
  be old: `Views` takes each row as it is or as a lagging replica has it (`Lag`, `Replicate`). Passes are
  reduced to their effect on the row. Who leads is left open, so two leaders at once are covered.
- **`LeaseTaker`**, **`Balancer`** - `compute_leases_to_take` as operators; heartbeats, ages and ticks
  in discrete time. A heartbeat may fail and is not repeated, and a scan may miss what was written since the clock moved (`Scans`).
- **`Leadership`** - the sentinel lease, the bids and the clock of each worker.
- **`SidecarIpc`** - the connection as two queues, `deliver_batch` per shard, the reader task, the main
  loop, the handoff and the client. What the handoff finds owned includes the worker's heartbeat row (`HeartbeatRow`).
- **`Pool`** - one worker's cycles over the bounded pool: the schedule (`known`, `backoff`, `due`), the queue
  a cycle fills, its pool workers, and the fold of their outcomes when all are done. A pass is reduced to
  reading a burst of records until there is none, the end, or a failure.
- **`StreamSource`** - `get_records` for one shard, split at its calls: reuse of the cached cursor or a fresh
  iterator, the read, one attempt to heal an expired or trimmed iterator, the cursor that is stored. Around it
  passes of workers that take turns, each with its own cache, and a service that appends, trims, closes
  and expires. `is_recoverable` looks for an exception's name in the text of a boxed SDK error; whether the text holds it
  is the SDK's to decide and left open (`named`).
- **`ShardGraph`** - the lineage of a listing as operators: first sights in order (a fold that carries what was seen), parents that are present,
  the incremental merge, and the normalisation of parents that look open.
- **`TableSetup`** - the start of any process: `ensure_table` call by call (describe, create, wait, PITR with its retries)
  for processes that start at any time, race, fail and start again, on a table of their own or of the user.
- **`Standalone`** - `Worker` and `Scheduler`, chosen by `engine`, on top of the two modules before: describe page by page,
  the snapshot row by row, the loop over the eligible shards, `acquire` and `claim`, read, checkpoint, `mark_complete`, over a
  stream that is written, resharded and trimmed. Processes fail and are started again, and two workers may overlap.
  Shards are numbered, listed and created in the order of their ids (`Listings`, the guard of `Reshard`).
  Counters are only ever compared, so a row keeps the set of processes that know its current one (`knows`).
  With `engine = "fleet"` only the start of a sidecar or a Rust client is followed.
- **`MC*`** - TLC instances of these; **`*Proofs`** - theorems about the module they are named after (`FleetProofs`,
  `LeadershipProofs`, `PoolProofs`, `ShardSyncProofs`, `BalancerProofs`, `SidecarIpcProofs`, `StreamSourceProofs`, `StandaloneProofs`).

Definitions marked `Mutant:` are changed forms of the definition that follows (a dropped condition,
a swapped order). They are not part of any specification; `PROJECT.json` pairs each property with one that must break it.

The modules are related by what they leave open. `Fleet` lets a cycle take any lease and so covers
whatever `Balancer` computes; `ShardSync` lets any worker lead and so covers whatever `Leadership`
decides; `Fleet` starts from published rows, which `ShardSync` provides, and `ShardSync` uses of a pass
only that it checkpoints or completes while it owns the row. `SidecarIpc`'s `persisted` is what `Fleet`
calls an acknowledgement. `Fleet`'s passes interleave in every way, and so cover every size of `Pool`; its
`Batch` starts right after the requested position, which is what `StreamSource` checks of `get_records`.

## Runs

| Run | Properties | Shows |
|---|---|---|
| `FleetPerBatch` | `TypeOK`, `EveryPositionCovered`, `CompletedCovered`, `DurableNeverRegresses`, `CompletedIsFinal`, `ImplementsShardLog` | with a checkpoint per batch: no position in a row, a replica, a pass or a pending ack skips an unacknowledged record; the durable position never moves back; completion is exact and final |
| `FleetDrains` | `EveryPositionCovered`, `ImplementsUntilGone`, `EventuallyDrained` | with coalesced checkpoints, a failed call and clients that vanish: the same, the refinement until a client is gone, and every closed shard is completed unless all workers are down or wait for an ack of a client that left |
| `SyncSolo` | `ParentFirst`, `TombstoneFollowed`, `LineageDrains` | one worker on scans that may be old, with a failed call: parent before child, a tombstone goes only behind a child that is worked on, and a chain of three generations is completed unless an old scan ended the run or a failed create was ignored |
| `SyncPair` | `ParentFirst`, `TombstoneFollowed` | the two safety properties for two workers, both of which may lead, with a crash, a failed call and retention |
| `Leader` | `OneLeaderPerEpoch`, `LeaderlessEnds` | one leader per counter value; leadership never stays with the dead |
| `Balancer` | `TypeOK`, `LiveNeverReaped`, `OrphansReclaimed`, `FairlyShared`, `Settles` | with cycles within the lease duration and scans that may be old: nobody is reaped who is alive and gets heartbeats through, leases of the dead are taken, nobody keeps more than a fair share, stealing stops |
| `Ipc` | `PersistedWasHandled`, `AckFindsItsWaiter`, `HandoffInOrder`, `StopEnds` | acks and handoff are in order whatever the client does; a signal ends the process |
| `Pool` | `OnePassPerShard`, `NoStarvation` | a shard is with one pool worker and never dropped, also across a resize; what an owned shard has is delivered |
| `Source` | `NothingPassedOver`, `CursorsContinue`, `ReadUnlessUnnamed` | no reused, expired, trimmed or lost cursor skips a record; the shard is read to its end, unless an expiry or a trim came as an error that does not name itself |
| `Standalone` | `ForeignUntouched`, `ParentFirst`, `RowsTellTheTruth`, `LineageAgrees`, `OkMeansDrained`, `ImplementsUntilOverlap`, `Settles` | the engines without a fleet follow a stream that changes under them, over failures, restarts and overlapping workers; starts that race for the lease table do not alter a foreign one; every run ends unless it is answered with empty batches for ever |
| `FleetClientGone` | `CompletedCovered` (violated) | finding 1 below |
| `SyncSkips` | `NothingSkipped` (violated) | finding 2 |

`TypeOK` is a conjunct of `TombstoneFollowed`, `PersistedWasHandled`, `NothingPassedOver` and `RowsTellTheTruth`, and so
checked by `SyncSolo`, `SyncPair`, `Ipc`, `Source` and `Standalone`; the types of `Leadership` and `Pool` are proved, as parts of
the invariants of their proof modules.

### Bounds

Every bound is a constant in a guard. Two workers suffice for a thief and a victim; with
`MaxSteals = 1`, crashes without bound and `MaxRestarts = 1` a lease can go from one worker to the other
and back, which is what a stale handle needs to become dangerous. `LastSeq = 2` allows a checkpoint
between two deliveries and a pending ack ahead of the durable one. `MaxFaults = 1` puts a lost
reply at any one place. `MaxCounter` stops the counter of the optimistic lock; it is chosen so that the
other bounds run out first in `FleetDrains`, where a missing step would look like a
hang. `SyncSolo` has a chain of three generations, one row at a time that scans see late (`MaxLags = 1`) and one failed call; `SyncPair` a
rollover (parent and child), where two workers, a crash and a fault already interleave in every way (old scans of several workers
are left to the proofs, which bound neither). `Leader` uses a lease
duration of two time units, in which a cycle can fall before, at and after an expiry. `Balancer` has two workers, two leases, one crash or
failed heartbeat, and cycles as long as a lease lasts, one unit: the tightest case that the code gets right, and `LiveKeepLeases` proves it for every duration. `Ipc` has two shards with two batches each, so
a late ack could meet the waiter of another shard or of the next batch. `Pool` has two shards, so that one can wait
behind the other, and a ceiling of three units, which a doubled backoff of two exceeds. `Source` has three records in batches of
at most two, one expiry and one failure or crash: a cursor can be ahead of a checkpoint, behind it, trimmed and expired. `Standalone` has a shard of two records
and its successor of one, two processes, two starts and one failure: a worker can be overtaken by another one, or fail and be
started again, in the middle of a shard; `MaxAttempts = 1` (12 in the code) lets the PITR retries run out. `written`, `Room` and pages of one shard put
a reshard and a trim between any two pages. Symmetry is used only in runs
without liveness. Deadlock is not checked: a stream that was consumed, or a fleet that is down, stops.

### Fairness

Weak fairness for the steps of a live process (tokio schedules ready tasks, and calls return or
time out), for replication (DynamoDB's scans converge) and for closing a shard (shards roll over about
every four hours). Strong fairness is used where a step competes with its alternatives for ever:
- `DeliverAcked`, `DeliverUnacked`, `DeliverHangs` and `EmptyEnd` together in `Fleet`: `GetRecords` may return an empty batch now and then while
  records remain, but not for ever;
- taking an orphaned lease: `compute_leases_to_take` takes expired and unowned leases first, and in
  `Balancer` this is checked (`OrphansReclaimed`), not assumed;
- `PassCompletes` in `ShardSync`: passes that checkpoint or find nothing do not go on for ever in a shard that has ended;
- `Lead` in `ShardSync`: a worker that cycles for ever finds the sentinel its own, vacant or expired again
  and again, which `Leader` checks;
- `Read` and `Retry` in `StreamSource` with something to report: as for `Fleet`, empty batches do not go on for ever;
- `Elapse`: time passes.
Weak fairness for `TableActivates` (DynamoDB finishes creating a table), and for the stop of a worker whose client is gone, once its cycle
returns: the sidecar's main loop ends then. A delivery that hangs is given no fairness: its cycle never returns, and `EventuallyDrained` counts the worker as dead. `Standalone`
assumes nothing of what a read returns; `Settles` excuses empty batches without end. A fault, a crash, a stop of any other worker, a restart, a steal from a live owner or a client's departure is never obliged.

## Proofs

Every theorem is about the specification the runs check, for every value of the constants that
satisfies the module's assumption (finitely many shards where a count is taken, natural bounds,
`NoOwner` no worker, at most one parent per shard and no cycle in the lineage) and the hypotheses named
below. The proofs have one step per action; what is constant over a group of actions is a lemma.

**`FleetProofs`**, for any workers, shards, records, steals, faults and restarts, with either
checkpoint policy and with or without stale scans:
- `TypeCorrect`: `Spec => []TypeOK`;
- `AtLeastOnce`: `[]CheckpointCovered`, and `NoGapAnywhere`: `[]EveryPositionCovered`;
- `CompleteMeansAll`: when clients do not vanish, `[]CompletedCovered`;
- `PerBatchNeverRegresses`: with a checkpoint per batch, `DurableNeverRegresses`;
- `CompletedStays`: when clients do not vanish, `CompletedIsFinal`;
- `FleetImplementsShardLog`: when clients do not vanish, the refinement `ImplementsShardLog`, and
  `FleetImplementsUntilGone`: without restarts, `ImplementsUntilGone`.

The first four rest on the inductive invariant `Inv` (theorem `Covered`). `CheckpointCovered` is not inductive: a
checkpoint comes from a task's `val`, which comes from an ack or from `pending`; a pass starts from
a scan, which may be the replica's; so every such position has to be covered
(`EveryPositionCovered`). That completion is exact needs more: a task that works on SHARD_END has read the
whole of a closed shard (`EndIsTheEnd`), nothing was acknowledged that was not written
(`AckedWritten`), tasks exist only in the phases that run them (`TasksInPhase`), and
`CompletedUnlessGone` ties the flag to the client's presence. The proof has one lemma per group
of actions (`CycleKeeps`, `DeliverKeeps`, `CheckpointKeeps`, `EndKeeps`, `ReleaseKeeps`, `LifeKeeps`,
`StreamKeeps`), each of which reduces to `TaskKeeps`: a step that changes one task and one row.

What a step may never do needs to know how a pass and the row it would write are related, which is what the
optimistic lock is for (`OrderInv`, theorem `Ordered`). A replica is behind the row, and with the row's
counter it differs in the tombstone at most (`ReplicaBehind`), because `mark_complete` is the one write that
leaves the counter. A pass whose next conditional write would succeed (`InLock`) is where the row is, or at the
pending ack that is ahead of it (`PassAhead`, `PassFresh`); one that holds a stale tombstone has nothing left
to write (`StaleTombstone`). Acknowledged records are a prefix (`AckedPrefix`), and a complete row is
at the end of it (`CompleteRow`). The last two groups need that no client is gone (`NeverGone`): finding 1
is what happens otherwise. The refinement is then proved action by action: each
step of `Fleet` maps to a step of `ShardLog` or to a stutter.

**`ShardSyncProofs`**:
- `ParentBeforeChild`: `[]ParentFirst`, for any lineage, any workers that may all lead at once, crashes, failed calls
  and retention. `ParentFirst` speaks of what was worked on; the invariant `LineageInv` says the same of everything that
  may come to be worked on, however old: the rows, the rows a leader is about to create, the leases a
  worker is about to acquire or to process. Complete rows in any scan are complete (`CompletedIn(snap)`), and
  a parent that is not on the list has aged out (`BornInOrder`).
- `TombstonesFollowed`: `[]TombstoneFollowed`, under the same conditions. The row that lets a tombstone go may be seen in a scan that
  is older than several deletions and creations; so `LedgerInv` says of every row in the table, in the replica and in
  what a leader remembers that it names no parent but the shard's own and shows progress only where a pass made some
  (`Honest`), and of what is about to be deleted that a child of it is worked on (`MemoryHonest`).

**`BalancerProofs`**: `TypeCorrect`, and `LiveKeepLeases`: `LiveNeverReaped` when `Period <= LeaseDuration`, which a configuration has to see to.
The invariant `AgeInv` relates two clocks: what an observer that has seen a worker's latest heartbeat has counted is at most
the time since that worker's cycle began, one that may have missed it is at most a period behind (`Observed`, `Recent`), and which heartbeats a
scan may still miss is bounded (`Heard`); a worker without a heartbeat row owns nothing, so nobody counts (`NotBeating`). A worker whose heartbeat
failed is excused until one is visible again (`missed`).

**`SidecarIpcProofs`**: `AtLeastOnce` (`[]PersistedWasHandled`), `NoAckIsLost` (`[]AckFindsItsWaiter`) and `NoticesBeforeRelease`
(`[]HandoffInOrder`), for any shards and batches and whatever the client does within the protocol. That an ack finds its waiter is a statement about
the head of a queue; inductive is that every line on the connection is awaited (`LinesAwaited`) and that a shard has at most one
line on it (`OneLinePerShard`), together with the states of one `deliver_batch` (`DeliverInOrder`) and of the main loop (`MainInOrder`).

**`StreamSourceProofs`**: `NeverSkips` (`[]NothingPassedOver`) and `CacheContinues` (`[]CursorsContinue`), for any workers, length of the
shard, batch size and number of expired iterators, and whether or not errors name themselves. The iterator of a pass has to continue from the position of the pass, not only pass over what is
excused (`IteratorContinues`): an empty batch is filed under that position.

**`LeadershipProofs`**: `UniqueEpochs`, `[]OneLeaderPerEpoch`, for any number of workers and
any lease duration. The strengthening: nobody holds a counter the table has not reached
(`HeldWasWritten`), so the value a winner takes is new, and creations come from a scan that found nothing
(`CreatesFromVacant`), so the counter a winner computes from its scan is the one it wrote.

**`PoolProofs`**: `NeverSplit`, `[]OnePassPerShard`, for any shards, pool sizes, resizes, poll interval
and ceiling. Besides the type it needs only that nothing is taken between two cycles (`IdleBetweenCycles`);
otherwise the next cycle's queue could overlap with passes that still run.

**`StandaloneProofs`**, for any processes, starts, failures and overlapping workers, any finite lineage and any number of records:
- `UsersTableKept` (`[]ForeignUntouched`). A process that remembers `created` made the
  table that is there (`MakerKnows`), and past its wait the table is ACTIVE for good (`PastWait`).
- `ParentsFirst` (`[]ParentFirst`) and `RowsTrue` (`[]RowsTellTheTruth`, with it the type), from `EnginesSafe`. `ParentFirst` speaks of
  what was handled; `EngineInv` says it of what a process may come to handle. A listing, however far it
  was read, lacks no shard below its last one but the trimmed (`NoneLeftOut`), since shards are
  created in the order in which they are listed (`StreamInOrder`); what the snapshot calls complete is complete; the shard a pass
  works on is eligible in the graph of its listing, so its parents are complete or were not on the list. Of the rows it keeps that handled
  records are a prefix (`HandledPrefix`), which is what makes a complete row exact.
- `LineagesAgree` (`[]LineageAgrees`), from three lemmas about the operators: the graph of a listing in order is its map
  (`GraphIs`), two pages that overlap give the graph of the whole (`TwoPages`), and so does the merge (`Merged`).
- `OkIsDrained` (`OkMeansDrained`) and `LogUntilOverlap` (`ImplementsUntilOverlap`), from `SoloInv`: until an overlap at
  most one process is up (`OneUp`), so it works on a shard that is not complete,
  its snapshot is exact for what it has still to do, and once all it listed is complete it listed all there is (`Solo`). The refinement is then action by action.

Facts about folds over a listing need an induction over data, and the library's induction theorems cannot be used here. Its
place is taken by the least counterexample: a set of naturals that is not empty has a least member (lemma `Least`, from the library's
`WFMin` and `NatLessThanWellFounded`), hence a set that holds 0 and successors holds everything (`SetInduction`). `SightBySight` derives
the one-step recursion of the fold from its definition in the community modules, and the other lemmas apply `SetInduction` to it.

The proofs rest on `LineageAssumption`: finitely many shards, a parent's id below that of its child, and the
shards that are there from the start before all others: ids begin with the time of creation.

Only model-checked: liveness under fairness (`EventuallyDrained`, `LineageDrains`, `LeaderlessEnds`, `OrphansReclaimed`, `FairlyShared`, `Settles`, `StopEnds`,
`NoStarvation`, `ReadUnlessUnnamed`), which is out of the prover's reach.

## Findings

1. **A vanished client lets its shard be completed** (`FleetClientGone`, `fleet.rs:1014`). `deliver` returns no ack
   once the client is gone; the pass neither stops nor rewinds, reads on, and marks the
   shard complete at its end. The unacknowledged records are not delivered again, although
   `protocol/src/lib.rs:19-21` says that another worker re-delivers them.
2. **A new leader publishes children at LATEST** (`SyncSkips`, `fleet.rs:751`). The incremental sync starts the
   children of a shard that processed records at TRIM_HORIZON; the seed, which every new
   leader runs first, gives each unpublished shard the configured initial position.

### Other behaviours met while modelling

These follow from the same modules, and limit what the passing runs claim. Where a formula is given, TLC finds it violated.
- A live leader is evicted (`fleet.rs:86`). `Leadership` feeds its coordinator the sentinel row only, and ages are
  reset by heartbeat rows; so one lease duration after it was first seen a leader seems dead,
  however often it renewed: `[][sentinel.owner \in Alive => sentinel'.owner \in {sentinel.owner, NoOwner}]_vars` fails with `Period = 1`,
  `LeaseDuration = 2` and no stop or fault. `fleet.rs:76` says "a *live* leader owned by someone else is left alone". `OneLeaderPerEpoch` and `ParentFirst`
  hold all the same.
- A client that leaves with a batch in flight hangs the sidecar (`ipc.rs:147`). The reader ends without clearing the map of waiters, so the sender is
  never dropped and `deliver_batch` waits for ever, although `ipc.rs:127-128` says that it returns `None` "if the client went away first". The cycle
  does not return, the process keeps its leases until they expire, and `Fleet` counts it as dead. A client's stop at that moment does the same (`ipc.rs:63`):
  its ack is never read. `StopEnds` is therefore stated for a stop by signal and a client that stays.
- The handoff announces the heartbeat row. `owned_shards` (`fleet.rs:873`) leaves out the sentinel and not `__hb__:<worker>`, which the worker owns, and the
  client is sent a `shutdown_requested` for a shard of that name: `noticed \subseteq Shards` fails in `SidecarIpc`.
- With `Poll > Ceiling` an idle shard is scheduled beyond the ceiling (`\A s \in known : due[s] <= Ceiling` fails in `Pool`): the first backoff is the
  poll interval itself (`fleet.rs:701`), while `fleet.rs:264` calls the ceiling one "regardless of `poll_interval_ms`".
- When the text of an SDK error does not hold the exception's name, `is_recoverable` (`aws.rs:388`) recognises nothing: an expired
  iterator stays in the cache, and every later read of the shard by this process fails as the first did. `<>completed` fails in
  `StreamSource` for that reason only; `ReadUnlessUnnamed` is what holds. The `Display` of an `SdkError` is a summary ("service error"), so this is
  worth a test against the SDK.
- Without a bound on arrivals, `NoStarvation` fails: a pass ends on an empty batch only, so a shard that always has records keeps
  its pool worker, the cycle with its heartbeat, and with a pool of one every other shard waiting.
- A shard at LATEST that has no checkpoint yet is positioned at the tip again by every new owner, restart and expired cursor; what
  was written in between is skipped. `NothingPassedOver` excuses it through `tip`, and nothing else.
- When the position of a pass is trimmed while its cursor is in use, the one attempt to heal asks for that position again, is
  refused, and the call fails (`aws.rs:302`); the next pass finds no cursor and goes on at TRIM_HORIZON.
- A leader that starts after a tombstone was collected seeds the shard again and replays it (`fleet.rs:753`), although `fleet.rs:832` says that
  lineage "is never rediscovered/replayed": `\A s \in done : row[s].on => row[s].completed` fails in `ShardSync` with one restart.
- A worker returns while shards are open (`fleet.rs:525`): a follower that scans between a parent's completion and the leader's next sync, or any worker whose
  scan misses just published children, finds every row complete, although `fleet.rs:433` promises `true` only "when all shards are complete".
  `\A w \in Workers : pc[w] = "exit" => born \subseteq done \cup trimmed` fails with two workers, or with one and `MaxLags = 1`; `LineageDrains` excuses it.
  With `MayTrim` it fails too when a complete shard and its child have both aged out before the sync that
  would publish the child: the lookup finds no child, and nobody looks for the grandchild.
- A failed creation of one of two children is ignored (`fleet.rs:791`), the parent counts as synced, and its tombstone goes once the other child is under
  way, although `fleet.rs:830-831` says that "every child lease exists" by then. `TombstoneFollowed` is what holds: some child is worked on.
  `LineageDrains` excuses it (`dropped`).
- With `Period > LeaseDuration`, `LiveNeverReaped` fails: the heartbeat is written once, before the passes (`fleet.rs:463`).
- A worker that lost and regained a lease between two prunes of `CkptDefer` (`fleet.rs:506`) resumes from its
  old pending ack, behind the durable checkpoint: records are repeated and the
  durable position moves back, which is why `DurableNeverRegresses` is checked for a checkpoint per batch
  only. Nothing is skipped (`EveryPositionCovered`).
- `max_leases` caps the takes of one tick (`taker.rs:70`), not what a worker holds, although `clients/rust/src/lib.rs:385` says
  "will hold at once": a worker with a maximum of one takes a second lease at its next tick. What limits a worker is the fair share (`FairlyShared`).
- `Worker` never resumes on the real table: `claim` returns a lease without a checkpoint (`dynamodb.rs:298`), so each pass
  over a shard begins at TRIM_HORIZON, and the durable position moves back (`[][\A s \in Shards : durable'[s] >= durable[s]]_vars` fails in `Standalone`;
  `ShardLog` allows it within the handled prefix). `worker/src/lib.rs:30` calls the field the "[o]paque checkpoint to resume from", and the test
  `worker_resumes_from_existing_checkpoint` (`worker/src/lib.rs:631`) expects as much of an in-memory store. If the shard was trimmed meanwhile, the run fails;
  if every answer ends in an empty batch before the end, it never ends (`worker/src/lib.rs:317`).
- With two workers at a time, `OkMeansDrained` fails without its excuse: the completion snapshot of one can be complete because the other one
  finished the last shard, while the children are not on the list it was taken from (`worker/src/lib.rs:261`).
- `ensure_table` takes every failed describe for a missing table (`dynamodb.rs:118`) and does not expect another creator: of two
  first starts, one fails. A creator that ends before PITR is on leaves it off for good, since the next start finds a table that
  exists (`dynamodb.rs:170`); the same goes for the options of a sidecar when a Rust client, which has none, came first.
- A torn describe is safe only because ids grow with time. A parent that is not listed is taken for trimmed (`source-ddbstreams/src/lib.rs:165`);
  if a shard could come to be behind the page already read (`Reshard` without its guard on the order, shards 1 to 5 with parents
  -, 1, -, 2, -), its child would be listed without it and handled first, and `ParentFirst` fails. DynamoDB's shard ids begin with
  their time of creation; the code relies on it without saying so.
- `close_open_parents` changes the end of a shard that looks open, but the lineage that `describe_shards` returns does not depend on it
  (`LineageAgrees`); the engines learn of a shard's end from `get_records` only.
- A throttled write is retried five times and then counts as a lost lease (`fleet.rs:985`), which `dynamodb.rs:586` means to avoid.
- A steal from a live owner is not coordinated with its pass: until the victim's next
  conditional write both deliver the shard. `formal/README.md:25` excludes this; the model there moves leases
  between batches only.

## Plan

The system's parts that keep state are modelled, and every safety property and refinement that a run checks is proved.
What remains:
- **Composition**: `StreamSource` shown to implement the reads `Fleet` assumes (`Batch`), and passes that overlap on one shard.

## Not modelled

Metrics and OpenTelemetry (observation only), decoding and formatting of records (`core/src/record.rs`,
`source-ddbstreams/src/record.rs` and the JSON views of the Rust client: structural maps without state or order; what is decoded was
encoded by the same process), configuration parsing other than the table options, the poll backoff of `core/src/backoff.rs` (the fleet does not call it), the process management and packaging of the language
clients, multi-stream lease keys (not used by other code yet), and the test harnesses. Throttling retries are
covered as calls that succeed later or fail; merges of two parents into one child do not occur
in DynamoDB Streams, and `ShardSync`'s lineages have at most one parent per shard.
