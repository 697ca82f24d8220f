----------------------------- MODULE ShardSync ------------------------------
(***************************************************************************)
(* Shard discovery and lineage: the leader's half of run_cycle in          *)
(* worker/src/fleet.rs (leader_shard_sync and cleanup_completed_leases)    *)
(* and what every worker derives from the lease rows it publishes: which   *)
(* leases it takes, which shards it may process (parent before child) and  *)
(* when it decides that everything is complete.                            *)
(*                                                                         *)
(* Scans are eventually consistent: each row is the row itself or the copy *)
(* a lagging replica still holds.                                          *)
(* A leader works from the rows its cycle scanned at the start, calls      *)
(* DescribeStream and creates and deletes rows one at a time; each of      *)
(* these calls is an action, so reshards, other workers and other leaders  *)
(* come in between.  Who leads is left open: Leadership hands the sentinel *)
(* over on clocks, and two workers may think they lead at the same time.   *)
(*                                                                         *)
(* Abstracted: what is inside a shard.  A pass over a shard either         *)
(* checkpoints a record, or reaches the end, or neither (Fleet is about    *)
(* passes).  leaseCounter is left out: a pass may write while its worker   *)
(* owns the row, which is a little more than the counter allows when the   *)
(* handle came from an old scan.  That a pass over a completed row finds   *)
(* no record is proved of Fleet.                                           *)
(***************************************************************************)
EXTENDS Integers, FiniteSets

CONSTANTS
  Workers, Shards, NoOwner,
  ParentOf,      \* ParentOf[s]: {} for a root, {p} for a child of p
  Initial,       \* the configured InitialPosition, "TRIM" or "LATEST"
  MayTrim,       \* closed shards age out of the stream
  MaxLags,       \* bound on rows that a replica falls behind on
  MaxRestarts,   \* bound on crashes (the worker starts again)
  MaxFaults      \* bound on failed service calls

ASSUME SyncAssumption ==
  /\ ParentOf \in [Shards -> SUBSET Shards] /\ NoOwner \notin Workers
  /\ \A s \in Shards : \A p, q \in ParentOf[s] : p = q   \* parent_shard_id is an Option
  /\ Initial \in {"TRIM", "LATEST"} /\ MayTrim \in BOOLEAN
  /\ MaxLags \in Nat /\ MaxRestarts \in Nat /\ MaxFaults \in Nat

\* A shard is younger than its parent: every set of shards has an oldest one.
ASSUME LineageAssumption ==
  \A S \in SUBSET Shards : S # {} => \E s \in S : ParentOf[s] \cap S = {}

VARIABLES
  born, ended, trimmed,  \* the stream: shards created, closed, aged out
  row,                   \* the lease table, one entry per shard (NoRow: absent)
  lagging, replica,      \* rows a replica has fallen behind on, and its copy of them
  pc,                    \* pc[w]: where worker w is in its cycle
  snap,                  \* snap[w]: the rows the leader works from
  todo,                  \* todo[w]: rows the leader is about to create
  keys,                  \* keys[w]: shards still to sync, delete, acquire or process
  fresh,                 \* fresh[w]: newly_synced
  seeded, synced,        \* SyncState: the seed is done; child_synced
  done, started,         \* history: shards completed, shards some pass worked on
  dropped,               \* history: a row was not created, and nobody looked
  lags, restarts, faults

table == <<row, lagging, replica>>
stream == <<born, ended, trimmed>>
memory == <<snap, todo, keys, fresh, seeded, synced>>
history == <<done, started, dropped>>
budget == <<lags, restarts, faults>>
vars == <<stream, table, pc, memory, history, budget>>

-----------------------------------------------------------------------------
Position == {"TRIM", "LATEST", "SEQ"}  \* None, the LATEST sentinel, a sequence number
NoRow == [on |-> FALSE, owner |-> NoOwner, cp |-> "TRIM", completed |-> FALSE, parents |-> {}]
RowSet == [on : BOOLEAN, owner : Workers \cup {NoOwner}, cp : Position,
           completed : BOOLEAN, parents : SUBSET Shards]
NewRow == [id : Shards, parents : SUBSET Shards, cp : Position]
Empty == [s \in Shards |-> NoRow]
Roots == {s \in Shards : ParentOf[s] = {}}
Children(p) == {s \in Shards : p \in ParentOf[s]}

TypeOK ==
  /\ born \in SUBSET Shards /\ ended \in SUBSET born /\ trimmed \in SUBSET ended
  /\ row \in [Shards -> RowSet]
  /\ lagging \in SUBSET Shards /\ replica \in [Shards -> RowSet]
  /\ pc \in [Workers -> {"idle", "seed", "sync", "gc", "beat", "take", "run", "exit"}]
  /\ snap \in [Workers -> [Shards -> RowSet]]
  /\ todo \in [Workers -> SUBSET NewRow]
  /\ keys \in [Workers -> SUBSET Shards] /\ fresh \in [Workers -> SUBSET Shards]
  /\ seeded \in [Workers -> BOOLEAN] /\ synced \in [Workers -> SUBSET Shards]
  /\ done \in SUBSET Shards /\ started \in SUBSET Shards /\ dropped \in BOOLEAN
  /\ lags \in 0..MaxLags /\ restarts \in 0..MaxRestarts /\ faults \in 0..MaxFaults

Init ==
  /\ born = Roots /\ ended = {} /\ trimmed = {}
  /\ row = Empty /\ lagging = {} /\ replica = Empty
  /\ pc = [w \in Workers |-> "idle"]
  /\ snap = [w \in Workers |-> Empty]
  /\ todo = [w \in Workers |-> {}] /\ keys = [w \in Workers |-> {}]
  /\ fresh = [w \in Workers |-> {}]
  /\ seeded = [w \in Workers |-> FALSE] /\ synced = [w \in Workers |-> {}]
  /\ done = {} /\ started = {} /\ dropped = FALSE
  /\ lags = 0 /\ restarts = 0 /\ faults = 0

-----------------------------------------------------------------------------
(* The stream *)

\* A reshard (or a rollover) closes a shard and opens its children; a shard
\* without children is closed when the stream is disabled.
Reshard(s) ==
  /\ s \in born \ ended
  /\ ended' = ended \cup {s}
  /\ born' = born \cup Children(s)
  /\ UNCHANGED <<trimmed, table, pc, memory, history, budget>>

\* Retention: the oldest closed shards leave the stream first.
Trim(s) ==
  /\ MayTrim /\ s \in ended \ trimmed /\ ParentOf[s] \subseteq trimmed
  /\ trimmed' = trimmed \cup {s}
  /\ UNCHANGED <<born, ended, table, pc, memory, history, budget>>

Visible == born \ trimmed

\* describe_shards: a parent that is not in the response is dropped
\* (build_shard_graph, parents_of).
GraphParents(s) == ParentOf[s] \cap Visible

-----------------------------------------------------------------------------
(* The lease table *)

\* A replica misses the writes to a row from now on ...
Lag(s) ==
  /\ s \notin lagging /\ lags < MaxLags
  /\ lags' = lags + 1
  /\ lagging' = lagging \cup {s} /\ replica' = [replica EXCEPT ![s] = row[s]]
  /\ UNCHANGED <<stream, row, pc, memory, history, restarts, faults>>

\* ... until it catches up.
Replicate(s) ==
  /\ s \in lagging
  /\ lagging' = lagging \ {s} /\ replica' = [replica EXCEPT ![s] = NoRow]
  /\ UNCHANGED <<stream, row, pc, memory, history, budget>>

\* list_all scans without consistent_read: each row comes from some replica.
Views ==
  {[s \in Shards |-> IF s \in old THEN replica[s] ELSE row[s]] : old \in SUBSET lagging}

-----------------------------------------------------------------------------
(* leader_shard_sync *)

CompletedIn(rows) == {s \in Shards : rows[s].on /\ rows[s].completed}
ExistingIn(rows) == {s \in Shards : rows[s].on}

\* child_cp over child_seed_checkpoint: the parents' start mode, when every
\* parent has one other than TRIM_HORIZON and never checkpointed a record.  A
\* parent without a row counts as TRIM_HORIZON.
ChildCp(rows, parents) ==
  IF parents # {} /\ \A p \in parents : rows[p].on /\ rows[p].cp = "LATEST"
  THEN "LATEST" ELSE "TRIM"

\* Mutant: the seed forgets the parent gate.
PublishableAny(rows) == Visible \ ExistingIn(rows)

\* The shards a full describe publishes: parents all complete and no row yet.
Publishable(rows) ==
  {s \in Visible : GraphParents(s) \subseteq CompletedIn(rows)} \ ExistingIn(rows)

\* Completed parents whose children are still to be looked up.
Unsynced(w, rows) ==
  {p \in CompletedIn(rows) \ synced[w] : \A s \in Shards : p \notin rows[s].parents}

\* run_cycle step 0: scan; a worker that leads goes on to sync, the others go
\* on with their heartbeat.
Lead(w) ==
  /\ pc[w] = "idle"
  /\ \E v \in Views :
       /\ snap' = [snap EXCEPT ![w] = v]
       /\ keys' = [keys EXCEPT ![w] = IF seeded[w] THEN Unsynced(w, v) ELSE {}]
  /\ pc' = [pc EXCEPT ![w] = IF seeded[w] THEN "sync" ELSE "seed"]
  /\ UNCHANGED <<stream, table, todo, fresh, seeded, synced, history, budget>>

\* Another worker leads.
Follow(w) ==
  /\ pc[w] = "idle" /\ Workers # {w}
  /\ pc' = [pc EXCEPT ![w] = "beat"]
  /\ UNCHANGED <<stream, table, memory, history, budget>>

\* The bid for the sentinel failed.  A worker on its own finds the sentinel
\* vacant or its own, so this takes a failed call.
BidFails(w) ==
  /\ pc[w] = "idle" /\ faults < MaxFaults
  /\ faults' = faults + 1
  /\ pc' = [pc EXCEPT ![w] = "beat"]
  /\ UNCHANGED <<stream, table, memory, history, lags, restarts>>

\* The seed: one full describe, and a row for every publishable shard at the
\* configured position.  seeded is set before the creates here, after them in the
\* code: only this worker reads it, at its next scan, and a crash resets it.
SeedDescribe(w) ==
  /\ pc[w] = "seed" /\ ~seeded[w]
  /\ todo' = [todo EXCEPT ![w] =
       {[id |-> s, parents |-> GraphParents(s), cp |-> Initial] : s \in Publishable(snap[w])}]
  /\ seeded' = [seeded EXCEPT ![w] = TRUE]
  /\ UNCHANGED <<stream, table, pc, snap, keys, fresh, synced, history, budget>>

\* describe_shards failed: the cycle ends with the error.
SeedFails(w) ==
  /\ pc[w] = "seed" /\ ~seeded[w] /\ faults < MaxFaults
  /\ faults' = faults + 1
  /\ pc' = [pc EXCEPT ![w] = "idle"]
  /\ snap' = [snap EXCEPT ![w] = Empty]
  /\ UNCHANGED <<stream, table, todo, keys, fresh, seeded, synced, history, lags, restarts>>

\* create_shard_lease: put if absent.
Create(w, n) ==
  /\ n \in todo[w]
  /\ row' = IF row[n.id].on THEN row
            ELSE [row EXCEPT ![n.id] = [NoRow EXCEPT !.on = TRUE, !.cp = n.cp, !.parents = n.parents]]
  /\ todo' = [todo EXCEPT ![w] = @ \ {n}]
  /\ UNCHANGED <<stream, lagging, replica, pc, snap, keys, fresh, seeded, synced, history, budget>>

\* ... whose failure is ignored.
CreateFails(w, n) ==
  /\ n \in todo[w] /\ faults < MaxFaults
  /\ faults' = faults + 1
  /\ dropped' = (dropped \/ ~row[n.id].on)
  /\ todo' = [todo EXCEPT ![w] = @ \ {n}]
  /\ UNCHANGED <<stream, table, pc, snap, keys, fresh, seeded, synced, done, started, lags, restarts>>

\* One completed parent: describe_child_shards, and its children's rows.
SyncParent(w, p) ==
  /\ pc[w] = "sync" /\ todo[w] = {} /\ p \in keys[w]
  /\ todo' = [todo EXCEPT ![w] =
       {[id |-> s, parents |-> {p}, cp |-> ChildCp(snap[w], {p})] :
           s \in (Children(p) \cap Visible) \ ExistingIn(snap[w])}]
  /\ keys' = [keys EXCEPT ![w] = @ \ {p}]
  /\ fresh' = [fresh EXCEPT ![w] = @ \cup {p}]
  /\ UNCHANGED <<stream, table, pc, snap, seeded, synced, history, budget>>

\* The filtered call failed: a full describe instead (nothing, when that fails
\* too), and the parent is not marked.
SyncFallback(w, p) ==
  /\ pc[w] = "sync" /\ todo[w] = {} /\ p \in keys[w] /\ faults < MaxFaults
  /\ faults' = faults + 1
  /\ \/ todo' = [todo EXCEPT ![w] =
          {[id |-> s, parents |-> GraphParents(s), cp |-> ChildCp(snap[w], GraphParents(s))] :
              s \in Publishable(snap[w])}]
     \/ UNCHANGED todo
  /\ keys' = [keys EXCEPT ![w] = @ \ {p}]
  /\ UNCHANGED <<stream, table, pc, snap, fresh, seeded, synced, history, lags, restarts>>

\* Mutant: a completed shard without published children is safe to delete.
SafeToDeleteChildless(rows) ==
  {s \in CompletedIn(rows) :
     \A c \in ExistingIn(rows) : s \in rows[c].parents => rows[c].completed \/ rows[c].cp = "SEQ"}

\* leases_safe_to_delete over the scanned rows: a completed shard with published
\* children, all of them completed or past their start position.
SafeToDelete(rows) ==
  {s \in CompletedIn(rows) :
     LET kids == {c \in ExistingIn(rows) : s \in rows[c].parents} IN
       /\ kids # {}
       /\ \A c \in kids : rows[c].completed \/ rows[c].cp = "SEQ"}

SyncDone(w) ==
  /\ \/ pc[w] = "seed" /\ seeded[w]
     \/ pc[w] = "sync" /\ keys[w] = {}
  /\ todo[w] = {}
  /\ synced' = [synced EXCEPT ![w] = @ \cup fresh[w]]
  /\ fresh' = [fresh EXCEPT ![w] = {}]
  /\ keys' = [keys EXCEPT ![w] = SafeToDelete(snap[w])]
  /\ snap' = [snap EXCEPT ![w] = Empty]
  /\ pc' = [pc EXCEPT ![w] = "gc"]
  /\ UNCHANGED <<stream, table, todo, seeded, history, budget>>

\* delete_lease, conditioned on completed.
DeleteRow(w, s) ==
  /\ pc[w] = "gc" /\ s \in keys[w]
  /\ row' = IF row[s].completed THEN [row EXCEPT ![s] = NoRow] ELSE row
  /\ keys' = [keys EXCEPT ![w] = @ \ {s}]
  /\ UNCHANGED <<stream, lagging, replica, pc, snap, todo, fresh, seeded, synced, history, budget>>

\* ... whose failure is ignored: the row is still there for a later cycle.
DeleteFails(w, s) ==
  /\ pc[w] = "gc" /\ s \in keys[w] /\ faults < MaxFaults
  /\ faults' = faults + 1
  /\ keys' = [keys EXCEPT ![w] = @ \ {s}]
  /\ UNCHANGED <<stream, table, pc, snap, todo, fresh, seeded, synced, history, lags, restarts>>

CleanupDone(w) ==
  /\ pc[w] = "gc" /\ keys[w] = {}
  /\ pc' = [pc EXCEPT ![w] = "beat"]
  /\ UNCHANGED <<stream, table, memory, history, budget>>

-----------------------------------------------------------------------------
(* What every worker does with the rows *)

\* run_cycle step 1: scan and decide.  A cycle may want any uncompleted leases
\* it does not own.
Decide(w) ==
  /\ pc[w] = "beat"
  /\ \E v \in Views :
       \E take \in SUBSET {s \in ExistingIn(v) : ~v[s].completed /\ v[s].owner # w} :
         keys' = [keys EXCEPT ![w] = take]
  /\ pc' = [pc EXCEPT ![w] = "take"]
  /\ UNCHANGED <<stream, table, snap, todo, fresh, seeded, synced, history, budget>>

\* acquire: put if absent, else claim.  The put writes a row of its own, with
\* neither parents nor checkpoint.
Acquire(w, s) ==
  /\ pc[w] = "take" /\ s \in keys[w]
  /\ row' = [row EXCEPT ![s] = IF row[s].on THEN [@ EXCEPT !.owner = w]
                               ELSE [NoRow EXCEPT !.on = TRUE, !.owner = w]]
  /\ keys' = [keys EXCEPT ![w] = @ \ {s}]
  /\ UNCHANGED <<stream, lagging, replica, pc, snap, todo, fresh, seeded, synced, history, budget>>

\* Mutant: a parent whose tombstone was deleted blocks its children.
EligibleNeedsRow(s, rows) ==
  /\ ~rows[s].completed
  /\ \A p \in rows[s].parents : rows[p].on /\ rows[p].completed

\* worker/src/lib.rs eligible: every parent is complete, or has no row any more.
Eligible(s, rows) ==
  /\ ~rows[s].completed
  /\ \A p \in rows[s].parents : rows[p].on => rows[p].completed

\* run_cycle step 2: everything complete and the cycle returns true, after which
\* the process ends; or the eligible shards of this worker are processed.
Reread(w) ==
  /\ pc[w] = "take" /\ keys[w] = {}
  /\ \E v \in Views :
       IF ExistingIn(v) # {} /\ ExistingIn(v) = CompletedIn(v)
       THEN /\ pc' = [pc EXCEPT ![w] = "exit"]
            /\ UNCHANGED keys
       ELSE /\ pc' = [pc EXCEPT ![w] = "run"]
            /\ keys' = [keys EXCEPT ![w] =
                 {s \in ExistingIn(v) : v[s].owner = w /\ Eligible(s, v)}]
  /\ UNCHANGED <<stream, table, snap, todo, fresh, seeded, synced, history, budget>>

\* A pass ends without progress: no record, or an error, or the lease was lost.
PassIdle(w, s) ==
  /\ pc[w] = "run" /\ s \in keys[w]
  /\ keys' = [keys EXCEPT ![w] = @ \ {s}]
  /\ started' = started \cup {s}
  /\ UNCHANGED <<stream, table, pc, snap, todo, fresh, seeded, synced, done, dropped, budget>>

\* A pass delivers a record and checkpoints it; the pass goes on.
PassCheckpoints(w, s) ==
  /\ pc[w] = "run" /\ s \in keys[w] /\ s \notin trimmed
  /\ row[s].on /\ row[s].owner = w /\ ~row[s].completed /\ row[s].cp # "SEQ"
  /\ row' = [row EXCEPT ![s].cp = "SEQ"]
  /\ started' = started \cup {s}
  /\ UNCHANGED <<stream, lagging, replica, pc, memory, done, dropped, budget>>

\* A pass reaches the end of a closed shard: mark_complete.
PassCompletes(w, s) ==
  /\ pc[w] = "run" /\ s \in keys[w] /\ s \in ended \ trimmed
  /\ row[s].on /\ row[s].owner = w
  /\ row' = [row EXCEPT ![s].completed = TRUE]
  /\ keys' = [keys EXCEPT ![w] = @ \ {s}]
  /\ started' = started \cup {s} /\ done' = done \cup {s}
  /\ UNCHANGED <<stream, lagging, replica, pc, snap, todo, fresh, seeded, synced, dropped, budget>>

EndCycle(w) ==
  /\ pc[w] = "run" /\ keys[w] = {}
  /\ pc' = [pc EXCEPT ![w] = "idle"]
  /\ UNCHANGED <<stream, table, memory, history, budget>>

\* A crash loses SyncState; the next process starts with a seed.
CrashRestart(w) ==
  /\ restarts < MaxRestarts
  /\ restarts' = restarts + 1
  /\ pc' = [pc EXCEPT ![w] = "idle"]
  /\ snap' = [snap EXCEPT ![w] = Empty]
  /\ todo' = [todo EXCEPT ![w] = {}] /\ keys' = [keys EXCEPT ![w] = {}]
  /\ fresh' = [fresh EXCEPT ![w] = {}]
  /\ seeded' = [seeded EXCEPT ![w] = FALSE] /\ synced' = [synced EXCEPT ![w] = {}]
  /\ UNCHANGED <<stream, table, history, lags, faults>>

-----------------------------------------------------------------------------
SyncStep(w) ==
  \/ Lead(w) \/ BidFails(w) \/ SeedDescribe(w) \/ SeedFails(w) \/ SyncDone(w) \/ CleanupDone(w)
  \/ \E n \in todo[w] : Create(w, n) \/ CreateFails(w, n)
  \/ \E s \in Shards : \/ SyncParent(w, s) \/ SyncFallback(w, s)
                       \/ DeleteRow(w, s) \/ DeleteFails(w, s)

WorkStep(w) ==
  \/ Follow(w) \/ Decide(w) \/ Reread(w) \/ EndCycle(w)
  \/ \E s \in Shards : \/ Acquire(w, s) \/ PassIdle(w, s)
                       \/ PassCheckpoints(w, s) \/ PassCompletes(w, s)

Next ==
  \/ \E s \in Shards : Reshard(s) \/ Trim(s) \/ Lag(s) \/ Replicate(s)
  \/ \E w \in Workers : SyncStep(w) \/ WorkStep(w) \/ CrashRestart(w)

Spec == Init /\ [][Next]_vars

\* Cycles go on, replicas catch up, every shard is eventually closed, a worker that
\* cycles for ever leads again and again (the sentinel expires or is its own), an
\* unowned lease is taken and a closed shard's end is read by some pass over it.
Fairness ==
  /\ \A s \in Shards : WF_vars(Reshard(s)) /\ WF_vars(Replicate(s))
  /\ \A w \in Workers :
        /\ WF_vars(SyncStep(w) \/ WorkStep(w)) /\ SF_vars(Lead(w))
        /\ \A s \in Shards : /\ SF_vars(Decide(w) /\ s \in keys'[w] /\ row[s].owner = NoOwner)
                             /\ SF_vars(PassCompletes(w, s))

FairSpec == Spec /\ Fairness

-----------------------------------------------------------------------------
(* Correctness *)

\* Parent before child (process_shard runs behind eligible): no worker works on
\* a shard before its parent was completed, unless the parent aged out of the
\* stream; whoever led, crashed or failed in between.
ParentFirst == \A s \in started : ParentOf[s] \subseteq done \cup trimmed

\* "otherwise it begins at TRIM_HORIZON so nothing is skipped across the reshard",
\* worker/src/fleet.rs:767: a shard is at LATEST only as a root, or as the child of
\* a parent whose row (while there is one) never got past LATEST itself.
NothingSkipped ==
  \A s \in Shards : row[s].on /\ row[s].cp = "LATEST" =>
     \A p \in ParentOf[s] : row[p].on => row[p].cp = "LATEST"

\* cleanup_completed_leases removes a tombstone only behind a child that is being
\* worked on, whoever leads, however old its scan, whatever was created, deleted or
\* acquired again since: the stream's tail and a parent whose children nobody started
\* keep their tombstones (in a well-typed state).
TombstoneFollowed ==
  /\ TypeOK
  /\ \A s \in done : ~row[s].on => Children(s) \cap started # {}

\* A worker that leads and works drains the whole lineage, generation by generation,
\* on scans of any age and after failed calls: every shard of a stream that stops
\* resharding is completed, unless the worker took an old scan for the end or a failed
\* create was ignored.
LineageDrains == <>(done = Shards \/ dropped \/ \E w \in Workers : pc[w] = "exit")
=============================================================================
