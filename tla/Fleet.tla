------------------------------- MODULE Fleet --------------------------------
(***************************************************************************)
(* The consuming half of worker/src/fleet.rs: workers that run             *)
(* coordination cycles over a shared lease table, claim leases, drive      *)
(* process_shard on every lease they find themselves owning, persist       *)
(* checkpoints under the optimistic lock (at once, or coalesced by         *)
(* CkptDefer), mark shards complete, hand leases back on a graceful stop,  *)
(* and crash.                                                              *)
(*                                                                         *)
(* Every await on the lease table is an action of its own, so other        *)
(* workers run between a read and the write that depends on it.  Table     *)
(* scans are eventually consistent: each row a scan returns is the row     *)
(* itself or the copy a lagging replica still holds.                       *)
(*                                                                         *)
(* Abstracted: which leases a cycle takes.  LeaseCoordinator::tick picks   *)
(* among uncompleted leases the worker does not own, from clocks and       *)
(* heartbeats this module leaves out; a cycle here may want any such set,  *)
(* so every steal a clock could cause is covered.  Shards have no parents  *)
(* here and their rows exist from the start (the ShardSync module).        *)
(***************************************************************************)
EXTENDS LeaseStore, FiniteSets

CONSTANTS
  Workers, Shards,
  LastSeq,          \* bound: sequence numbers of a shard are 1..LastSeq
  CheckpointInterval,  \* checkpoint_interval_ms, 0 for none
  ClientMayVanish,  \* consumers are sidecar clients, which can go away
  StaleScans,       \* scans may return rows of a lagging replica
  MaxSteals,        \* bound on the decisions to take a lease from a live owner
  MaxRestarts,      \* bound on process restarts
  MaxCounter,       \* bound on leaseCounter
  MaxFaults         \* bound on service errors (a later call succeeds again)

ASSUME FleetAssumption ==
  /\ NoOwner \notin Workers /\ IsFiniteSet(Shards)
  /\ LastSeq \in Nat /\ MaxSteals \in Nat /\ MaxRestarts \in Nat
  /\ MaxFaults \in Nat /\ MaxCounter \in Nat
  /\ CheckpointInterval \in Nat /\ ClientMayVanish \in BOOLEAN /\ StaleScans \in BOOLEAN

VARIABLES
  written, closed,  \* the shards: records so far, and whether more can follow
  lease, replica,   \* the lease table, and the copy a stale scan can return
  acked,            \* acked[s]: records a consumer acknowledged
  pc,               \* pc[w]: where worker w is in its cycle
  want,             \* want[w]: keys still to acquire, or to release
  seen,             \* seen[w]: the key being acquired and the counter read for it
  task,             \* task[w][s]: the process_shard (or release) task of s
  pending,          \* pending[w][s]: CkptDefer's entry for s
  gone,             \* gone[w]: the worker's client is gone
  steals, restarts, faults

log == <<written, closed>>
table == <<lease, replica>>
budget == <<steals, restarts, faults>>
vars == <<log, table, acked, pc, want, seen, task, pending, gone, budget>>

-----------------------------------------------------------------------------
\* with_checkpoint_interval: acks are deferred from an interval of 1 ms on.
Defer == CheckpointInterval >= 1

NoEntry == -1        \* CkptDefer holds no entry; 0 is an entry with no ack pending
NoKey == [on |-> FALSE, shard |-> {}, counter |-> 0]
Off == [pc |-> "off", counter |-> 0, after |-> 0, val |-> 0, end |-> FALSE]

\* A pass that never returns.
Hung == [pc |-> "hung", counter |-> 0, after |-> 0, val |-> 0, end |-> FALSE]

TaskPC == {"off", "deliver", "hung", "ckpt", "end", "flush", "finish", "rflush", "release"}
Row == [owner : Workers \cup {NoOwner}, counter : Nat,
        checkpoint : 0..LastSeq, completed : BOOLEAN]
Task == [pc : TaskPC, counter : Nat, after : 0..LastSeq, val : 0..LastSeq, end : BOOLEAN]

TypeOK ==
  /\ written \in [Shards -> 0..LastSeq] /\ closed \in [Shards -> BOOLEAN]
  /\ lease \in [Shards -> Row] /\ replica \in [Shards -> Row]
  /\ acked \in [Shards -> SUBSET (1..LastSeq)]
  /\ pc \in [Workers -> {"idle", "take", "run", "release", "down"}]
  /\ want \in [Workers -> SUBSET Shards]
  /\ seen \in [Workers -> {NoKey} \cup [on : {TRUE}, shard : Shards, counter : Nat]]
  /\ task \in [Workers -> [Shards -> Task]]
  /\ pending \in [Workers -> [Shards -> NoEntry..LastSeq]]
  /\ gone \in [Workers -> BOOLEAN]
  /\ steals \in 0..MaxSteals /\ restarts \in 0..MaxRestarts /\ faults \in 0..MaxFaults

Init ==
  /\ written = [s \in Shards |-> 0] /\ closed = [s \in Shards |-> FALSE]
  /\ lease = [s \in Shards |-> Published(TrimHorizon)] /\ replica = lease
  /\ acked = [s \in Shards |-> {}]
  /\ pc = [w \in Workers |-> "idle"]
  /\ want = [w \in Workers |-> {}]
  /\ seen = [w \in Workers |-> NoKey]
  /\ task = [w \in Workers |-> [s \in Shards |-> Off]]
  /\ pending = [w \in Workers |-> [s \in Shards |-> NoEntry]]
  /\ gone = [w \in Workers |-> FALSE]
  /\ steals = 0 /\ restarts = 0 /\ faults = 0

-----------------------------------------------------------------------------
(* The stream and the replicas of the lease table *)

Produce(s) ==
  /\ ~closed[s] /\ written[s] < LastSeq
  /\ written' = [written EXCEPT ![s] = @ + 1]
  /\ UNCHANGED <<closed, table, acked, pc, want, seen, task, pending, gone, budget>>

CloseShard(s) ==
  /\ ~closed[s]
  /\ closed' = [closed EXCEPT ![s] = TRUE]
  /\ UNCHANGED <<written, table, acked, pc, want, seen, task, pending, gone, budget>>

Replicate(s) ==
  /\ StaleScans /\ replica[s] # lease[s]
  /\ replica' = [replica EXCEPT ![s] = lease[s]]
  /\ UNCHANGED <<log, lease, acked, pc, want, seen, task, pending, gone, budget>>

\* list_all scans without consistent_read: each row comes from some replica.
Scan(v) ==
  \A s \in Shards : v[s] = lease[s] \/ (StaleScans /\ v[s] = replica[s])

Views == {v \in [Shards -> {lease[s] : s \in Shards} \cup {replica[s] : s \in Shards}] : Scan(v)}

-----------------------------------------------------------------------------
(* A coordination cycle: scan and decide, acquire, scan again, process *)

Takeable(w, v) == {s \in Shards : ~v[s].completed /\ v[s].owner # w}

\* The worker is not running, or waits for ever: it starts no cycle, so it sends no heartbeat.
Dead(w) == pc[w] = "down" \/ \E s \in Shards : task[w][s].pc = "hung"

\* A lease nobody is working on.
Orphaned(s) == lease[s].owner = NoOwner \/ \E w \in Workers : lease[s].owner = w /\ Dead(w)

\* Step 1 of run_cycle up to the first acquire.  Another cycle starts only while
\* the client is there (the main loop's is_stopped).
Decide(w) ==
  /\ pc[w] = "idle" /\ ~gone[w]
  /\ \E v \in Views : \E keys \in SUBSET Takeable(w, v) :
        /\ steals' = steals + Cardinality({s \in keys : ~Orphaned(s)})
        /\ steals' <= MaxSteals
        /\ want' = [want EXCEPT ![w] = keys]
  /\ pc' = [pc EXCEPT ![w] = "take"]
  /\ UNCHANGED <<log, table, acked, seen, task, pending, gone, restarts, faults>>

\* acquire: the row exists, so its counter is read (consistently) first.
AcquireGet(w, s) ==
  /\ pc[w] = "take" /\ seen[w] = NoKey /\ s \in want[w]
  /\ seen' = [seen EXCEPT ![w] = [on |-> TRUE, shard |-> s, counter |-> lease[s].counter]]
  /\ want' = [want EXCEPT ![w] = @ \ {s}]
  /\ UNCHANGED <<log, table, acked, pc, task, pending, gone, budget>>

\* ... and then the claim is conditioned on that counter.  The reply is not
\* looked at: step 2 finds out from the table.
Claim(w) ==
  /\ pc[w] = "take" /\ seen[w] # NoKey
  /\ LET s == seen[w].shard IN
       lease' = IF Unmoved(lease[s], seen[w].counter)
                THEN [lease EXCEPT ![s] = Claimed(@, w)] ELSE lease
  /\ seen' = [seen EXCEPT ![w] = NoKey]
  /\ UNCHANGED <<log, replica, acked, pc, want, task, pending, gone, budget>>

Owned(w, v) == {s \in Shards : v[s].owner = w /\ ~v[s].completed}

\* Mutant: the first position is one past the checkpoint.
ResumeSkipsOne(w, s, row) == row.checkpoint + (IF row.checkpoint < LastSeq THEN 1 ELSE 0)

\* Mutant: an absent CkptDefer entry is taken for a pending ack.
ResumeFromAbsent(w, s, row) == IF pending[w][s] # 0 THEN pending[w][s] ELSE row.checkpoint

\* CkptDefer's pending ack for s, 0 if there is none.
PendingAck(w, s) == IF pending[w][s] > 0 THEN pending[w][s] ELSE 0

\* process_shard's first position: the pending ack if there is one.
ResumeFrom(w, s, row) == IF PendingAck(w, s) > 0 THEN PendingAck(w, s) ELSE row.checkpoint

StartTask(w, s, row) ==
  [Off EXCEPT !.pc = "deliver", !.counter = row.counter, !.after = ResumeFrom(w, s, row)]

\* Step 2 of run_cycle: scan again, prune CkptDefer to the owned shards, and
\* either report that every shard is complete (the process then ends) or start
\* one task per owned shard.
ReadOwned(w) ==
  /\ pc[w] = "take" /\ want[w] = {} /\ seen[w] = NoKey
  /\ \E v \in Views :
       /\ pending' = [pending EXCEPT ![w] =
            [s \in Shards |-> IF s \in Owned(w, v) THEN @[s] ELSE NoEntry]]
       /\ \/ /\ Shards # {} /\ \A s \in Shards : v[s].completed
             /\ pc' = [pc EXCEPT ![w] = "down"]
             /\ UNCHANGED task
          \/ /\ ~(Shards # {} /\ \A s \in Shards : v[s].completed)
             /\ pc' = [pc EXCEPT ![w] = "run"]
             /\ task' = [task EXCEPT ![w] =
                  [s \in Shards |-> IF s \in Owned(w, v) THEN StartTask(w, s, v[s]) ELSE Off]]
  /\ UNCHANGED <<log, table, acked, want, seen, gone, budget>>

\* Every task has returned.
EndCycle(w) ==
  /\ pc[w] = "run" /\ \A s \in Shards : task[w][s].pc = "off"
  /\ pc' = [pc EXCEPT ![w] = "idle"]
  /\ UNCHANGED <<log, table, acked, want, seen, task, pending, gone, budget>>

-----------------------------------------------------------------------------
(* process_shard *)

\* What the loop does after a batch: read on, or the work of SHARD_END.
AfterBatch(end) == IF ~end THEN "deliver" ELSE IF Defer THEN "end" ELSE "finish"

\* Mutant: a closed shard's every batch is taken for its last.
BatchEndsEarly(s, a, hi, end) == hi \in a..written[s] /\ (end => closed[s])

\* A batch GetRecords can return after position a: the records up to hi (none
\* when hi = a), and whether the shard ends with it (no next iterator).
Batch(s, a, hi, end) == hi \in a..written[s] /\ (end => closed[s] /\ hi = written[s])

\* The pass is over: an empty batch of an open shard, or a GetRecords error.
PassReturns(w, s) ==
  /\ task[w][s].pc = "deliver"
  /\ task' = [task EXCEPT ![w][s] = Off]
  /\ UNCHANGED <<log, table, acked, pc, want, seen, pending, gone, budget>>

\* An empty batch that ends the shard.
EmptyEnd(w, s) ==
  /\ task[w][s].pc = "deliver" /\ Batch(s, task[w][s].after, task[w][s].after, TRUE)
  /\ task' = [task EXCEPT ![w][s] = [@ EXCEPT !.pc = AfterBatch(TRUE), !.end = TRUE]]
  /\ UNCHANGED <<log, table, acked, pc, want, seen, pending, gone, budget>>

\* The processor is given the records after a up to hi and returns; hi is the ack.
Deliver(s, a, hi) == acked' = [acked EXCEPT ![s] = @ \cup (a + 1 .. hi)]

\* record_ack: the ack is pending; it is due for a write once the interval has
\* elapsed, which it never has for a fresh entry.
RecordAck(w, s, ack, due) ==
  /\ pending[w][s] = NoEntry => ~due
  /\ pending' = [pending EXCEPT ![w][s] = ack]

\* A batch delivered and acknowledged: the ack is persisted now (per batch, or when
\* it is due) or left pending.
DeliverAcked(w, s) ==
  /\ task[w][s].pc = "deliver" /\ ~gone[w]
  /\ \E hi \in task[w][s].after + 1 .. written[s], end \in BOOLEAN, due \in BOOLEAN :
       /\ Batch(s, task[w][s].after, hi, end)
       /\ Deliver(s, task[w][s].after, hi)
       /\ IF Defer THEN RecordAck(w, s, hi, due) ELSE due /\ UNCHANGED pending
       /\ task' = [task EXCEPT ![w][s] = [@ EXCEPT
              !.pc = IF due THEN "ckpt" ELSE AfterBatch(end),
              !.after = hi, !.val = IF due THEN hi ELSE 0, !.end = end]]
  /\ UNCHANGED <<log, table, pc, want, seen, gone, budget>>

\* Mutant: no answer is taken for an ack of the batch.
DeliverUnackedCounts(w, s) ==
  /\ task[w][s].pc = "deliver" /\ gone[w]
  /\ \E hi \in task[w][s].after + 1 .. written[s], end \in BOOLEAN :
       /\ Batch(s, task[w][s].after, hi, end)
       /\ task' = [task EXCEPT ![w][s] = [@ EXCEPT
              !.pc = "ckpt", !.after = hi, !.val = hi, !.end = end]]
  /\ UNCHANGED <<log, table, acked, pc, want, seen, pending, gone, budget>>

\* A batch the departed client never got: deliver returns None, nothing is
\* persisted, and the pass reads on.
DeliverUnacked(w, s) ==
  /\ task[w][s].pc = "deliver" /\ gone[w]
  /\ \E hi \in task[w][s].after + 1 .. written[s], end \in BOOLEAN :
       /\ Batch(s, task[w][s].after, hi, end)
       /\ task' = [task EXCEPT ![w][s] = [@ EXCEPT
              !.pc = AfterBatch(end), !.after = hi, !.end = end]]
  /\ UNCHANGED <<log, table, acked, pc, want, seen, pending, gone, budget>>

\* A batch the client got, or that was written before the pipe broke, and nobody reads
\* its ack: the sender stays in Ipc.pending and rx.await never resolves.
DeliverHangs(w, s) ==
  /\ task[w][s].pc = "deliver" /\ gone[w] /\ task[w][s].after < written[s]
  /\ task' = [task EXCEPT ![w][s] = Hung]
  /\ UNCHANGED <<log, table, acked, pc, want, seen, pending, gone, budget>>

\* Mutant: the ack is recorded although the handler failed.
DeliverFailsRecorded(w, s) ==
  /\ task[w][s].pc = "deliver" /\ task[w][s].after < written[s] /\ faults < MaxFaults
  /\ faults' = faults + 1
  /\ task' = [task EXCEPT ![w][s] = Off]
  /\ pending' = [pending EXCEPT ![w][s] = written[s]]
  /\ UNCHANGED <<log, table, acked, pc, want, seen, gone, steals, restarts>>

\* deliver returned an error: the pass stops and the pending ack is forgotten.
DeliverFails(w, s) ==
  /\ task[w][s].pc = "deliver" /\ task[w][s].after < written[s] /\ faults < MaxFaults
  /\ faults' = faults + 1
  /\ task' = [task EXCEPT ![w][s] = Off]
  /\ pending' = [pending EXCEPT ![w][s] = NoEntry]
  /\ UNCHANGED <<log, table, acked, pc, want, seen, gone, steals, restarts>>

\* leaseCounter stays within the bound.
Bounded(s) == lease[s].counter < MaxCounter

\* The task once its checkpoint is persisted: it holds the bumped counter.
Persisted(t) ==
  [t EXCEPT !.pc = IF t.pc = "flush" THEN "finish" ELSE AfterBatch(t.end),
            !.counter = t.counter + 1, !.val = 0]

\* The checkpoint write succeeds: after a batch, or as the flush at SHARD_END.
CheckpointOk(w, s) ==
  /\ task[w][s].pc \in {"ckpt", "flush"} /\ Bounded(s)
  /\ Holds(lease[s], w, task[w][s].counter)
  /\ lease' = [lease EXCEPT ![s] = Checkpointed(@, task[w][s].val)]
  /\ task' = [task EXCEPT ![w][s] = Persisted(@)]
  /\ pending' = IF ~Defer THEN pending
                ELSE [pending EXCEPT ![w][s] = IF task[w][s].pc = "flush" THEN NoEntry ELSE 0]
  /\ UNCHANGED <<log, replica, acked, pc, want, seen, gone, budget>>

\* The write failed, or seemed to: lease_lost, the pass stops.
LeaseLost(w, s) ==
  /\ task' = [task EXCEPT ![w][s] = Off]
  /\ pending' = [pending EXCEPT ![w][s] = NoEntry]
  /\ UNCHANGED <<log, replica, acked, pc, want, seen, gone, steals, restarts>>

\* Mutant: a lost lease does not stop the pass; the write is tried again.
CheckpointLostRetried(w, s) ==
  /\ task[w][s].pc \in {"ckpt", "flush"}
  /\ ~Holds(lease[s], w, task[w][s].counter)
  /\ UNCHANGED vars

CheckpointLost(w, s) ==
  /\ task[w][s].pc \in {"ckpt", "flush"}
  /\ ~Holds(lease[s], w, task[w][s].counter)
  /\ LeaseLost(w, s) /\ UNCHANGED <<lease, faults>>

\* A service error on the write, which was applied or was not.
CheckpointFault(w, s) ==
  /\ task[w][s].pc \in {"ckpt", "flush"} /\ faults < MaxFaults
  /\ faults' = faults + 1
  /\ \/ UNCHANGED lease
     \/ /\ Holds(lease[s], w, task[w][s].counter) /\ Bounded(s)
        /\ lease' = [lease EXCEPT ![s] = Checkpointed(@, task[w][s].val)]
  /\ LeaseLost(w, s)

\* SHARD_END with deferral: take the pending ack and flush it, else forget.
TakePending(w, s) ==
  /\ task[w][s].pc = "end"
  /\ task' = [task EXCEPT ![w][s] = [@ EXCEPT
         !.pc = IF PendingAck(w, s) > 0 THEN "flush" ELSE "finish", !.val = PendingAck(w, s)]]
  /\ pending' = [pending EXCEPT ![w][s] = IF @ > 0 THEN 0 ELSE NoEntry]
  /\ UNCHANGED <<log, table, acked, pc, want, seen, gone, budget>>

\* shard_ended and mark_complete; the outcome of the write is ignored.
MarkComplete(w, s) ==
  /\ task[w][s].pc = "finish"
  /\ lease' = IF Holds(lease[s], w, task[w][s].counter)
              THEN [lease EXCEPT ![s] = Completed(@)] ELSE lease
  /\ task' = [task EXCEPT ![w][s] = Off]
  /\ UNCHANGED <<log, replica, acked, pc, want, seen, pending, gone, budget>>

\* A service error on mark_complete or on the release, whose results are ignored,
\* that left the row as it was.
LastWriteFault(w, s) ==
  /\ task[w][s].pc \in {"finish", "release"} /\ faults < MaxFaults
  /\ faults' = faults + 1
  /\ task' = [task EXCEPT ![w][s] = Off]
  /\ UNCHANGED <<log, table, acked, pc, want, seen, pending, gone, steals, restarts>>

-----------------------------------------------------------------------------
(* Graceful stop: release_owned, one row after the other *)

StopRequested(w) ==
  /\ pc[w] = "idle"
  /\ \E v \in Views :
       /\ want' = [want EXCEPT ![w] = Owned(w, v)]
       /\ task' = [task EXCEPT ![w] =
            [s \in Shards |-> IF s \in Owned(w, v) THEN [Off EXCEPT !.counter = v[s].counter]
                              ELSE Off]]
  /\ pc' = [pc EXCEPT ![w] = "release"]
  /\ UNCHANGED <<log, table, acked, seen, pending, gone, budget>>

\* The pending ack is taken for a flush before the release, and the entry forgotten.
ReleaseNext(w, s) ==
  /\ pc[w] = "release" /\ s \in want[w]
  /\ \A s2 \in Shards : task[w][s2].pc = "off"
  /\ want' = [want EXCEPT ![w] = @ \ {s}]
  /\ task' = [task EXCEPT ![w][s] = [@ EXCEPT
         !.pc = IF PendingAck(w, s) > 0 THEN "rflush" ELSE "release", !.val = PendingAck(w, s)]]
  /\ pending' = [pending EXCEPT ![w][s] = NoEntry]
  /\ UNCHANGED <<log, table, acked, pc, seen, gone, budget>>

ReleaseReady(t, ok) ==
  [t EXCEPT !.pc = "release", !.val = 0, !.counter = IF ok THEN t.counter + 1 ELSE t.counter]

\* Best effort: the release follows whether or not the flush was applied.
ReleaseFlush(w, s) ==
  /\ task[w][s].pc = "rflush" /\ Bounded(s)
  /\ LET ok == Holds(lease[s], w, task[w][s].counter) IN
       /\ lease' = IF ok THEN [lease EXCEPT ![s] = Checkpointed(@, task[w][s].val)] ELSE lease
       /\ task' = [task EXCEPT ![w][s] = ReleaseReady(@, ok)]
  /\ UNCHANGED <<log, replica, acked, pc, want, seen, pending, gone, budget>>

\* A service error on that flush, which was applied or was not: the release goes on
\* with the counter it has.
ReleaseFlushFault(w, s) ==
  /\ task[w][s].pc = "rflush" /\ faults < MaxFaults
  /\ faults' = faults + 1
  /\ \/ UNCHANGED lease
     \/ /\ Holds(lease[s], w, task[w][s].counter) /\ Bounded(s)
        /\ lease' = [lease EXCEPT ![s] = Checkpointed(@, task[w][s].val)]
  /\ task' = [task EXCEPT ![w][s] = ReleaseReady(@, FALSE)]
  /\ UNCHANGED <<log, replica, acked, pc, want, seen, pending, gone, steals, restarts>>

Release(w, s) ==
  /\ task[w][s].pc = "release"
  /\ lease' = IF Holds(lease[s], w, task[w][s].counter)
              THEN [lease EXCEPT ![s] = Released(@)] ELSE lease
  /\ task' = [task EXCEPT ![w][s] = Off]
  /\ UNCHANGED <<log, replica, acked, pc, want, seen, pending, gone, budget>>

ReleaseDone(w) ==
  /\ pc[w] = "release" /\ want[w] = {} /\ \A s \in Shards : task[w][s].pc = "off"
  /\ pc' = [pc EXCEPT ![w] = "down"]
  /\ pending' = [pending EXCEPT ![w] = [s \in Shards |-> NoEntry]]
  /\ UNCHANGED <<log, table, acked, want, seen, task, gone, budget>>

-----------------------------------------------------------------------------
(* Failures *)

ClientVanish(w) ==
  /\ ClientMayVanish /\ ~gone[w] /\ pc[w] # "down"
  /\ gone' = [gone EXCEPT ![w] = TRUE]
  /\ UNCHANGED <<log, table, acked, pc, want, seen, task, pending, budget>>

\* Everything but the lease table is in memory.
Crash(w) ==
  /\ pc[w] # "down"
  /\ pc' = [pc EXCEPT ![w] = "down"]
  /\ want' = [want EXCEPT ![w] = {}]
  /\ seen' = [seen EXCEPT ![w] = NoKey]
  /\ task' = [task EXCEPT ![w] = [s \in Shards |-> Off]]
  /\ pending' = [pending EXCEPT ![w] = [s \in Shards |-> NoEntry]]
  /\ UNCHANGED <<log, table, acked, gone, budget>>

\* A new process under the same owner name, with a new client.
Restart(w) ==
  /\ pc[w] = "down" /\ restarts < MaxRestarts
  /\ restarts' = restarts + 1
  /\ pc' = [pc EXCEPT ![w] = "idle"]
  /\ gone' = [gone EXCEPT ![w] = FALSE]
  /\ UNCHANGED <<log, table, acked, want, seen, task, pending, steals, faults>>

-----------------------------------------------------------------------------
StreamStep(s) == Produce(s) \/ CloseShard(s) \/ Replicate(s)

TaskStep(w, s) ==
  \/ PassReturns(w, s) \/ EmptyEnd(w, s)
  \/ DeliverAcked(w, s) \/ DeliverUnacked(w, s) \/ DeliverHangs(w, s) \/ DeliverFails(w, s)
  \/ CheckpointOk(w, s) \/ CheckpointLost(w, s) \/ CheckpointFault(w, s)
  \/ TakePending(w, s) \/ MarkComplete(w, s) \/ LastWriteFault(w, s)
  \/ ReleaseNext(w, s) \/ ReleaseFlush(w, s) \/ ReleaseFlushFault(w, s) \/ Release(w, s)

CycleStep(w) ==
  \/ Decide(w) \/ Claim(w) \/ ReadOwned(w) \/ EndCycle(w) \/ ReleaseDone(w)
  \/ \E s \in Shards : AcquireGet(w, s)

Next ==
  \/ \E s \in Shards : StreamStep(s)
  \/ \E w \in Workers : \/ CycleStep(w) \/ StopRequested(w)
                        \/ ClientVanish(w) \/ Crash(w) \/ Restart(w)
  \/ \E w \in Workers, s \in Shards : TaskStep(w, s)

Spec == Init /\ [][Next]_vars

\* A live process keeps running its cycle and its tasks, unless one of them hangs, and
\* stops when its client is gone; replicas catch up; a shard is eventually closed; GetRecords cannot
\* return nothing for ever while there is something to return; and an orphaned
\* lease is taken by some worker (compute_leases_to_take takes every unowned or
\* expired lease up to its share).
Fairness ==
  /\ \A s \in Shards :
        /\ WF_vars(CloseShard(s)) /\ WF_vars(Replicate(s))
        /\ SF_vars(\E w \in Workers : Decide(w) /\ s \in want'[w] /\ Orphaned(s))
  /\ \A w \in Workers :
        /\ WF_vars(CycleStep(w) \/ (gone[w] /\ StopRequested(w)))
        /\ \A s \in Shards :
              /\ WF_vars(TaskStep(w, s))
              /\ SF_vars(\/ DeliverAcked(w, s) \/ DeliverUnacked(w, s) \/ DeliverHangs(w, s)
                         \/ EmptyEnd(w, s))

FairSpec == Spec /\ Fairness

-----------------------------------------------------------------------------
(* Correctness *)

\* Every record up to position n is in A.
UpTo(A, n) == 1..n \subseteq A

\* At least once, in order: the position a new owner resumes from (process_shard
\* reads after row.checkpoint) has nothing unacknowledged below it, whatever
\* steals, stale scans, lost replies and crashes came before.
CheckpointCovered == \A s \in Shards : UpTo(acked[s], lease[s].checkpoint)

\* ... and so has every position a worker or a stale scan still holds: the
\* replica's checkpoint, CkptDefer's pending ack, the value about to be written,
\* and the resume point of a pass whose client is still there.
EveryPositionCovered ==
  /\ \A s \in Shards : UpTo(acked[s], lease[s].checkpoint) /\ UpTo(acked[s], replica[s].checkpoint)
  /\ \A w \in Workers, s \in Shards :
        /\ UpTo(acked[s], pending[w][s]) /\ UpTo(acked[s], task[w][s].val)
        /\ ~gone[w] => UpTo(acked[s], task[w][s].after)

\* Tasks exist only while their worker runs its cycle or releases its leases.
TasksInPhase ==
  \A w \in Workers, s \in Shards :
     /\ pc[w] \notin {"run", "release"} => task[w][s].pc = "off"
     /\ task[w][s].pc = "off" => task[w][s].after = 0

\* A task that works on SHARD_END has read the whole of a closed shard.
EndIsTheEnd ==
  \A w \in Workers, s \in Shards :
     /\ task[w][s].pc \in {"end", "flush", "finish"} => task[w][s].end
     /\ task[w][s].end => closed[s] /\ task[w][s].after = written[s]

\* mark_complete is reached only after the whole closed shard was acknowledged:
\* the children it unblocks never overtake a record of their parent.
CompletedCovered ==
  \A s \in Shards : lease[s].completed => closed[s] /\ acked[s] = 1..written[s]

\* Per-batch checkpointing never moves the durable position back: the optimistic
\* lock keeps out every displaced owner and every handle read from a stale scan.
DurableNeverRegresses ==
  [][\A s \in Shards : lease'[s].checkpoint >= lease[s].checkpoint]_vars

\* mark_complete leaves the lock where it was, and still nothing moves the
\* checkpoint of a completed shard or makes it incomplete again.
CompletedIsFinal ==
  [][\A s \in Shards : lease[s].completed =>
        lease'[s].completed /\ lease'[s].checkpoint = lease[s].checkpoint]_vars

\* As long as some worker stays up and does not wait for an ack that never comes, every
\* closed shard is eventually complete: no steal, stale scan, lost reply, crash or hung
\* worker leaves a lease nobody finishes.
EventuallyDrained ==
  <>((\A s \in Shards : lease[s].completed) \/ (\A w \in Workers : Dead(w)))

\* The fleet does for each shard what ShardLog promises.
Log == INSTANCE ShardLog WITH
         handled <- acked,
         durable <- [s \in Shards |-> lease[s].checkpoint],
         finished <- [s \in Shards |-> lease[s].completed]
ImplementsShardLog == Log!Spec

\* ... and until a client vanishes it does so whatever a vanished client may lead
\* to later (a pass that reads on without acks).
ImplementsUntilGone ==
  Log!Init /\ [][Log!Next \/ \E w \in Workers : gone[w]]_(Log!vars)

=============================================================================
