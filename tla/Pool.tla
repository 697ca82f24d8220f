-------------------------------- MODULE Pool --------------------------------
(***************************************************************************)
(* One worker's bounded processing pool: run_bounded_pool of               *)
(* worker/src/fleet.rs over the coordination cycles of that worker, with   *)
(* the idle-backoff schedule it keeps across cycles and the online resize  *)
(* of set_max_processing_concurrency.                                      *)
(*                                                                         *)
(* A cycle takes the shards that are due, starts as many pool workers as   *)
(* the limit says, and folds the outcomes of their passes into the         *)
(* schedule once all of them are done.  A pass (process_shard, see Fleet)  *)
(* reads until it meets an empty batch, the end of the shard or an error.  *)
(* Time is discrete; an instant in the future is the time left until it.   *)
(* The queue is a set: its order is the order in which the scan returned   *)
(* the rows.  Which shards are owned and eligible is decided elsewhere.    *)
(***************************************************************************)
EXTENDS Integers

CONSTANTS
  Shards, NoShard,
  MaxPool,      \* bound: the largest pool size
  Poll,         \* poll_interval_ms
  Ceiling,      \* MAX_IDLE_BACKOFF_MS
  MaxArrivals,  \* bound on the bursts of records
  MaxMoves,     \* bound on the leases lost or gained
  MaxStops      \* bound on passes that end early

ASSUME PoolAssumption ==
  /\ NoShard \notin Shards /\ MaxPool \in Nat \ {0}
  /\ Poll \in Nat /\ Ceiling \in Nat \ {0}
  /\ MaxArrivals \in Nat /\ MaxMoves \in Nat /\ MaxStops \in Nat

VARIABLES
  backlog, closed,       \* the shards with records to read, and those closed
  owned, completed,      \* this worker's leases, and those marked complete
  limit,                 \* ProcessingLimit.max
  known, backoff, due,   \* the schedule: shards with an entry, backoff_ms, time until due_at
  width, batch,          \* the running cycle: its pool size (0: none runs), the shards it took
  queue, slot, got,      \* PoolState.queue; slot[i]: the shard of pool worker i; delivered_any
  out,                   \* out[s]: outcome of the pass over s ("-": none yet)
  arrivals, moves, stops

world == <<backlog, closed, owned>>
sched == <<known, backoff, due>>
cycle == <<width, batch, queue, slot, got, out>>
budget == <<arrivals, moves, stops>>
vars == <<world, completed, limit, sched, cycle, budget>>

-----------------------------------------------------------------------------
Slots == 1..MaxPool
Outcome == {"Active", "Idle", "Ended", "Stopped"}
Longest == IF Poll > Ceiling THEN Poll + 1 ELSE 2 * Ceiling

TypeOK ==
  /\ backlog \in SUBSET Shards /\ closed \in SUBSET Shards
  /\ owned \in SUBSET Shards /\ completed \in SUBSET closed
  /\ limit \in Slots /\ width \in 0..MaxPool
  /\ known \in SUBSET Shards
  /\ backoff \in [Shards -> 0..Longest] /\ due \in [Shards -> 0..Longest]
  /\ batch \in SUBSET Shards /\ queue \in SUBSET batch
  /\ slot \in [Slots -> Shards \cup {NoShard}] /\ got \in [Slots -> BOOLEAN]
  /\ out \in [Shards -> Outcome \cup {"-"}]
  /\ arrivals \in 0..MaxArrivals /\ moves \in 0..MaxMoves /\ stops \in 0..MaxStops

Init ==
  /\ backlog = {} /\ closed = {} /\ owned \in SUBSET Shards /\ completed = {}
  /\ limit \in Slots /\ width = 0
  /\ known = {} /\ backoff = [s \in Shards |-> 0] /\ due = [s \in Shards |-> 0]
  /\ batch = {} /\ queue = {}
  /\ slot = [i \in Slots |-> NoShard] /\ got = [i \in Slots |-> FALSE]
  /\ out = [s \in Shards |-> "-"]
  /\ arrivals = 0 /\ moves = 0 /\ stops = 0

-----------------------------------------------------------------------------
(* The stream, the lease table, the operator and time *)

Arrive(s) ==
  /\ s \notin backlog \cup closed /\ arrivals < MaxArrivals
  /\ arrivals' = arrivals + 1
  /\ backlog' = backlog \cup {s}
  /\ UNCHANGED <<closed, owned, completed, limit, sched, cycle, moves, stops>>

CloseShard(s) ==
  /\ s \notin closed
  /\ closed' = closed \cup {s}
  /\ UNCHANGED <<backlog, owned, completed, limit, sched, cycle, budget>>

\* A lease is lost to another worker's claim, or gained by tick and acquire.
LeaseMoves(s) ==
  /\ moves < MaxMoves
  /\ moves' = moves + 1
  /\ owned' = IF s \in owned THEN owned \ {s} ELSE owned \cup {s}
  /\ UNCHANGED <<backlog, closed, completed, limit, sched, cycle, arrivals, stops>>

\* set_max_processing_concurrency, at least 1.  The running cycle keeps its pool.
Resize(n) ==
  /\ limit' = IF n = 0 THEN 1 ELSE n
  /\ UNCHANGED <<world, completed, sched, cycle, budget>>

Elapse ==
  /\ \E s \in known : due[s] > 0
  /\ due' = [s \in Shards |-> IF due[s] > 0 THEN due[s] - 1 ELSE 0]
  /\ UNCHANGED <<world, completed, limit, known, backoff, cycle, budget>>

-----------------------------------------------------------------------------
(* run_bounded_pool *)

\* The eligible shards of this cycle.
EligibleOwned == owned \ completed

\* Mutant: a shard without an entry is not entered into the schedule.
RefreshedKnownOnly == known \cap EligibleOwned

\* The schedule keeps what is still owned and gains what is new.
Refreshed == EligibleOwned

\* New entries are due at once; what is due is queued for a pool of the size the
\* limit has now.  When nothing is due the cycle only sleeps.
Begin ==
  /\ width = 0
  /\ known' = Refreshed
  /\ backoff' = [s \in Shards |-> IF s \in known THEN backoff[s] ELSE 0]
  /\ due' = [s \in Shards |-> IF s \in known THEN due[s] ELSE 0]
  /\ batch' = {s \in known' : due'[s] = 0}
  /\ queue' = batch'
  /\ width' = IF batch' = {} THEN 0 ELSE limit
  /\ UNCHANGED <<world, completed, limit, slot, got, out, budget>>

\* Mutant: the item is read from the queue and stays in it.
TakePeek(i) ==
  /\ i <= width /\ slot[i] = NoShard
  /\ \E s \in queue : slot' = [slot EXCEPT ![i] = s]
  /\ got' = [got EXCEPT ![i] = FALSE]
  /\ UNCHANGED <<world, completed, limit, sched, width, batch, queue, out, budget>>

\* A pool worker claims the next item.
Take(i) ==
  /\ i <= width /\ slot[i] = NoShard
  /\ \E s \in queue : /\ slot' = [slot EXCEPT ![i] = s]
                      /\ queue' = queue \ {s}
  /\ got' = [got EXCEPT ![i] = FALSE]
  /\ UNCHANGED <<world, completed, limit, sched, width, batch, out, budget>>

\* The pass delivers what there is ...
PassReads(i) ==
  /\ slot[i] \in backlog
  /\ backlog' = backlog \ {slot[i]}
  /\ got' = [got EXCEPT ![i] = TRUE]
  /\ UNCHANGED <<closed, owned, completed, limit, sched, width, batch, queue, slot, out, budget>>

Finish(i, outcome) ==
  /\ slot[i] # NoShard
  /\ out' = [out EXCEPT ![slot[i]] = outcome]
  /\ slot' = [slot EXCEPT ![i] = NoShard]
  /\ got' = [got EXCEPT ![i] = FALSE]
  /\ UNCHANGED <<world, limit, sched, width, batch, queue>>

\* ... until there is nothing more,
PassReturns(i) ==
  /\ slot[i] \notin backlog
  /\ Finish(i, IF got[i] THEN "Active" ELSE "Idle")
  /\ UNCHANGED <<completed, budget>>

\* the shard has ended,
PassEnds(i) ==
  /\ slot[i] \in closed \ backlog
  /\ Finish(i, "Ended")
  /\ completed' = completed \cup {slot[i]}
  /\ UNCHANGED budget

\* or the lease is lost, or delivery or a call fails.
PassStops(i) ==
  /\ slot[i] # NoShard /\ stops < MaxStops
  /\ stops' = stops + 1
  /\ Finish(i, "Stopped")
  /\ UNCHANGED <<completed, arrivals, moves>>

\* An idle shard waits for the poll interval, then for twice as long each time.
NextBackoff(b) ==
  IF b = 0 THEN (IF Poll = 0 THEN 1 ELSE Poll)
  ELSE IF 2 * b > Ceiling THEN Ceiling ELSE 2 * b

\* All pool workers have returned: the outcomes go into the schedule.
Fold ==
  /\ width > 0 /\ queue = {} /\ \A i \in Slots : slot[i] = NoShard
  /\ known' = {s \in known : out[s] \notin {"Ended", "Stopped"}}
  /\ backoff' = [s \in Shards |-> IF out[s] = "Active" THEN 0
                                  ELSE IF out[s] = "Idle" THEN NextBackoff(backoff[s]) ELSE backoff[s]]
  /\ due' = [s \in Shards |-> IF out[s] = "Active" THEN 0
                              ELSE IF out[s] = "Idle" THEN backoff'[s] ELSE due[s]]
  /\ width' = 0 /\ batch' = {} /\ out' = [s \in Shards |-> "-"]
  /\ UNCHANGED <<world, completed, limit, queue, slot, got, budget>>

-----------------------------------------------------------------------------
PassStep(i) == PassReads(i) \/ PassReturns(i) \/ PassEnds(i) \/ PassStops(i)

Next ==
  \/ \E s \in Shards : Arrive(s) \/ CloseShard(s) \/ LeaseMoves(s)
  \/ \E n \in 0..MaxPool : Resize(n)
  \/ Elapse \/ Begin \/ Fold
  \/ \E i \in Slots : Take(i) \/ PassStep(i)

Spec == Init /\ [][Next]_vars

\* Time passes, the worker keeps cycling and its tasks are scheduled.
Fairness ==
  /\ WF_vars(Elapse) /\ WF_vars(Begin) /\ WF_vars(Fold)
  /\ \A i \in Slots : WF_vars(Take(i)) /\ WF_vars(PassStep(i))

FairSpec == Spec /\ Fairness

-----------------------------------------------------------------------------
(* Correctness *)

Busy == {slot[i] : i \in Slots} \ {NoShard}
Reported == {s \in Shards : out[s] # "-"}

\* "a shard is never split, and at most one pool worker holds a shard at a time",
\* worker/src/fleet.rs:350-351, within the pool the cycle started with, also when
\* it is resized meanwhile: the shards a cycle took are waiting, in exactly one
\* pool worker, or reported, and none is dropped.
OnePassPerShard ==
  /\ batch = queue \cup Busy \cup Reported
  /\ queue \cap (Busy \cup Reported) = {} /\ Busy \cap Reported = {}
  /\ \A i, j \in Slots : i # j /\ slot[i] = slot[j] => slot[i] = NoShard
  /\ \A i \in Slots : i > width => slot[i] = NoShard

\* Between two cycles nothing is taken.
IdleBetweenCycles == width = 0 => batch = {}

\* The inductive invariant behind OnePassPerShard.
Inv == TypeOK /\ OnePassPerShard /\ IdleBetweenCycles

\* No starvation: records of a shard this worker owns are delivered, whatever
\* backoff the shard built up, however small the pool is and is made, and
\* whichever passes fail, as long as it stays owned (and no shard is busy for ever).
NoStarvation ==
  \A s \in Shards : s \in backlog \cap owned ~> s \notin backlog \cap owned
=============================================================================
