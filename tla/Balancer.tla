------------------------------ MODULE Balancer ------------------------------
(***************************************************************************)
(* Who owns which lease: LeaseCoordinator::tick (core/src/coordinator.rs)  *)
(* and the taker, run by every worker once per cycle of                    *)
(* worker/src/fleet.rs::run_cycle, with the per-worker heartbeat row that  *)
(* run_cycle bumps once per cycle.                                         *)
(*                                                                         *)
(* Time is discrete.  An observer keeps, for each worker, the time since   *)
(* it last saw that worker's heartbeat counter change; the counter itself  *)
(* is abstracted to whether it moved since the observer last looked.  A    *)
(* live worker begins its next cycle at most Period after the previous one *)
(* (coordination, the passes over its shards, and the sleep in between).   *)
(* The scans are eventually consistent: one may miss what was written      *)
(* since the clock last moved, so a replica lags by less than a unit.      *)
(* Leases here are rows of the table; their counters and checkpoints are   *)
(* Fleet's.                                                                *)
(***************************************************************************)
EXTENDS LeaseTaker

CONSTANTS
  Workers, Keys,
  LeaseDuration,  \* lease_duration_ms
  Period,         \* bound on the time from one cycle of a worker to its next
  MaxLeases,      \* max_leases, the coordinator's max_take
  MaxFaults       \* bound on crashes and heartbeats that fail

ASSUME BalancerAssumption ==
  /\ Keys \subseteq Nat /\ IsFiniteSet(Keys) /\ IsFiniteSet(Workers) /\ NoOwner \notin Workers
  /\ LeaseDuration \in Nat /\ Period \in Nat \ {0} /\ MaxLeases \in Nat
  /\ MaxFaults \in Nat

VARIABLES
  owner, completed,  \* the lease rows
  beating,           \* workers that have a heartbeat row
  alive,
  pc, want,          \* where a cycle is, and the keys it still has to acquire
  wait,              \* wait[w]: time left until w's next cycle has to begin
  age,               \* age[w][v]: how long w has not seen v's heartbeat move
  news,              \* news[w]: workers whose counter moved since w looked
  shown,             \* shown[w]: the ones of them no scan misses any more
  recent, was,       \* heartbeats since the clock moved, and the rows as they were then
  missed,            \* history: workers whose heartbeat failed, until one is there to see
  faults

rows == <<owner, completed>>
replica == <<shown, recent, was>>
vars == <<rows, beating, alive, pc, want, wait, age, news, replica, missed, faults>>

Unseen == -1
Old == LeaseDuration + 1     \* ages are counted up to here

TypeOK ==
  /\ owner \in [Keys -> Workers \cup {NoOwner}] /\ completed \in SUBSET Keys
  /\ beating \in SUBSET Workers /\ alive \in SUBSET Workers
  /\ pc \in [Workers -> {"idle", "take"}] /\ want \in [Workers -> SUBSET Keys]
  /\ wait \in [Workers -> 0..Period]
  /\ age \in [Workers -> [Workers -> Unseen..Old]] /\ news \in [Workers -> SUBSET Workers]
  /\ shown \in [Workers -> SUBSET Workers] /\ recent \in SUBSET Workers
  /\ was \in [owner : [Keys -> Workers \cup {NoOwner}], completed : SUBSET Keys,
               beating : SUBSET Workers]
  /\ missed \in SUBSET Workers /\ faults \in 0..MaxFaults

Init ==
  /\ owner = [k \in Keys |-> NoOwner] /\ completed = {}
  /\ beating = {} /\ alive = Workers
  /\ pc = [w \in Workers |-> "idle"] /\ want = [w \in Workers |-> {}]
  /\ wait = [w \in Workers |-> Period]
  /\ age = [w \in Workers |-> [v \in Workers |-> Unseen]]
  /\ news = [w \in Workers |-> {}] /\ shown = [w \in Workers |-> {}] /\ recent = {}
  /\ was = [owner |-> owner, completed |-> {}, beating |-> {}]
  /\ missed = {} /\ faults = 0

-----------------------------------------------------------------------------
\* is_owner_expired, on the ages the tick has just updated.
Expired(w, v, ages) == v \notin {NoOwner, w} /\ ages[v] > LeaseDuration

\* What worker w's list may return: some rows, and the heartbeats in late, as they
\* were when the clock last moved.
Scans(w, late) ==
  {[owner |-> [k \in Keys |-> IF k \in stale THEN was.owner[k] ELSE owner[k]],
    completed |-> (completed \ stale) \cup (was.completed \cap stale),
    beating |-> (beating \ late) \cup (was.beating \cap late),
    moved |-> (news[w] \ late) \cup shown[w]] :
     stale \in SUBSET {k \in Keys : was.owner[k] # owner[k] \/ k \in completed \ was.completed}}

\* Mutant: a worker never seen before counts as last seen at time zero.
RefreshedFromZero(w, scan) ==
  [v \in Workers |->
     IF v \in scan.moved \cup {w} THEN 0
     ELSE IF age[w][v] = Unseen THEN 2 * Old ELSE age[w][v]]

\* The freshness part of tick: a moved counter, a new heartbeat row, or an owner
\* without one starts at age 0; workers no row names are forgotten.  (Nothing reads
\* what a worker knows of itself.)
Refreshed(w, scan) ==
  [v \in Workers |->
     IF v = w \/ v \in scan.beating \cap scan.moved THEN 0
     ELSE IF v \notin scan.beating /\ \A k \in Keys : scan.owner[k] # v THEN Unseen
     ELSE IF age[w][v] = Unseen THEN 0 ELSE age[w][v]]

Snapshot(w, scan, ages) ==
  [k \in Keys |-> [owner |-> scan.owner[k], expired |-> Expired(w, scan.owner[k], ages),
                   completed |-> k \in scan.completed]]

\* Mutant: the heartbeat is written only by workers that hold a lease.
HeartbeatIfOwner(w, late) ==
  LET W == {v \in {w} : \E k \in Keys : owner[k] = w} IN
  /\ beating' = beating \cup W /\ recent' = recent \cup W
  /\ news' = [v \in Workers |-> IF v = w THEN late ELSE news[v] \cup W]
  /\ UNCHANGED <<missed, faults>>

\* The heartbeat of the cycle: everyone else will find the counter moved.  The worker
\* itself has caught up with the others, but for those its scan missed.
Heartbeat(w, late) ==
  /\ beating' = beating \cup {w} /\ recent' = recent \cup {w}
  /\ news' = [v \in Workers |-> IF v = w THEN late ELSE news[v] \cup {w}]
  /\ UNCHANGED <<missed, faults>>

\* ... is best effort: its failure is ignored.
HeartbeatFails(w, late) ==
  /\ faults < MaxFaults
  /\ faults' = faults + 1 /\ missed' = missed \cup {w}
  /\ news' = [news EXCEPT ![w] = late]
  /\ UNCHANGED <<beating, recent>>

\* A cycle: heartbeat, list, tick.
Tick(w) ==
  /\ w \in alive /\ pc[w] = "idle"
  /\ pc' = [pc EXCEPT ![w] = "take"]
  /\ wait' = [wait EXCEPT ![w] = Period]
  /\ shown' = [shown EXCEPT ![w] = {}]
  /\ UNCHANGED <<rows, alive, was>>
  /\ \E late \in SUBSET (recent \ {w}) :
       /\ Heartbeat(w, late) \/ HeartbeatFails(w, late)
       /\ \E scan \in Scans(w, late) :
            /\ age' = [age EXCEPT ![w] = Refreshed(w, scan)]
            /\ \E leases \in {Snapshot(w, scan, age'[w])} :
                 \E take \in LeasesToTake(leases, w, MaxLeases) :
                    want' = [want EXCEPT ![w] = take]

\* acquire claims on the counter it reads itself, so a decision taken from an
\* older scan still displaces whoever owns the lease by now.
Acquire(w, k) ==
  /\ w \in alive /\ pc[w] = "take" /\ k \in want[w]
  /\ owner' = [owner EXCEPT ![k] = w]
  /\ want' = [want EXCEPT ![w] = @ \ {k}]
  /\ UNCHANGED <<completed, beating, alive, pc, wait, age, news, replica, missed, faults>>

\* The passes over the owned shards, and the sleep.
Work(w) ==
  /\ w \in alive /\ pc[w] = "take" /\ want[w] = {}
  /\ pc' = [pc EXCEPT ![w] = "idle"]
  /\ UNCHANGED <<rows, beating, alive, want, wait, age, news, replica, missed, faults>>

\* A pass reaches SHARD_END.
Complete(k) ==
  /\ k \notin completed /\ owner[k] \in alive /\ pc[owner[k]] = "take"
  /\ completed' = completed \cup {k}
  /\ UNCHANGED <<owner, beating, alive, pc, want, wait, age, news, replica, missed, faults>>

Crash(w) ==
  /\ w \in alive /\ faults < MaxFaults
  /\ faults' = faults + 1
  /\ alive' = alive \ {w}
  /\ want' = [want EXCEPT ![w] = {}]
  /\ UNCHANGED <<rows, beating, pc, wait, age, news, replica, missed>>

Elapse ==
  /\ alive # {} /\ \A w \in alive : wait[w] > 0
  /\ wait' = [w \in Workers |-> IF w \in alive THEN wait[w] - 1 ELSE wait[w]]
  /\ age' = [w \in Workers |-> [v \in Workers |->
               IF age[w][v] \in {Unseen, Old} THEN age[w][v] ELSE age[w][v] + 1]]
  /\ shown' = news /\ recent' = {} /\ missed' = missed \ recent
  /\ was' = [owner |-> owner, completed |-> completed, beating |-> beating]
  /\ UNCHANGED <<rows, beating, alive, pc, want, news, faults>>

CycleStep(w) == Tick(w) \/ Work(w) \/ \E k \in Keys : Acquire(w, k)

Next ==
  \/ \E w \in Workers : CycleStep(w) \/ Crash(w)
  \/ \E k \in Keys : Complete(k)
  \/ Elapse

Spec == Init /\ [][Next]_vars

\* Time passes, and live workers keep cycling.
Fairness == SF_vars(Elapse) /\ \A w \in Workers : WF_vars(CycleStep(w))
FairSpec == Spec /\ Fairness

-----------------------------------------------------------------------------
(* Correctness *)

\* "an owner is alive while its heartbeat counter keeps advancing, so a live worker
\* keeps ALL its shards", core/src/coordinator.rs:63: no tick, on scans that may be
\* old, takes a worker for dead that is alive and got its heartbeat through, however
\* the observers' cycles and its own interleave.
LiveNeverReaped ==
  [][\A w, v \in Workers :
        pc[w] = "idle" /\ pc'[w] = "take" /\ v \in alive \ missed => ~Expired(w, v, age'[w])]_vars

\* "a dead worker's entire lease set becomes takeable at once",
\* core/src/coordinator.rs:64: every lease ends up complete or with a worker that
\* is alive, as long as there is one.
OrphansReclaimed ==
  <>[](alive = {} \/ \A k \in Keys : k \in completed \/ owner[k] \in alive)

\* The takers "converge on an even distribution" (core/src/taker.rs:3): from some
\* point on no live worker holds more than its share of the active leases, rounded
\* up, whatever was raced for on old scans, stolen, completed or orphaned before.
FairlyShared ==
  <>[](\A w \in alive :
         LET active == Keys \ completed
             held == {k \in active : owner[k] = w} IN
         (Cardinality(held) - 1) * Cardinality(alive) < Cardinality(active))

\* Rebalancing comes to rest: from some point on no lease changes hands.
Settles == <>[][owner' = owner]_vars
=============================================================================
