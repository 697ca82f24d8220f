----------------------------- MODULE Leadership -----------------------------
(***************************************************************************)
(* Leader election: Leadership::step of worker/src/fleet.rs, run by every  *)
(* worker at the start of each cycle over the sentinel lease, with the     *)
(* conditional writes of lease-dynamodb/src/dynamodb.rs.                   *)
(*                                                                         *)
(* The scan and the bid are two calls, so others bid in between.  Expiry   *)
(* comes from a LeaseCoordinator that is fed the sentinel row and nothing  *)
(* else: it sees no heartbeat rows, so all it knows of a leader is how     *)
(* long ago it first saw that owner.  Time is discrete and a live worker   *)
(* begins its next cycle at most Period after the previous one, as in      *)
(* Balancer.  A scan of a lagging replica is a scan made earlier.          *)
(***************************************************************************)
EXTENDS Integers, FiniteSets

CONSTANTS
  Workers, NoOwner,
  LeaseDuration,  \* lease_duration_ms
  Period,         \* bound on the time from one cycle of a worker to its next
  MaxCounter,     \* bound on the sentinel's leaseCounter
  MaxStops,       \* bound on crashes and graceful stops
  MaxFaults       \* bound on failed service calls

ASSUME LeadershipAssumption ==
  /\ NoOwner \notin Workers
  /\ LeaseDuration \in Nat /\ Period \in Nat \ {0} /\ MaxCounter \in Nat
  /\ MaxStops \in Nat /\ MaxFaults \in Nat

VARIABLES
  sentinel,       \* the sentinel lease (counter 0: the row does not exist)
  look,           \* look[w]: the sentinel as w's cycle scanned it
  move,           \* move[w]: the bid that follows from it
  clock,          \* clock[w]: the coordinator's Seen entry for the leader
  held,           \* held[w]: Leadership.counter
  pc,             \* pc[w]: between cycles, bidding, leading, releasing or down
  wait,           \* wait[w]: time left until w's next cycle has to begin
  stops, faults

vars == <<sentinel, look, move, clock, held, pc, wait, stops, faults>>

Vacant == [owner |-> NoOwner, counter |-> 0]
NoClock == [who |-> NoOwner, age |-> 0]
Old == LeaseDuration + 1      \* ages are counted up to here
Alive == {w \in Workers : pc[w] # "down"}
Sentinel == [owner : Workers \cup {NoOwner}, counter : 0..MaxCounter]

TypeOK ==
  /\ sentinel \in Sentinel /\ look \in [Workers -> Sentinel]
  /\ move \in [Workers -> {"renew", "create", "steal", "none"}]
  /\ clock \in [Workers -> [who : Workers \cup {NoOwner}, age : 0..Old]]
  /\ held \in [Workers -> 0..MaxCounter]
  /\ pc \in [Workers -> {"idle", "bid", "lead", "release", "down"}]
  /\ wait \in [Workers -> 0..Period]
  /\ stops \in 0..MaxStops /\ faults \in 0..MaxFaults

Init ==
  /\ sentinel = Vacant /\ look = [w \in Workers |-> Vacant]
  /\ move = [w \in Workers |-> "none"]
  /\ clock = [w \in Workers |-> NoClock]
  /\ held = [w \in Workers |-> 0]
  /\ pc = [w \in Workers |-> "idle"]
  /\ wait = [w \in Workers |-> Period]
  /\ stops = 0 /\ faults = 0

-----------------------------------------------------------------------------
\* Mutant: the entry is inserted anew by every tick.
TickedAfresh(w, row) == IF row.owner \in {NoOwner, w} THEN NoClock ELSE [who |-> row.owner, age |-> 0]

\* tick on the sentinel: a grace clock for an owner not seen before; the entries
\* of owners the row no longer names are dropped.
Ticked(w, row) ==
  IF row.owner \in {NoOwner, w} THEN NoClock
  ELSE IF clock[w].who = row.owner THEN clock[w] ELSE [who |-> row.owner, age |-> 0]

\* step: renew what is ours, create a vacant sentinel, steal one that tick found
\* takeable, because its owner expired or released it.
Chosen(w, row) ==
  IF row.owner = w THEN "renew"
  ELSE IF row.counter = 0 THEN "create"
  ELSE IF row.owner = NoOwner \/ Ticked(w, row).age > LeaseDuration THEN "steal"
  ELSE "none"

\* The cycle's scan, and the decision taken from it.
Scan(w) ==
  /\ pc[w] = "idle"
  /\ look' = [look EXCEPT ![w] = sentinel]
  /\ clock' = [clock EXCEPT ![w] = Ticked(w, sentinel)]
  /\ move' = [move EXCEPT ![w] = Chosen(w, sentinel)]
  /\ pc' = [pc EXCEPT ![w] = "bid"]
  /\ wait' = [wait EXCEPT ![w] = Period]
  /\ UNCHANGED <<sentinel, held, stops, faults>>

\* Mutant: a steal goes through whatever happened since the scan.
WinsAnySteal(w) ==
  \/ move[w] = "renew" /\ sentinel.owner = w /\ sentinel.counter = look[w].counter
  \/ move[w] = "create" /\ sentinel.counter = 0
  \/ move[w] = "steal"

\* The condition expressions of renew, the create-if-absent and the steal.
Wins(w) ==
  \/ move[w] = "renew" /\ sentinel.owner = w /\ sentinel.counter = look[w].counter
  \/ move[w] = "create" /\ sentinel.counter = 0
  \/ move[w] = "steal" /\ sentinel.counter = look[w].counter

Taken(w) == [owner |-> w, counter |-> sentinel.counter + 1]

\* The write is applied: w leads, at the counter it computes from what it saw.
BidWon(w) ==
  /\ pc[w] = "bid" /\ Wins(w) /\ sentinel.counter < MaxCounter
  /\ sentinel' = Taken(w)
  /\ held' = [held EXCEPT ![w] = look[w].counter + 1]
  /\ pc' = [pc EXCEPT ![w] = "lead"]
  /\ UNCHANGED <<look, move, clock, wait, stops, faults>>

\* No bid, or the condition failed: another worker leads this cycle.
BidLost(w) ==
  /\ pc[w] = "bid" /\ ~Wins(w)
  /\ pc' = [pc EXCEPT ![w] = "idle"]
  /\ UNCHANGED <<sentinel, look, move, clock, held, wait, stops, faults>>

\* A service error, after which the bid was applied or was not.
BidFault(w) ==
  /\ pc[w] = "bid" /\ move[w] # "none" /\ faults < MaxFaults
  /\ faults' = faults + 1
  /\ \/ UNCHANGED sentinel
     \/ Wins(w) /\ sentinel.counter < MaxCounter /\ sentinel' = Taken(w)
  /\ pc' = [pc EXCEPT ![w] = "idle"]
  /\ UNCHANGED <<look, move, clock, held, wait, stops>>

\* The leader's shard sync and the rest of its cycle.
SyncEnds(w) ==
  /\ pc[w] = "lead"
  /\ pc' = [pc EXCEPT ![w] = "idle"]
  /\ UNCHANGED <<sentinel, look, move, clock, held, wait, stops, faults>>

\* What is in memory is lost.
Down(w) ==
  /\ pc' = [pc EXCEPT ![w] = "down"]
  /\ look' = [look EXCEPT ![w] = Vacant] /\ move' = [move EXCEPT ![w] = "none"]
  /\ clock' = [clock EXCEPT ![w] = NoClock] /\ held' = [held EXCEPT ![w] = 0]

Crash(w) ==
  /\ pc[w] # "down" /\ stops < MaxStops
  /\ stops' = stops + 1
  /\ Down(w)
  /\ UNCHANGED <<sentinel, wait, faults>>

\* A graceful stop: release_owned scans ...
Stop(w) ==
  /\ pc[w] = "idle" /\ stops < MaxStops
  /\ stops' = stops + 1
  /\ look' = [look EXCEPT ![w] = sentinel] /\ move' = [move EXCEPT ![w] = "none"]
  /\ pc' = [pc EXCEPT ![w] = "release"]
  /\ UNCHANGED <<sentinel, clock, held, wait, faults>>

\* ... and releases every row it owns, the sentinel among them, if it still
\* holds it at the counter it scanned.
Release(w) ==
  /\ pc[w] = "release" /\ sentinel.counter < MaxCounter
  /\ sentinel' = IF sentinel.owner = w /\ sentinel = look[w]
                 THEN [owner |-> NoOwner, counter |-> sentinel.counter + 1] ELSE sentinel
  /\ Down(w)
  /\ UNCHANGED <<wait, stops, faults>>

\* A new process under the same owner name.
Restart(w) ==
  /\ pc[w] = "down"
  /\ pc' = [pc EXCEPT ![w] = "idle"]
  /\ wait' = [wait EXCEPT ![w] = Period]
  /\ UNCHANGED <<sentinel, look, move, clock, held, stops, faults>>

Elapse ==
  /\ Alive # {} /\ \A w \in Alive : wait[w] > 0
  /\ wait' = [w \in Workers |-> IF w \in Alive THEN wait[w] - 1 ELSE wait[w]]
  /\ clock' = [w \in Workers |->
       IF clock[w].who = NoOwner \/ clock[w].age = Old THEN clock[w]
       ELSE [clock[w] EXCEPT !.age = @ + 1]]
  /\ UNCHANGED <<sentinel, look, move, held, pc, stops, faults>>

CycleStep(w) == Scan(w) \/ BidWon(w) \/ BidLost(w) \/ SyncEnds(w) \/ Release(w)

Next ==
  \/ \E w \in Workers : CycleStep(w) \/ BidFault(w) \/ Crash(w) \/ Stop(w) \/ Restart(w)
  \/ Elapse

Spec == Init /\ [][Next]_vars

\* Time passes, and live workers keep cycling.
Fairness == SF_vars(Elapse) /\ \A w \in Workers : WF_vars(CycleStep(w))
FairSpec == Spec /\ Fairness

-----------------------------------------------------------------------------
(* Correctness *)

\* A sentinel is created only by a worker that saw none.
CreatesFromVacant == \A w \in Workers : move[w] = "create" => look[w].counter = 0

\* Nobody believes to hold the sentinel at a counter the table has not reached.
HeldWasWritten == \A w \in Workers : held[w] <= sentinel.counter

\* "one winner", worker/src/fleet.rs:74: two workers never believe to hold the
\* sentinel at the same counter, however their scans, bids, lost replies, stops
\* and restarts interleave, and whoever believes to hold it at the counter the
\* table has is its owner.
OneLeaderPerEpoch ==
  \A w \in Workers : held[w] # 0 =>
    /\ held[w] = sentinel.counter => sentinel.owner = w
    /\ \A v \in Workers \ {w} : held[v] # held[w]

\* The inductive invariant behind OneLeaderPerEpoch.
Inv == TypeOK /\ CreatesFromVacant /\ HeldWasWritten /\ OneLeaderPerEpoch

\* A sentinel that does not exist, was released, or belongs to a worker that died
\* (whose grace clock runs out) ends up with a live worker, as long as one stays
\* up (and unless the model ran out of counters).
LeaderlessEnds ==
  sentinel.owner \notin Alive /\ sentinel.counter < MaxCounter
    ~> sentinel.owner \in Alive \/ Alive = {}
=============================================================================
