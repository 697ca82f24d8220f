----------------------------- MODULE FleetProofs ----------------------------
(***************************************************************************)
(* Proofs about Fleet for any set of workers, any finite set of shards,    *)
(* any length of log and any bounds.                                       *)
(*                                                                         *)
(* First the invariants of the states (Inv): types, ownership, and that    *)
(* the durable position covers only what was handled.  Then what a step    *)
(* may never do (OrderInv): the durable position under per-batch           *)
(* checkpointing, completed shards, and the refinement of ShardLog.  These *)
(* rest on what the optimistic lock gives a pass whose conditional writes  *)
(* would still succeed: its position is the row's.                         *)
(***************************************************************************)
EXTENDS Fleet, FiniteSetTheorems, TLAPS

-----------------------------------------------------------------------------
(* What a scan returns *)

\* Every row of a scan is the row itself or its replica.
LEMMA ViewRows ==
  ASSUME NEW v \in Views, NEW s \in Shards
  PROVE  v[s] = lease[s] \/ v[s] = replica[s]
BY DEF Views, Scan

\* Cardinality of a set of shards is a natural number.
LEMMA ShardsCounted ==
  ASSUME NEW keys \in SUBSET Shards
  PROVE  Cardinality(keys) \in Nat
<1>1. IsFiniteSet(keys)
  BY FleetAssumption, FS_Subset DEF FleetAssumption
<1>2. QED
  BY <1>1, FS_CardinalityType

\* A task record keeps its type under the updates process_shard makes.
LEMMA TaskUpdate ==
  ASSUME NEW t \in Task, NEW p \in TaskPC, NEW c \in Nat,
         NEW a \in 0..LastSeq, NEW n \in 0..LastSeq, NEW e \in BOOLEAN
  PROVE  /\ [t EXCEPT !.pc = p, !.counter = c, !.val = n] \in Task
         /\ [t EXCEPT !.pc = p, !.after = a, !.val = n, !.end = e] \in Task
         /\ [t EXCEPT !.pc = p, !.after = a, !.end = e] \in Task
         /\ [t EXCEPT !.pc = p, !.val = n] \in Task
         /\ [t EXCEPT !.pc = p, !.counter = c, !.after = a] \in Task
         /\ [t EXCEPT !.pc = p, !.end = e] \in Task
         /\ [t EXCEPT !.counter = c] \in Task
         /\ [t EXCEPT !.pc = p, !.val = n, !.counter = c] \in Task
BY DEF Task

\* The counter of a row can be bumped.
LEMMA CounterUp ==
  ASSUME NEW r \in Row
  PROVE  r.counter + 1 \in Nat
BY DEF Row

\* A row keeps its type under the updates the writes make.
LEMMA RowExcept ==
  ASSUME NEW r \in Row, NEW w \in Workers \cup {NoOwner}, NEW c \in Nat, NEW n \in 0..LastSeq
  PROVE  /\ [r EXCEPT !.owner = w, !.counter = c] \in Row
         /\ [r EXCEPT !.checkpoint = n, !.counter = c] \in Row
         /\ [r EXCEPT !.completed = TRUE] \in Row
BY DEF Row

\* Every write of LeaseStore maps rows to rows.
LEMMA RowUpdate ==
  ASSUME NEW r \in Row, NEW w \in Workers, NEW n \in 0..LastSeq
  PROVE  /\ Claimed(r, w) \in Row /\ Checkpointed(r, n) \in Row
         /\ Completed(r) \in Row /\ Released(r) \in Row
<1>1. Claimed(r, w) \in Row
  BY CounterUp, RowExcept DEF Claimed
<1>2. Checkpointed(r, n) \in Row
  BY CounterUp, RowExcept DEF Checkpointed
<1>3. Completed(r) \in Row
  BY DEF Row, Completed
<1>4. Released(r) \in Row
  BY CounterUp, RowExcept DEF Released
<1>5. QED
  BY <1>1, <1>2, <1>3, <1>4

-----------------------------------------------------------------------------
(* Type correctness *)

LEMMA InitType == Init => TypeOK
<1> SUFFICES ASSUME Init PROVE TypeOK
  OBVIOUS
<1>1. Published(TrimHorizon) \in Row
  BY FleetAssumption DEF FleetAssumption, Published, TrimHorizon, Row
<1>2. Off \in Task
  BY FleetAssumption DEF FleetAssumption, Off, Task, TaskPC
<1>3. QED
  BY <1>1, <1>2, FleetAssumption DEF FleetAssumption, Init, TypeOK, NoEntry

LEMMA OffType == Off \in Task
BY FleetAssumption DEF FleetAssumption, Off, Task, TaskPC

LEMMA HungType == Hung \in Task
BY FleetAssumption DEF FleetAssumption, Hung, Task, TaskPC

LEMMA StreamType ==
  ASSUME TypeOK, NEW s \in Shards, StreamStep(s)
  PROVE  TypeOK'
<1>1. CASE Produce(s)
  <2>1. written[s] + 1 \in 0..LastSeq
    BY <1>1, FleetAssumption DEF FleetAssumption, TypeOK, Produce
  <2>2. written' \in [Shards -> 0..LastSeq]
    BY <1>1, <2>1 DEF TypeOK, Produce
  <2> QED
    BY <1>1, <2>2 DEF TypeOK, Produce, table, budget
<1>2. CASE CloseShard(s)
  BY <1>2 DEF TypeOK, CloseShard, table, budget
<1>3. CASE Replicate(s)
  BY <1>3 DEF TypeOK, Replicate, log, budget
<1>4. QED
  BY <1>1, <1>2, <1>3 DEF StreamStep

\* Starting a task from a row that a scan returned.
LEMMA StartType ==
  ASSUME TypeOK, NEW w \in Workers, NEW s \in Shards, NEW row \in Row
  PROVE  StartTask(w, s, row) \in Task
<1>1. row.counter \in Nat /\ row.checkpoint \in 0..LastSeq
  BY DEF Row
<1>2. pending[w][s] \in NoEntry..LastSeq
  BY DEF TypeOK
<1>3. ResumeFrom(w, s, row) \in 0..LastSeq
  BY <1>1, <1>2, FleetAssumption DEF FleetAssumption, ResumeFrom, PendingAck, NoEntry
<1>4. QED
  BY <1>1, <1>3, OffType, TaskUpdate DEF StartTask, TaskPC

\* A scan's rows are rows.
LEMMA ViewType ==
  ASSUME TypeOK, NEW v \in Views, NEW s \in Shards
  PROVE  v[s] \in Row
BY ViewRows DEF TypeOK

LEMMA CycleType ==
  ASSUME TypeOK, NEW w \in Workers, CycleStep(w)
  PROVE  TypeOK'
<1>1. CASE Decide(w)
  <2>1. PICK keys \in SUBSET Shards :
          /\ steals' = steals + Cardinality({s \in keys : ~Orphaned(s)})
          /\ steals' <= MaxSteals
          /\ want' = [want EXCEPT ![w] = keys]
    BY <1>1 DEF Decide, Takeable
  <2>3. Cardinality({s \in keys : ~Orphaned(s)}) \in Nat
    BY ShardsCounted
  <2>4. steals' \in 0..MaxSteals
    BY <2>1, <2>3, FleetAssumption DEF FleetAssumption, TypeOK
  <2>5. want' \in [Workers -> SUBSET Shards]
    BY <2>1 DEF TypeOK
  <2>6. pc' \in [Workers -> {"idle", "take", "run", "release", "down"}]
    BY <1>1 DEF TypeOK, Decide
  <2> QED
    BY <1>1, <2>4, <2>5, <2>6 DEF TypeOK, Decide, log, table
<1>2. CASE Claim(w)
  <2>1. seen[w].shard \in Shards
    BY <1>2 DEF TypeOK, Claim
  <2>2. Claimed(lease[seen[w].shard], w) \in Row
    BY <2>1, RowUpdate, FleetAssumption DEF FleetAssumption, TypeOK
  <2>3. lease' \in [Shards -> Row]
    BY <1>2, <2>1, <2>2 DEF TypeOK, Claim
  <2> QED
    BY <1>2, <2>3 DEF TypeOK, Claim, log, budget
<1>3. CASE ReadOwned(w)
  <2>1. PICK v \in Views :
          /\ pending' = [pending EXCEPT ![w] =
               [s \in Shards |-> IF s \in Owned(w, v) THEN @[s] ELSE NoEntry]]
          /\ \/ pc' = [pc EXCEPT ![w] = "down"] /\ UNCHANGED task
             \/ /\ pc' = [pc EXCEPT ![w] = "run"]
                /\ task' = [task EXCEPT ![w] =
                     [s \in Shards |-> IF s \in Owned(w, v) THEN StartTask(w, s, v[s]) ELSE Off]]
    BY <1>3 DEF ReadOwned
  <2>2. NoEntry \in NoEntry..LastSeq
    BY FleetAssumption DEF FleetAssumption, NoEntry
  <2>3. pending' \in [Workers -> [Shards -> NoEntry..LastSeq]]
    BY <2>1, <2>2 DEF TypeOK
  <2>4. \A s \in Shards : StartTask(w, s, v[s]) \in Task
    BY StartType, ViewType
  <2> DEFINE started == [s \in Shards |->
                IF s \in Owned(w, v) THEN StartTask(w, s, v[s]) ELSE Off]
  <2>7. started \in [Shards -> Task]
    BY <2>4, OffType
  <2>8. task' = task \/ task' = [task EXCEPT ![w] = started]
    BY <2>1
  <2> HIDE DEF started
  <2>5. task' \in [Workers -> [Shards -> Task]]
    BY <2>7, <2>8 DEF TypeOK
  <2>6. pc' \in [Workers -> {"idle", "take", "run", "release", "down"}]
    BY <2>1 DEF TypeOK
  <2> QED
    BY <1>3, <2>3, <2>5, <2>6 DEF TypeOK, ReadOwned, log, table, budget
<1>4. CASE EndCycle(w)
  BY <1>4 DEF TypeOK, EndCycle, log, table, budget
<1>5. CASE ReleaseDone(w)
  <2>1. NoEntry \in NoEntry..LastSeq
    BY FleetAssumption DEF FleetAssumption, NoEntry
  <2> QED
    BY <1>5, <2>1 DEF TypeOK, ReleaseDone, log, table, budget
<1>6. ASSUME NEW s \in Shards, AcquireGet(w, s) PROVE TypeOK'
  <2>1. lease[s].counter \in Nat
    BY DEF TypeOK, Row
  <2>2. seen' \in [Workers -> {NoKey} \cup [on : {TRUE}, shard : Shards, counter : Nat]]
    BY <1>6, <2>1 DEF TypeOK, AcquireGet
  <2> QED
    BY <1>6, <2>2 DEF TypeOK, AcquireGet, log, table, budget
<1>7. QED
  BY <1>1, <1>2, <1>3, <1>4, <1>5, <1>6 DEF CycleStep

\* One task, one CkptDefer entry or one row replaced by a well-typed value.
LEMMA TaskSet ==
  ASSUME TypeOK, NEW w \in Workers, NEW s \in Shards, NEW t \in Task
  PROVE  [task EXCEPT ![w][s] = t] \in [Workers -> [Shards -> Task]]
BY DEF TypeOK

LEMMA PendingSet ==
  ASSUME TypeOK, NEW w \in Workers, NEW s \in Shards, NEW n \in NoEntry..LastSeq
  PROVE  [pending EXCEPT ![w][s] = n] \in [Workers -> [Shards -> NoEntry..LastSeq]]
BY DEF TypeOK

LEMMA EntryType ==
  /\ NoEntry \in NoEntry..LastSeq /\ 0 \in NoEntry..LastSeq /\ 0 \in 0..LastSeq
  /\ \A n \in 0..LastSeq : n \in NoEntry..LastSeq
  /\ \A n \in NoEntry..LastSeq : n > 0 => n \in 0..LastSeq
BY FleetAssumption DEF FleetAssumption, NoEntry

LEMMA LeaseSet ==
  ASSUME TypeOK, NEW s \in Shards, NEW r \in Row
  PROVE  [lease EXCEPT ![s] = r] \in [Shards -> Row]
BY DEF TypeOK

\* The fields of a task have their types.
LEMMA TaskFields ==
  ASSUME TypeOK, NEW w \in Workers, NEW s \in Shards
  PROVE  /\ task[w][s] \in Task /\ task[w][s].pc \in TaskPC /\ task[w][s].counter \in Nat
         /\ task[w][s].counter + 1 \in Nat
         /\ task[w][s].after \in 0..LastSeq /\ task[w][s].val \in 0..LastSeq
         /\ task[w][s].end \in BOOLEAN
BY DEF TypeOK, Task

LEMMA AfterBatchType == \A end \in BOOLEAN : AfterBatch(end) \in TaskPC
BY DEF AfterBatch, TaskPC

LEMMA DeliverType ==
  ASSUME TypeOK, NEW w \in Workers, NEW s \in Shards,
         \/ PassReturns(w, s) \/ EmptyEnd(w, s) \/ DeliverAcked(w, s)
         \/ DeliverUnacked(w, s) \/ DeliverHangs(w, s) \/ DeliverFails(w, s)
  PROVE  TypeOK'
<1> USE OffType, EntryType, AfterBatchType
<1>0. /\ task[w][s] \in Task /\ task[w][s].after \in 0..LastSeq /\ written[s] \in 0..LastSeq
      /\ LastSeq \in Nat
  BY TaskFields, FleetAssumption DEF FleetAssumption, TypeOK
<1>1. CASE PassReturns(w, s)
  BY <1>1, TaskSet DEF TypeOK, PassReturns, log, table, budget
<1>2. CASE EmptyEnd(w, s)
  <2>1. [task[w][s] EXCEPT !.pc = AfterBatch(TRUE), !.end = TRUE] \in Task
    BY <1>0, TaskUpdate
  <2>2. task' = [task EXCEPT ![w][s] = [task[w][s] EXCEPT !.pc = AfterBatch(TRUE), !.end = TRUE]]
    BY <1>2 DEF EmptyEnd, TypeOK
  <2>3. task' \in [Workers -> [Shards -> Task]]
    BY <2>1, <2>2, TaskSet
  <2> QED
    BY <1>2, <2>3 DEF TypeOK, EmptyEnd, log, table, budget
<1>3. CASE DeliverAcked(w, s)
  <2>1. PICK hi \in task[w][s].after + 1 .. written[s], end \in BOOLEAN, due \in BOOLEAN :
          /\ acked' = [acked EXCEPT ![s] = @ \cup (task[w][s].after + 1 .. hi)]
          /\ task' = [task EXCEPT ![w][s] = [@ EXCEPT
                !.pc = IF due THEN "ckpt" ELSE AfterBatch(end),
                !.after = hi, !.val = IF due THEN hi ELSE 0, !.end = end]]
          /\ pending' = IF Defer THEN [pending EXCEPT ![w][s] = hi] ELSE pending
    BY <1>3 DEF DeliverAcked, Deliver, RecordAck
  <2>2. hi \in 0..LastSeq /\ task[w][s].after + 1 .. hi \subseteq 1..LastSeq
    BY <1>0
  <2>3. acked' \in [Shards -> SUBSET (1..LastSeq)]
    BY <2>1, <2>2 DEF TypeOK
  <2>4. (IF due THEN "ckpt" ELSE AfterBatch(end)) \in TaskPC /\ (IF due THEN hi ELSE 0) \in 0..LastSeq
    BY <2>2 DEF TaskPC
  <2> DEFINE next == [task[w][s] EXCEPT
                !.pc = IF due THEN "ckpt" ELSE AfterBatch(end),
                !.after = hi, !.val = IF due THEN hi ELSE 0, !.end = end]
  <2>7. next \in Task
    BY <1>0, <2>2, <2>4, TaskUpdate
  <2>5. task' \in [Workers -> [Shards -> Task]]
    BY <2>1, <2>7, TaskSet
  <2>6. pending' \in [Workers -> [Shards -> NoEntry..LastSeq]]
    BY <2>1, <2>2, PendingSet DEF TypeOK
  <2> QED
    BY <1>3, <2>3, <2>5, <2>6 DEF TypeOK, DeliverAcked, log, table, budget
<1>4. CASE DeliverUnacked(w, s)
  <2>1. PICK hi \in task[w][s].after + 1 .. written[s], end \in BOOLEAN :
          task' = [task EXCEPT ![w][s] = [@ EXCEPT
                !.pc = AfterBatch(end), !.after = hi, !.end = end]]
    BY <1>4 DEF DeliverUnacked
  <2>2. hi \in 0..LastSeq
    BY <1>0
  <2>3. task' \in [Workers -> [Shards -> Task]]
    BY <1>0, <2>1, <2>2, TaskUpdate, TaskSet
  <2> QED
    BY <1>4, <2>3 DEF TypeOK, DeliverUnacked, log, table, budget
<1>5. CASE DeliverFails(w, s)
  <2>1. faults' \in 0..MaxFaults
    BY <1>5, FleetAssumption DEF FleetAssumption, DeliverFails, TypeOK
  <2> QED
    BY <1>5, <2>1, TaskSet, PendingSet DEF TypeOK, DeliverFails, log, table
<1>6. CASE DeliverHangs(w, s)
  BY <1>6, TaskSet, HungType DEF TypeOK, DeliverHangs, log, table, budget
<1>7. QED
  BY <1>1, <1>2, <1>3, <1>4, <1>5, <1>6

\* The two ways a task's row changes while the task goes on or stops.
LEMMA CheckpointType ==
  ASSUME TypeOK, NEW w \in Workers, NEW s \in Shards,
         CheckpointOk(w, s) \/ CheckpointLost(w, s) \/ CheckpointFault(w, s)
  PROVE  TypeOK'
<1> USE OffType, EntryType, AfterBatchType
<1>0. /\ task[w][s] \in Task /\ task[w][s].counter + 1 \in Nat /\ task[w][s].val \in 0..LastSeq
      /\ task[w][s].end \in BOOLEAN
  BY TaskFields
<1>a. Checkpointed(lease[s], task[w][s].val) \in Row
  BY <1>0, RowUpdate DEF TypeOK
<1>b. [lease EXCEPT ![s] = Checkpointed(@, task[w][s].val)] \in [Shards -> Row]
  BY <1>a, LeaseSet
<1>1. CASE CheckpointOk(w, s)
  <2> DEFINE p == IF task[w][s].pc = "flush" THEN "finish" ELSE AfterBatch(task[w][s].end)
             n == IF task[w][s].pc = "flush" THEN NoEntry ELSE 0
  <2>1. p \in TaskPC
    BY <1>0 DEF TaskPC
  <2>2. Persisted(task[w][s]) \in Task
    BY <1>0, <2>1, TaskUpdate DEF Persisted
  <2>3. task' \in [Workers -> [Shards -> Task]]
    BY <1>1, <2>2, TaskSet DEF CheckpointOk
  <2>4. n \in NoEntry..LastSeq
    OBVIOUS
  <2>5. pending' \in [Workers -> [Shards -> NoEntry..LastSeq]]
    BY <1>1, <2>4, PendingSet DEF CheckpointOk, TypeOK
  <2> QED
    BY <1>1, <1>b, <2>3, <2>5 DEF TypeOK, CheckpointOk, log, budget
<1>2. CASE CheckpointLost(w, s)
  BY <1>2, TaskSet, PendingSet DEF TypeOK, CheckpointLost, LeaseLost, log
<1>3. CASE CheckpointFault(w, s)
  <2>1. faults' \in 0..MaxFaults
    BY <1>3, FleetAssumption DEF FleetAssumption, CheckpointFault, TypeOK
  <2>2. lease' \in [Shards -> Row]
    BY <1>3, <1>b DEF CheckpointFault, TypeOK
  <2> QED
    BY <1>3, <2>1, <2>2, TaskSet, PendingSet DEF TypeOK, CheckpointFault, LeaseLost, log
<1>4. QED
  BY <1>1, <1>2, <1>3

LEMMA EndType ==
  ASSUME TypeOK, NEW w \in Workers, NEW s \in Shards,
         TakePending(w, s) \/ MarkComplete(w, s) \/ LastWriteFault(w, s)
  PROVE  TypeOK'
<1> USE OffType, EntryType
<1>0. task[w][s] \in Task /\ pending[w][s] \in NoEntry..LastSeq
  BY TaskFields DEF TypeOK
<1>1. CASE TakePending(w, s)
  <2> DEFINE p == IF PendingAck(w, s) > 0 THEN "flush" ELSE "finish"
             n == PendingAck(w, s)
             t == [task[w][s] EXCEPT !.pc = p, !.val = n]
  <2>1. p \in TaskPC /\ n \in 0..LastSeq
    BY <1>0 DEF TaskPC, PendingAck
  <2>2. t \in Task
    BY <1>0, <2>1, TaskUpdate
  <2>3. task' \in [Workers -> [Shards -> Task]]
    BY <1>1, <2>2, TaskSet DEF TakePending
  <2>4. pending' \in [Workers -> [Shards -> NoEntry..LastSeq]]
    BY <1>1, PendingSet DEF TakePending
  <2> QED
    BY <1>1, <2>3, <2>4 DEF TypeOK, TakePending, log, table, budget
<1>2. CASE MarkComplete(w, s)
  <2>1. Completed(lease[s]) \in Row
    BY <1>0, RowUpdate DEF TypeOK
  <2>2. lease' \in [Shards -> Row]
    BY <1>2, <2>1, LeaseSet DEF MarkComplete, TypeOK
  <2> QED
    BY <1>2, <2>2, TaskSet DEF TypeOK, MarkComplete, log, budget
<1>3. CASE LastWriteFault(w, s)
  <2>1. faults' \in 0..MaxFaults
    BY <1>3, FleetAssumption DEF FleetAssumption, LastWriteFault, TypeOK
  <2> QED
    BY <1>3, <2>1, TaskSet DEF TypeOK, LastWriteFault, log, table
<1>4. QED
  BY <1>1, <1>2, <1>3

LEMMA ReleaseType ==
  ASSUME TypeOK, NEW w \in Workers, NEW s \in Shards,
         ReleaseNext(w, s) \/ ReleaseFlush(w, s) \/ ReleaseFlushFault(w, s) \/ Release(w, s)
  PROVE  TypeOK'
<1> USE OffType, EntryType
<1>0. /\ task[w][s] \in Task /\ pending[w][s] \in NoEntry..LastSeq
      /\ task[w][s].counter \in Nat /\ task[w][s].counter + 1 \in Nat
      /\ task[w][s].val \in 0..LastSeq /\ lease[s] \in Row
  BY TaskFields DEF TypeOK
<1>1. CASE ReleaseNext(w, s)
  <2> DEFINE p == IF PendingAck(w, s) > 0 THEN "rflush" ELSE "release"
             n == PendingAck(w, s)
             t == [task[w][s] EXCEPT !.pc = p, !.val = n]
  <2>1. p \in TaskPC /\ n \in 0..LastSeq
    BY <1>0 DEF TaskPC, PendingAck
  <2>2. t \in Task
    BY <1>0, <2>1, TaskUpdate
  <2>3. task' \in [Workers -> [Shards -> Task]]
    BY <1>1, <2>2, TaskSet DEF ReleaseNext
  <2>4. pending' \in [Workers -> [Shards -> NoEntry..LastSeq]]
    BY <1>1, PendingSet DEF ReleaseNext
  <2> QED
    BY <1>1, <2>3, <2>4 DEF TypeOK, ReleaseNext, log, table, budget
<1>2. CASE ReleaseFlush(w, s)
  <2> DEFINE ok == Holds(lease[s], w, task[w][s].counter)
             c == IF ok THEN task[w][s].counter + 1 ELSE task[w][s].counter
  <2>1. c \in Nat /\ "release" \in TaskPC
    BY <1>0 DEF TaskPC
  <2>2. ReleaseReady(task[w][s], ok) \in Task
    BY <1>0, <2>1, TaskUpdate DEF ReleaseReady
  <2>3. task' \in [Workers -> [Shards -> Task]]
    BY <1>2, <2>2, TaskSet DEF ReleaseFlush
  <2>4. lease' \in [Shards -> Row]
    BY <1>0, <1>2, RowUpdate, LeaseSet DEF ReleaseFlush, TypeOK
  <2> QED
    BY <1>2, <2>3, <2>4 DEF TypeOK, ReleaseFlush, log, budget
<1>3. CASE Release(w, s)
  <2>1. lease' \in [Shards -> Row]
    BY <1>0, <1>3, RowUpdate, LeaseSet DEF Release, TypeOK
  <2> QED
    BY <1>3, <2>1, TaskSet DEF TypeOK, Release, log, budget
<1>4. CASE ReleaseFlushFault(w, s)
  <2>1. ReleaseReady(task[w][s], FALSE) \in Task
    <3> DEFINE c == IF FALSE THEN task[w][s].counter + 1 ELSE task[w][s].counter
    <3>1. "release" \in TaskPC /\ c \in Nat
      BY <1>0 DEF TaskPC
    <3> HIDE DEF c
    <3>2. [task[w][s] EXCEPT !.pc = "release", !.val = 0, !.counter = c] \in Task
      BY <1>0, <3>1, TaskUpdate
    <3> QED
      BY <3>2 DEF ReleaseReady, c
  <2>2. task' \in [Workers -> [Shards -> Task]]
    BY <1>4, <2>1, TaskSet DEF ReleaseFlushFault
  <2>3. lease' \in [Shards -> Row]
    <3>1. Checkpointed(lease[s], task[w][s].val) \in Row
      BY <1>0, RowUpdate
    <3>2. lease' = lease \/ lease' = [lease EXCEPT ![s] = Checkpointed(lease[s], task[w][s].val)]
      BY <1>4 DEF ReleaseFlushFault, TypeOK
    <3> QED
      BY <3>1, <3>2, LeaseSet DEF TypeOK
  <2>4. faults' \in 0..MaxFaults
    BY <1>4, FleetAssumption DEF FleetAssumption, ReleaseFlushFault, TypeOK
  <2> QED
    BY <1>4, <2>2, <2>3, <2>4 DEF TypeOK, ReleaseFlushFault, log
<1>5. QED
  BY <1>1, <1>2, <1>3, <1>4

LEMMA LifeType ==
  ASSUME TypeOK, NEW w \in Workers,
         StopRequested(w) \/ ClientVanish(w) \/ Crash(w) \/ Restart(w)
  PROVE  TypeOK'
<1> USE OffType, EntryType
<1>1. CASE StopRequested(w)
  <2>1. PICK v \in Views :
          /\ want' = [want EXCEPT ![w] = Owned(w, v)]
          /\ task' = [task EXCEPT ![w] =
               [s \in Shards |-> IF s \in Owned(w, v) THEN [Off EXCEPT !.counter = v[s].counter]
                                 ELSE Off]]
    BY <1>1 DEF StopRequested
  <2>2. \A s \in Shards : v[s].counter \in Nat
    BY ViewType DEF Row
  <2>3. \A s \in Shards : [Off EXCEPT !.counter = v[s].counter] \in Task
    BY <2>2, FleetAssumption DEF FleetAssumption, Off, Task, TaskPC
  <2>4. task' \in [Workers -> [Shards -> Task]]
    BY <2>1, <2>3 DEF TypeOK
  <2>5. want' \in [Workers -> SUBSET Shards]
    BY <2>1 DEF TypeOK, Owned
  <2> QED
    BY <1>1, <2>4, <2>5 DEF TypeOK, StopRequested, log, table, budget
<1>2. CASE ClientVanish(w)
  BY <1>2 DEF TypeOK, ClientVanish, log, table, budget
<1>3. CASE Crash(w)
  BY <1>3 DEF TypeOK, Crash, log, table, budget
<1>4. CASE Restart(w)
  <2>1. restarts' \in 0..MaxRestarts
    BY <1>4, FleetAssumption DEF FleetAssumption, Restart, TypeOK
  <2> QED
    BY <1>4, <2>1 DEF TypeOK, Restart, log, table
<1>5. QED
  BY <1>1, <1>2, <1>3, <1>4

\* Every state of a fleet has the types of TypeOK, for any number of workers,
\* shards, faults, steals and restarts: in particular every checkpoint, pending ack
\* and resume point is a position of the log or TRIM_HORIZON.
THEOREM TypeCorrect == Spec => []TypeOK
<1>1. Init => TypeOK
  BY InitType
<1>2. TypeOK /\ [Next]_vars => TypeOK'
  <2> SUFFICES ASSUME TypeOK, [Next]_vars PROVE TypeOK'
    OBVIOUS
  <2>1. CASE UNCHANGED vars
    BY <2>1 DEF TypeOK, vars, log, table, budget
  <2>2. ASSUME NEW s \in Shards, StreamStep(s) PROVE TypeOK'
    BY <2>2, StreamType
  <2>3. ASSUME NEW w \in Workers, CycleStep(w) PROVE TypeOK'
    BY <2>3, CycleType
  <2>4. ASSUME NEW w \in Workers,
               StopRequested(w) \/ ClientVanish(w) \/ Crash(w) \/ Restart(w)
        PROVE  TypeOK'
    BY <2>4, LifeType
  <2>5. ASSUME NEW w \in Workers, NEW s \in Shards, TaskStep(w, s) PROVE TypeOK'
    BY <2>5, DeliverType, CheckpointType, EndType, ReleaseType DEF TaskStep
  <2>6. QED
    BY <2>1, <2>2, <2>3, <2>4, <2>5 DEF Next
<1>3. QED
  BY <1>1, <1>2, PTL DEF Spec

-----------------------------------------------------------------------------
(* At least once: no position anyone can resume from has a gap below it *)

\* Only records of the log are acknowledged.
AckedWritten == \A s \in Shards : acked[s] \subseteq 1..written[s]

\* Clients go away only in a sidecar, and then completion is not promised.
CompletedUnlessGone ==
  ClientMayVanish \/ (CompletedCovered /\ \A w \in Workers : ~gone[w])

\* The inductive invariant.  CheckpointCovered alone is not inductive: what is
\* written to the table was held by a task before, and what a task holds came
\* from the table, a replica or CkptDefer.
Inv ==
  /\ TypeOK /\ EveryPositionCovered /\ TasksInPhase
  /\ EndIsTheEnd /\ AckedWritten /\ CompletedUnlessGone

LEMMA UpToNone == \A A : UpTo(A, 0) /\ UpTo(A, NoEntry)
BY DEF UpTo, NoEntry

LEMMA UpToMore ==
  ASSUME NEW A, NEW B, A \subseteq B, NEW n, UpTo(A, n)
  PROVE  UpTo(B, n)
BY DEF UpTo

\* An acknowledged batch extends the covered prefix to its last record.
LEMMA UpToBatch ==
  ASSUME NEW A, NEW a \in Nat, NEW hi \in Nat, UpTo(A, a)
  PROVE  UpTo(A \cup (a + 1 .. hi), hi)
BY DEF UpTo

\* What one task's step has to establish: the rest of the state keeps Inv.
LEMMA TaskKeeps ==
  ASSUME Inv, TypeOK', NEW w \in Workers, NEW s \in Shards,
         pc[w] \in {"run", "release"},
         UNCHANGED <<pc, gone, written, closed, replica>>,
         \A s1 \in Shards : acked[s1] \subseteq acked'[s1] /\ acked'[s1] \subseteq 1..written[s1],
         \A s1 \in Shards : s1 # s => lease'[s1] = lease[s1],
         \A w1 \in Workers, s1 \in Shards : w1 # w \/ s1 # s =>
            task'[w1][s1] = task[w1][s1] /\ pending'[w1][s1] = pending[w1][s1],
         UpTo(acked'[s], lease'[s].checkpoint),
         UpTo(acked'[s], pending'[w][s]),
         UpTo(acked'[s], task'[w][s].val),
         ~gone[w] => UpTo(acked'[s], task'[w][s].after),
         task'[w][s].pc = "off" => task'[w][s].after = 0,
         task'[w][s].pc \in {"end", "flush", "finish"} => task'[w][s].end,
         task'[w][s].end => closed[s] /\ task'[w][s].after = written[s],
         ~ClientMayVanish => (lease'[s].completed => lease[s].completed
                                \/ (closed[s] /\ UpTo(acked'[s], written[s])))
  PROVE  Inv'
<1>1. EveryPositionCovered'
  <2>1. \A s1 \in Shards : /\ UpTo(acked'[s1], lease'[s1].checkpoint)
                           /\ UpTo(acked'[s1], replica'[s1].checkpoint)
    BY UpToMore DEF Inv, EveryPositionCovered
  <2>2. ASSUME NEW w1 \in Workers, NEW s1 \in Shards
        PROVE  /\ UpTo(acked'[s1], pending'[w1][s1]) /\ UpTo(acked'[s1], task'[w1][s1].val)
               /\ ~gone'[w1] => UpTo(acked'[s1], task'[w1][s1].after)
    <3>1. CASE w1 = w /\ s1 = s
      BY <3>1
    <3>2. CASE w1 # w \/ s1 # s
      BY <3>2, UpToMore DEF Inv, EveryPositionCovered
    <3> QED
      BY <3>1, <3>2
  <2> QED
    BY <2>1, <2>2 DEF EveryPositionCovered
<1>2. TasksInPhase'
  BY DEF Inv, TasksInPhase
<1>3. EndIsTheEnd'
  BY DEF Inv, EndIsTheEnd
<1>4. AckedWritten'
  BY DEF AckedWritten
<1>5. CompletedUnlessGone'
  <2> SUFFICES ASSUME ~ClientMayVanish PROVE CompletedCovered' /\ \A w1 \in Workers : ~gone'[w1]
    BY DEF CompletedUnlessGone
  <2>1. CompletedCovered /\ \A w1 \in Workers : ~gone[w1]
    BY DEF Inv, CompletedUnlessGone
  <2>2. ASSUME NEW s1 \in Shards, lease'[s1].completed
        PROVE  closed'[s1] /\ acked'[s1] = 1..written'[s1]
    <3>1. CASE lease[s1].completed
      BY <2>1, <3>1 DEF CompletedCovered
    <3>2. CASE ~lease[s1].completed
      <4>1. s1 = s
        BY <2>2, <3>2
      <4>2. closed[s] /\ UpTo(acked'[s], written[s])
        BY <2>2, <3>2, <4>1
      <4> QED
        BY <4>1, <4>2 DEF UpTo
    <3> QED
      BY <3>1, <3>2
  <2> QED
    BY <2>1, <2>2 DEF CompletedCovered
<1> QED
  BY <1>1, <1>2, <1>3, <1>4, <1>5 DEF Inv

\* What Inv says of one task, with the facts every step below needs.
LEMMA InvAt ==
  ASSUME Inv, NEW w \in Workers, NEW s \in Shards
  PROVE  /\ TypeOK
         /\ UpTo(acked[s], lease[s].checkpoint) /\ UpTo(acked[s], pending[w][s])
         /\ UpTo(acked[s], task[w][s].val)
         /\ ~gone[w] => UpTo(acked[s], task[w][s].after)
         /\ task[w][s].pc # "off" => pc[w] \in {"run", "release"}
         /\ task[w][s].pc = "off" => task[w][s].after = 0
         /\ task[w][s].pc \in {"end", "flush", "finish"} => task[w][s].end
         /\ task[w][s].end => closed[s] /\ task[w][s].after = written[s]
         /\ \A s1 \in Shards : acked[s1] \subseteq 1..written[s1]
         /\ ~ClientMayVanish => ~gone[w]
BY DEF Inv, EveryPositionCovered, TasksInPhase, EndIsTheEnd, AckedWritten, CompletedUnlessGone

\* The fields of a task that has stopped.
LEMMA OffFields == Off.pc = "off" /\ Off.after = 0 /\ Off.val = 0 /\ Off.end = FALSE
BY DEF Off

LEMMA HungFields == Hung.pc = "hung" /\ Hung.after = 0 /\ Hung.val = 0 /\ Hung.end = FALSE
BY DEF Hung

\* A pass that ended, or hangs.
LEMMA StopKeeps ==
  ASSUME Inv, TypeOK', NEW w \in Workers, NEW s \in Shards, task[w][s].pc # "off",
         UNCHANGED <<pc, gone, written, closed, replica, acked>>,
         \A s1 \in Shards : s1 # s => lease'[s1] = lease[s1],
         UpTo(acked[s], lease'[s].checkpoint),
         ~ClientMayVanish => (lease'[s].completed => lease[s].completed
                                \/ (closed[s] /\ UpTo(acked[s], written[s]))),
         task' = [task EXCEPT ![w][s] = Off] \/ task' = [task EXCEPT ![w][s] = Hung],
         pending' = pending \/ pending' = [pending EXCEPT ![w][s] = NoEntry]
  PROVE  Inv'
<1>1. TypeOK
  BY DEF Inv
<1>2. task'[w][s] \in {Off, Hung} /\ \A w1 \in Workers, s1 \in Shards :
               w1 # w \/ s1 # s => task'[w1][s1] = task[w1][s1]
  BY <1>1 DEF TypeOK
<1>3. /\ pending'[w][s] = pending[w][s] \/ pending'[w][s] = NoEntry
      /\ \A w1 \in Workers, s1 \in Shards :
               w1 # w \/ s1 # s => pending'[w1][s1] = pending[w1][s1]
  BY <1>1 DEF TypeOK
<1>4. /\ UpTo(acked'[s], pending'[w][s])
      /\ UpTo(acked'[s], task'[w][s].val) /\ UpTo(acked'[s], task'[w][s].after)
  BY <1>2, <1>3, OffFields, HungFields, UpToNone, InvAt
<1>5. \A s1 \in Shards : acked[s1] \subseteq acked'[s1] /\ acked'[s1] \subseteq 1..written[s1]
  BY InvAt
<1>6. pc[w] \in {"run", "release"}
  BY InvAt
<1> QED
  BY <1>2, <1>3, <1>4, <1>5, <1>6, OffFields, HungFields, TaskKeeps

LEMMA DeliverKeeps ==
  ASSUME Inv, NEW w \in Workers, NEW s \in Shards,
         \/ PassReturns(w, s) \/ EmptyEnd(w, s) \/ DeliverAcked(w, s)
         \/ DeliverUnacked(w, s) \/ DeliverHangs(w, s) \/ DeliverFails(w, s)
  PROVE  Inv'
<1>0. TypeOK /\ TypeOK'
  BY DeliverType DEF Inv
<1>a. task[w][s].pc = "deliver"
  BY DEF PassReturns, EmptyEnd, DeliverAcked, DeliverUnacked, DeliverHangs, DeliverFails
<1>b. /\ pc[w] \in {"run", "release"}
      /\ UNCHANGED <<pc, gone, written, closed, lease, replica>>
  BY <1>a, InvAt DEF PassReturns, EmptyEnd, DeliverAcked, DeliverUnacked, DeliverHangs, DeliverFails,
                     log, table
<1>c. /\ task[w][s] \in Task /\ task[w][s].after \in 0..LastSeq /\ written[s] \in 0..LastSeq
  BY <1>0, TaskFields DEF TypeOK
<1>d. \A s1 \in Shards : acked[s1] \subseteq 1..written[s1]
  BY InvAt
<1>1. CASE PassReturns(w, s)
  BY <1>0, <1>1, <1>a, <1>b, StopKeeps, InvAt DEF PassReturns
<1>2. CASE EmptyEnd(w, s)
  <2> DEFINE t == [task[w][s] EXCEPT !.pc = AfterBatch(TRUE), !.end = TRUE]
  <2>1. task' = [task EXCEPT ![w][s] = t]
    BY <1>0, <1>2 DEF EmptyEnd, TypeOK
  <2>2. t.val = task[w][s].val /\ t.after = task[w][s].after /\ t.end /\ t.pc = AfterBatch(TRUE)
    BY <1>c DEF Task
  <2>3. task'[w][s] = t /\ \A w1 \in Workers, s1 \in Shards :
               w1 # w \/ s1 # s => task'[w1][s1] = task[w1][s1]
    BY <1>0, <2>1 DEF TypeOK
  <2>4. closed[s] /\ task[w][s].after = written[s] /\ pending' = pending /\ acked' = acked
    BY <1>2 DEF EmptyEnd, Batch
  <2>5. AfterBatch(TRUE) # "off"
    BY DEF AfterBatch
  <2>6. /\ UpTo(acked'[s], lease'[s].checkpoint) /\ UpTo(acked'[s], pending'[w][s])
        /\ UpTo(acked'[s], task[w][s].val)
        /\ ~gone[w] => UpTo(acked'[s], task[w][s].after)
    BY <1>b, <2>4, InvAt
  <2> HIDE DEF t
  <2> QED
    BY <1>0, <1>b, <1>d, <2>2, <2>3, <2>4, <2>5, <2>6, TaskKeeps
<1>3. CASE DeliverAcked(w, s)
  <2>1. PICK hi \in task[w][s].after + 1 .. written[s], end \in BOOLEAN, due \in BOOLEAN :
          /\ Batch(s, task[w][s].after, hi, end)
          /\ acked' = [acked EXCEPT ![s] = @ \cup (task[w][s].after + 1 .. hi)]
          /\ task' = [task EXCEPT ![w][s] = [@ EXCEPT
                !.pc = IF due THEN "ckpt" ELSE AfterBatch(end),
                !.after = hi, !.val = IF due THEN hi ELSE 0, !.end = end]]
          /\ pending' = IF Defer THEN [pending EXCEPT ![w][s] = hi] ELSE pending
    BY <1>3 DEF DeliverAcked, Deliver, RecordAck
  <2> DEFINE t == [task[w][s] EXCEPT
                !.pc = IF due THEN "ckpt" ELSE AfterBatch(end),
                !.after = hi, !.val = IF due THEN hi ELSE 0, !.end = end]
  <2>2. /\ t.after = hi /\ t.val \in {0, hi} /\ t.end = end
        /\ t.pc = "ckpt" \/ t.pc = AfterBatch(end)
    BY <1>c DEF Task
  <2>3. task'[w][s] = t /\ \A w1 \in Workers, s1 \in Shards :
               w1 # w \/ s1 # s => task'[w1][s1] = task[w1][s1]
    BY <1>0, <2>1 DEF TypeOK
  <2>4. hi \in Nat /\ task[w][s].after \in Nat
    BY <1>c
  <2>5. /\ acked'[s] = acked[s] \cup (task[w][s].after + 1 .. hi)
        /\ \A s1 \in Shards : s1 # s => acked'[s1] = acked[s1]
    BY <1>0, <2>1 DEF TypeOK
  <2>a. UpTo(acked[s], task[w][s].after)
    BY <1>3, InvAt DEF DeliverAcked
  <2>6. UpTo(acked'[s], hi)
    BY <2>4, <2>5, <2>a, UpToBatch
  <2>7. task[w][s].after + 1 .. hi \subseteq 1..written[s]
    BY <1>c
  <2>8. \A s1 \in Shards : acked[s1] \subseteq acked'[s1] /\ acked'[s1] \subseteq 1..written[s1]
    BY <1>d, <2>5, <2>7
  <2>9. /\ pending'[w][s] = pending[w][s] \/ pending'[w][s] = hi
        /\ \A w1 \in Workers, s1 \in Shards :
               w1 # w \/ s1 # s => pending'[w1][s1] = pending[w1][s1]
    BY <1>0, <2>1 DEF TypeOK
  <2>10. UpTo(acked'[s], pending'[w][s]) /\ UpTo(acked'[s], lease'[s].checkpoint)
    BY <1>b, <2>6, <2>8, <2>9, UpToMore, InvAt
  <2>11. UpTo(acked'[s], t.val)
    BY <2>2, <2>6, UpToNone
  <2>12. /\ t.pc # "off" /\ (t.pc \in {"end", "flush", "finish"} => end)
         /\ end => closed[s] /\ hi = written[s]
    BY <2>1, <2>2 DEF AfterBatch, Batch
  <2> HIDE DEF t
  <2> QED
    BY <1>0, <1>b, <2>2, <2>3, <2>6, <2>8, <2>9, <2>10, <2>11, <2>12, TaskKeeps
<1>4. CASE DeliverUnacked(w, s)
  <2>1. PICK hi \in task[w][s].after + 1 .. written[s], end \in BOOLEAN :
          /\ Batch(s, task[w][s].after, hi, end)
          /\ task' = [task EXCEPT ![w][s] = [@ EXCEPT
                !.pc = AfterBatch(end), !.after = hi, !.end = end]]
    BY <1>4 DEF DeliverUnacked
  <2> DEFINE t == [task[w][s] EXCEPT !.pc = AfterBatch(end), !.after = hi, !.end = end]
  <2>2. t.after = hi /\ t.val = task[w][s].val /\ t.end = end /\ t.pc = AfterBatch(end)
    BY <1>c DEF Task
  <2>3. task'[w][s] = t /\ \A w1 \in Workers, s1 \in Shards :
               w1 # w \/ s1 # s => task'[w1][s1] = task[w1][s1]
    BY <1>0, <2>1 DEF TypeOK
  <2>4. gone[w] /\ pending' = pending /\ acked' = acked
    BY <1>4 DEF DeliverUnacked
  <2>5. /\ t.pc # "off" /\ (t.pc \in {"end", "flush", "finish"} => end)
        /\ end => closed[s] /\ hi = written[s]
    BY <2>1, <2>2 DEF AfterBatch, Batch
  <2> HIDE DEF t
  <2> QED
    BY <1>0, <1>b, <1>d, <2>2, <2>3, <2>4, <2>5, TaskKeeps, InvAt
<1>5. CASE DeliverFails(w, s)
  BY <1>0, <1>5, <1>a, <1>b, StopKeeps, InvAt DEF DeliverFails
<1>6. CASE DeliverHangs(w, s)
  BY <1>0, <1>6, <1>a, <1>b, StopKeeps, InvAt DEF DeliverHangs
<1>7. QED
  BY <1>1, <1>2, <1>3, <1>4, <1>5, <1>6

\* What a checkpoint of a covered value does to the table.
LEMMA CheckpointRow ==
  ASSUME TypeOK, NEW s \in Shards, NEW n \in 0..LastSeq,
         lease' = [lease EXCEPT ![s] = Checkpointed(@, n)]
  PROVE  /\ \A s1 \in Shards : s1 # s => lease'[s1] = lease[s1]
         /\ lease'[s].checkpoint = n /\ lease'[s].completed = lease[s].completed
BY DEF TypeOK, Row, Checkpointed

LEMMA CheckpointKeeps ==
  ASSUME Inv, NEW w \in Workers, NEW s \in Shards,
         CheckpointOk(w, s) \/ CheckpointLost(w, s) \/ CheckpointFault(w, s)
  PROVE  Inv'
<1>0. TypeOK /\ TypeOK'
  BY CheckpointType DEF Inv
<1>a. task[w][s].pc \in {"ckpt", "flush"}
  BY DEF CheckpointOk, CheckpointLost, CheckpointFault
<1>b. /\ pc[w] \in {"run", "release"}
      /\ UNCHANGED <<pc, gone, written, closed, replica, acked>>
  BY <1>a, InvAt DEF CheckpointOk, CheckpointLost, CheckpointFault, LeaseLost, log
<1>c. task[w][s] \in Task /\ task[w][s].val \in 0..LastSeq /\ task[w][s].end \in BOOLEAN
  BY <1>0, TaskFields
<1>d. /\ UpTo(acked[s], lease[s].checkpoint) /\ UpTo(acked[s], pending[w][s])
      /\ UpTo(acked[s], task[w][s].val)
      /\ ~gone[w] => UpTo(acked[s], task[w][s].after)
      /\ task[w][s].pc = "flush" => task[w][s].end
      /\ task[w][s].end => closed[s] /\ task[w][s].after = written[s]
      /\ \A s1 \in Shards : acked[s1] \subseteq 1..written[s1]
  BY InvAt
<1>1. CASE CheckpointOk(w, s)
  <2> DEFINE t == Persisted(task[w][s])
  <2>1. /\ task' = [task EXCEPT ![w][s] = t]
        /\ lease' = [lease EXCEPT ![s] = Checkpointed(@, task[w][s].val)]
    BY <1>1 DEF CheckpointOk
  <2>2. /\ t.val = 0 /\ t.after = task[w][s].after /\ t.end = task[w][s].end
        /\ t.pc = IF task[w][s].pc = "flush" THEN "finish" ELSE AfterBatch(task[w][s].end)
    BY <1>c DEF Task, Persisted
  <2>3. t.pc # "off" /\ (t.pc \in {"end", "flush", "finish"} => t.end)
    BY <1>c, <1>d, <2>2 DEF AfterBatch
  <2> HIDE DEF t
  <2>4. task'[w][s] = t /\ \A w1 \in Workers, s1 \in Shards :
               w1 # w \/ s1 # s => task'[w1][s1] = task[w1][s1]
    BY <1>0, <2>1 DEF TypeOK
  <2>5. /\ pending'[w][s] \in {pending[w][s], NoEntry, 0}
        /\ \A w1 \in Workers, s1 \in Shards :
               w1 # w \/ s1 # s => pending'[w1][s1] = pending[w1][s1]
    BY <1>0, <1>1 DEF CheckpointOk, TypeOK
  <2>6. /\ \A s1 \in Shards : s1 # s => lease'[s1] = lease[s1]
        /\ lease'[s].checkpoint = task[w][s].val /\ lease'[s].completed = lease[s].completed
    BY <1>0, <1>c, <2>1, CheckpointRow
  <2>7. /\ UpTo(acked'[s], lease'[s].checkpoint) /\ UpTo(acked'[s], pending'[w][s])
        /\ UpTo(acked'[s], t.val)
    BY <1>b, <1>d, <2>2, <2>5, <2>6, UpToNone
  <2> QED
    BY <1>0, <1>b, <1>d, <2>2, <2>3, <2>4, <2>5, <2>6, <2>7, TaskKeeps
<1>2. CASE CheckpointLost(w, s)
  BY <1>0, <1>2, <1>a, <1>b, <1>d, StopKeeps DEF CheckpointLost, LeaseLost
<1>3. CASE CheckpointFault(w, s)
  <2>1. lease' = lease \/ lease' = [lease EXCEPT ![s] = Checkpointed(@, task[w][s].val)]
    BY <1>3 DEF CheckpointFault
  <2>2. /\ \A s1 \in Shards : s1 # s => lease'[s1] = lease[s1]
        /\ UpTo(acked[s], lease'[s].checkpoint) /\ lease'[s].completed = lease[s].completed
    <3>1. CASE lease' = lease
      BY <1>d, <3>1
    <3>2. CASE lease' = [lease EXCEPT ![s] = Checkpointed(@, task[w][s].val)]
      BY <1>0, <1>c, <1>d, <3>2, CheckpointRow
    <3> QED
      BY <2>1, <3>1, <3>2
  <2> QED
    BY <1>0, <1>3, <1>a, <1>b, <2>2, StopKeeps DEF CheckpointFault, LeaseLost
<1>4. QED
  BY <1>1, <1>2, <1>3

LEMMA EndKeeps ==
  ASSUME Inv, NEW w \in Workers, NEW s \in Shards,
         TakePending(w, s) \/ MarkComplete(w, s)
  PROVE  Inv'
<1>0. TypeOK /\ TypeOK'
  BY EndType DEF Inv
<1>a. task[w][s].pc \in {"end", "finish"}
  BY DEF TakePending, MarkComplete
<1>b. /\ pc[w] \in {"run", "release"}
      /\ UNCHANGED <<pc, gone, written, closed, replica, acked>>
  BY <1>a, InvAt DEF TakePending, MarkComplete, log, table
<1>c. task[w][s] \in Task
  BY <1>0, TaskFields
<1>d. /\ UpTo(acked[s], lease[s].checkpoint) /\ UpTo(acked[s], pending[w][s])
      /\ ~gone[w] => UpTo(acked[s], task[w][s].after)
      /\ task[w][s].end /\ closed[s] /\ task[w][s].after = written[s]
      /\ \A s1 \in Shards : acked[s1] \subseteq 1..written[s1]
      /\ ~ClientMayVanish => ~gone[w]
  BY <1>a, InvAt
<1>1. CASE TakePending(w, s)
  <2> DEFINE p == IF PendingAck(w, s) > 0 THEN "flush" ELSE "finish"
             n == PendingAck(w, s)
             t == [task[w][s] EXCEPT !.pc = p, !.val = n]
  <2>1. /\ task' = [task EXCEPT ![w][s] = t] /\ lease' = lease
        /\ pending' = [pending EXCEPT ![w][s] = IF @ > 0 THEN 0 ELSE NoEntry]
    BY <1>1 DEF TakePending, table
  <2>2. /\ t.val = n /\ t.after = task[w][s].after /\ t.end = task[w][s].end
        /\ t.pc # "off"
    BY <1>c DEF Task
  <2>3. UpTo(acked[s], n)
    BY <1>d, UpToNone DEF PendingAck
  <2> HIDE DEF t, n, p
  <2>4. task'[w][s] = t /\ \A w1 \in Workers, s1 \in Shards :
               w1 # w \/ s1 # s => task'[w1][s1] = task[w1][s1]
    BY <1>0, <2>1 DEF TypeOK
  <2>5. /\ pending'[w][s] \in {NoEntry, 0}
        /\ \A w1 \in Workers, s1 \in Shards :
               w1 # w \/ s1 # s => pending'[w1][s1] = pending[w1][s1]
    BY <1>0, <2>1 DEF TypeOK
  <2>6. UpTo(acked'[s], pending'[w][s])
    BY <2>5, UpToNone
  <2>7. /\ UpTo(acked'[s], task'[w][s].val) /\ UpTo(acked'[s], lease'[s].checkpoint)
        /\ ~gone[w] => UpTo(acked'[s], task'[w][s].after)
        /\ \A s1 \in Shards : acked[s1] \subseteq acked'[s1] /\ acked'[s1] \subseteq 1..written[s1]
    BY <1>b, <1>d, <2>1, <2>2, <2>3, <2>4
  <2>8. task'[w][s].pc # "off" /\ task'[w][s].end /\ task'[w][s].after = written[s]
    BY <1>d, <2>2, <2>4
  <2> QED
    BY <1>0, <1>b, <1>d, <2>1, <2>4, <2>5, <2>6, <2>7, <2>8, TaskKeeps
<1>2. CASE MarkComplete(w, s)
  <2>1. /\ \A s1 \in Shards : s1 # s => lease'[s1] = lease[s1]
        /\ lease'[s].checkpoint = lease[s].checkpoint
    BY <1>0, <1>2 DEF MarkComplete, Completed, TypeOK, Row
  <2>2. task' = [task EXCEPT ![w][s] = Off] /\ pending' = pending
    BY <1>2 DEF MarkComplete
  <2> QED
    BY <1>0, <1>a, <1>b, <1>d, <2>1, <2>2, StopKeeps
<1>3. QED
  BY <1>1, <1>2

LEMMA ReleaseKeeps ==
  ASSUME Inv, NEW w \in Workers, NEW s \in Shards,
         \/ ReleaseNext(w, s) \/ ReleaseFlush(w, s) \/ ReleaseFlushFault(w, s) \/ Release(w, s)
         \/ LastWriteFault(w, s)
  PROVE  Inv'
<1>0. TypeOK /\ TypeOK'
  BY ReleaseType, EndType DEF Inv
<1>b. /\ pc[w] \in {"run", "release"}
      /\ UNCHANGED <<pc, gone, written, closed, replica, acked>>
  BY InvAt DEF ReleaseNext, ReleaseFlush, ReleaseFlushFault, Release, LastWriteFault, log, table
<1>c. task[w][s] \in Task /\ task[w][s].val \in 0..LastSeq
  BY <1>0, TaskFields
<1>d. /\ UpTo(acked[s], lease[s].checkpoint) /\ UpTo(acked[s], pending[w][s])
      /\ UpTo(acked[s], task[w][s].val)
      /\ ~gone[w] => UpTo(acked[s], task[w][s].after)
      /\ task[w][s].end => closed[s] /\ task[w][s].after = written[s]
      /\ \A s1 \in Shards : acked[s1] \subseteq 1..written[s1]
  BY InvAt
<1>1. CASE ReleaseNext(w, s)
  <2> DEFINE p == IF PendingAck(w, s) > 0 THEN "rflush" ELSE "release"
             n == PendingAck(w, s)
             t == [task[w][s] EXCEPT !.pc = p, !.val = n]
  <2>1. /\ task' = [task EXCEPT ![w][s] = t] /\ lease' = lease
        /\ pending' = [pending EXCEPT ![w][s] = NoEntry]
    BY <1>1 DEF ReleaseNext, table
  <2>2. /\ t.val = n /\ t.after = task[w][s].after /\ t.end = task[w][s].end
        /\ t.pc \in {"rflush", "release"}
    BY <1>c DEF Task
  <2>3. UpTo(acked[s], n)
    BY <1>d, UpToNone DEF PendingAck
  <2> HIDE DEF t, n, p
  <2>4. task'[w][s] = t /\ \A w1 \in Workers, s1 \in Shards :
               w1 # w \/ s1 # s => task'[w1][s1] = task[w1][s1]
    BY <1>0, <2>1 DEF TypeOK
  <2>5. /\ pending'[w][s] = NoEntry
        /\ \A w1 \in Workers, s1 \in Shards :
               w1 # w \/ s1 # s => pending'[w1][s1] = pending[w1][s1]
    BY <1>0, <2>1 DEF TypeOK
  <2>6. UpTo(acked'[s], pending'[w][s])
    BY <2>5, UpToNone
  <2>7. /\ UpTo(acked'[s], task'[w][s].val) /\ UpTo(acked'[s], lease'[s].checkpoint)
        /\ ~gone[w] => UpTo(acked'[s], task'[w][s].after)
        /\ \A s1 \in Shards : acked[s1] \subseteq acked'[s1] /\ acked'[s1] \subseteq 1..written[s1]
    BY <1>b, <1>d, <2>1, <2>2, <2>3, <2>4
  <2>8. /\ task'[w][s].pc \in {"rflush", "release"}
        /\ task'[w][s].end => closed[s] /\ task'[w][s].after = written[s]
    BY <1>d, <2>2, <2>4
  <2> QED
    BY <1>0, <1>b, <2>1, <2>4, <2>5, <2>6, <2>7, <2>8, TaskKeeps
<1>2. CASE ReleaseFlush(w, s) \/ ReleaseFlushFault(w, s)
  <2>0. \E ok \in BOOLEAN : task' = [task EXCEPT ![w][s] = ReleaseReady(task[w][s], ok)]
    BY <1>2 DEF ReleaseFlush, ReleaseFlushFault, Holds
  <2> PICK ok \in BOOLEAN : task' = [task EXCEPT ![w][s] = ReleaseReady(task[w][s], ok)]
    BY <2>0
  <2> DEFINE t == ReleaseReady(task[w][s], ok)
  <2>1. /\ task' = [task EXCEPT ![w][s] = t] /\ pending' = pending
        /\ lease' = lease \/ lease' = [lease EXCEPT ![s] = Checkpointed(@, task[w][s].val)]
    BY <1>2 DEF ReleaseFlush, ReleaseFlushFault
  <2>2. t.val = 0 /\ t.after = task[w][s].after /\ t.end = task[w][s].end /\ t.pc = "release"
    BY <1>c DEF Task, ReleaseReady
  <2> HIDE DEF t
  <2>3. task'[w][s] = t /\ \A w1 \in Workers, s1 \in Shards :
               w1 # w \/ s1 # s => task'[w1][s1] = task[w1][s1]
    BY <1>0, <2>1 DEF TypeOK
  <2>4. /\ \A s1 \in Shards : s1 # s => lease'[s1] = lease[s1]
        /\ UpTo(acked[s], lease'[s].checkpoint) /\ lease'[s].completed = lease[s].completed
    <3>1. CASE lease' = lease
      BY <1>d, <3>1
    <3>2. CASE lease' = [lease EXCEPT ![s] = Checkpointed(@, task[w][s].val)]
      BY <1>0, <1>c, <1>d, <3>2, CheckpointRow
    <3> QED
      BY <2>1, <3>1, <3>2
  <2>5. /\ UpTo(acked'[s], task'[w][s].val) /\ UpTo(acked'[s], pending'[w][s])
        /\ ~gone[w] => UpTo(acked'[s], task'[w][s].after)
        /\ \A s1 \in Shards : acked[s1] \subseteq acked'[s1] /\ acked'[s1] \subseteq 1..written[s1]
    BY <1>b, <1>d, <2>1, <2>2, <2>3, UpToNone
  <2>6. /\ task'[w][s].pc = "release"
        /\ task'[w][s].end => closed[s] /\ task'[w][s].after = written[s]
    BY <1>d, <2>2, <2>3
  <2> QED
    BY <1>0, <1>b, <2>1, <2>3, <2>4, <2>5, <2>6, TaskKeeps
<1>3. CASE Release(w, s)
  <2>1. /\ \A s1 \in Shards : s1 # s => lease'[s1] = lease[s1]
        /\ lease'[s].checkpoint = lease[s].checkpoint /\ lease'[s].completed = lease[s].completed
    BY <1>0, <1>3 DEF Release, Released, TypeOK, Row
  <2>2. task' = [task EXCEPT ![w][s] = Off] /\ pending' = pending /\ task[w][s].pc # "off"
    BY <1>3 DEF Release
  <2> QED
    BY <1>0, <1>b, <1>d, <2>1, <2>2, StopKeeps
<1>4. CASE LastWriteFault(w, s)
  BY <1>0, <1>4, <1>b, <1>d, StopKeeps DEF LastWriteFault, table
<1>5. QED
  BY <1>1, <1>2, <1>3, <1>4

\* What Inv says of the table a cycle reads: every row of a scan is covered.
LEMMA ViewCovered ==
  ASSUME Inv, NEW v \in Views, NEW s \in Shards
  PROVE  UpTo(acked[s], v[s].checkpoint)
BY DEF Inv, EveryPositionCovered, Views, Scan

\* A cycle's step on the table and on its own tasks keeps Inv when the rows keep
\* their checkpoints and the worker's tasks and acks stay covered.
LEMMA CycleFrame ==
  ASSUME Inv, TypeOK', NEW w \in Workers,
         UNCHANGED <<gone, written, closed, replica, acked>>,
         \A s \in Shards : /\ lease'[s].checkpoint = lease[s].checkpoint
                           /\ lease'[s].completed = lease[s].completed,
         \A w1 \in Workers : w1 # w =>
            pc'[w1] = pc[w1] /\ task'[w1] = task[w1] /\ pending'[w1] = pending[w1],
         \A s \in Shards :
            /\ UpTo(acked[s], pending'[w][s]) /\ UpTo(acked[s], task'[w][s].val)
            /\ ~gone[w] => UpTo(acked[s], task'[w][s].after)
            /\ pc'[w] \notin {"run", "release"} => task'[w][s].pc = "off"
            /\ task'[w][s].pc = "off" => task'[w][s].after = 0
            /\ task'[w][s].pc \in {"end", "flush", "finish"} => task'[w][s].end
            /\ task'[w][s].end => closed[s] /\ task'[w][s].after = written[s]
  PROVE  Inv'
<1>1. EveryPositionCovered'
  BY DEF Inv, EveryPositionCovered
<1>2. TasksInPhase'
  BY DEF Inv, TasksInPhase
<1>3. EndIsTheEnd'
  BY DEF Inv, EndIsTheEnd
<1>4. AckedWritten'
  BY DEF Inv, AckedWritten
<1>5. CompletedUnlessGone'
  BY DEF Inv, CompletedUnlessGone, CompletedCovered
<1> QED
  BY <1>1, <1>2, <1>3, <1>4, <1>5 DEF Inv

LEMMA CycleKeeps ==
  ASSUME Inv, NEW w \in Workers, CycleStep(w) \/ StopRequested(w)
  PROVE  Inv'
<1>0. TypeOK /\ TypeOK'
  BY CycleType, LifeType DEF Inv
<1>a. \A s \in Shards :
         /\ UpTo(acked[s], pending[w][s]) /\ UpTo(acked[s], task[w][s].val)
         /\ ~gone[w] => UpTo(acked[s], task[w][s].after)
         /\ pc[w] \notin {"run", "release"} => task[w][s].pc = "off"
         /\ task[w][s].pc = "off" => task[w][s].after = 0
         /\ task[w][s].pc \in {"end", "flush", "finish"} => task[w][s].end
         /\ task[w][s].end => closed[s] /\ task[w][s].after = written[s]
  BY InvAt
<1>1. CASE Decide(w)
  <2>1. pc[w] = "idle" /\ pc'[w] = "take" /\ \A w1 \in Workers : w1 # w => pc'[w1] = pc[w1]
    BY <1>0, <1>1 DEF Decide, TypeOK
  <2> QED
    BY <1>0, <1>1, <1>a, <2>1, CycleFrame DEF Decide, log, table
<1>2. CASE \E s \in Shards : AcquireGet(w, s)
  BY <1>0, <1>2, <1>a, CycleFrame DEF AcquireGet, log, table
<1>3. CASE Claim(w)
  <2>1. \A s \in Shards : /\ lease'[s].checkpoint = lease[s].checkpoint
                          /\ lease'[s].completed = lease[s].completed
    BY <1>0, <1>3 DEF Claim, Claimed, TypeOK, Row
  <2> QED
    BY <1>0, <1>3, <1>a, <2>1, CycleFrame DEF Claim, log
<1>4. CASE EndCycle(w)
  <2>1. pc'[w] = "idle" /\ \A w1 \in Workers : w1 # w => pc'[w1] = pc[w1]
    BY <1>0, <1>4 DEF EndCycle, TypeOK
  <2> QED
    BY <1>0, <1>4, <1>a, <2>1, CycleFrame DEF EndCycle, log, table
<1>5. CASE ReleaseDone(w)
  <2>1. /\ pc'[w] = "down" /\ \A w1 \in Workers : w1 # w => pc'[w1] = pc[w1]
        /\ \A s \in Shards : pending'[w][s] = NoEntry
        /\ \A w1 \in Workers : w1 # w => pending'[w1] = pending[w1]
    BY <1>0, <1>5 DEF ReleaseDone, TypeOK
  <2> QED
    BY <1>0, <1>5, <1>a, <2>1, UpToNone, CycleFrame DEF ReleaseDone, log, table
<1>6. CASE ReadOwned(w)
  <2>1. PICK v \in Views :
          /\ pending' = [pending EXCEPT ![w] =
               [s \in Shards |-> IF s \in Owned(w, v) THEN @[s] ELSE NoEntry]]
          /\ \/ pc' = [pc EXCEPT ![w] = "down"] /\ UNCHANGED task
             \/ /\ pc' = [pc EXCEPT ![w] = "run"]
                /\ task' = [task EXCEPT ![w] =
                     [s \in Shards |-> IF s \in Owned(w, v) THEN StartTask(w, s, v[s]) ELSE Off]]
    BY <1>6 DEF ReadOwned
  <2>2. /\ \A w1 \in Workers : w1 # w => pending'[w1] = pending[w1]
        /\ \A s \in Shards : pending'[w][s] \in {pending[w][s], NoEntry}
    BY <1>0, <2>1 DEF TypeOK
  <2>3. \A s \in Shards : UpTo(acked[s], pending'[w][s])
    BY <1>a, <2>2, UpToNone
  <2>4. ASSUME NEW s \in Shards
        PROVE  /\ StartTask(w, s, v[s]).pc = "deliver" /\ StartTask(w, s, v[s]).val = 0
               /\ ~StartTask(w, s, v[s]).end
               /\ UpTo(acked[s], StartTask(w, s, v[s]).after)
    <3>1. StartTask(w, s, v[s]).after \in {pending[w][s], v[s].checkpoint}
      BY DEF StartTask, ResumeFrom, PendingAck, Off
    <3>2. UpTo(acked[s], StartTask(w, s, v[s]).after)
      BY <1>a, <3>1, ViewCovered
    <3> QED
      BY <3>2 DEF StartTask, Off
  <2>5. \A w1 \in Workers : w1 # w => pc'[w1] = pc[w1] /\ task'[w1] = task[w1]
    BY <1>0, <2>1 DEF TypeOK
  <2>6. CASE task' = task /\ pc'[w] = "down"
    <3>1. pc[w] = "take"
      BY <1>6 DEF ReadOwned
    <3> QED
      BY <1>0, <1>6, <1>a, <2>2, <2>3, <2>5, <2>6, <3>1, CycleFrame DEF ReadOwned, log, table
  <2>7. CASE /\ pc'[w] = "run"
             /\ \A s \in Shards : task'[w][s] \in {StartTask(w, s, v[s]), Off}
    <3>1. ASSUME NEW s \in Shards
          PROVE  /\ UpTo(acked[s], task'[w][s].val) /\ UpTo(acked[s], task'[w][s].after)
                 /\ task'[w][s].pc \in {"deliver", "off"} /\ ~task'[w][s].end
                 /\ task'[w][s].pc = "off" => task'[w][s].after = 0
      BY <2>4, <2>7, OffFields, UpToNone
    <3> QED
      BY <1>0, <1>6, <2>2, <2>3, <2>5, <2>7, <3>1, CycleFrame DEF ReadOwned, log, table
  <2> QED
    BY <1>0, <2>1, <2>6, <2>7 DEF TypeOK
<1>7. CASE StopRequested(w)
  <2>1. PICK v \in Views :
          task' = [task EXCEPT ![w] =
            [s \in Shards |-> IF s \in Owned(w, v) THEN [Off EXCEPT !.counter = v[s].counter]
                              ELSE Off]]
    BY <1>7 DEF StopRequested
  <2>2. /\ pc'[w] = "release" /\ \A w1 \in Workers : w1 # w => pc'[w1] = pc[w1]
        /\ \A w1 \in Workers : w1 # w => task'[w1] = task[w1]
    BY <1>0, <1>7, <2>1 DEF TypeOK, StopRequested
  <2>3. ASSUME NEW s \in Shards
        PROVE  /\ task'[w][s].pc = "off" /\ task'[w][s].val = 0
               /\ task'[w][s].after = 0 /\ ~task'[w][s].end
    BY <1>0, <2>1 DEF TypeOK, Off
  <2> QED
    BY <1>0, <1>7, <1>a, <2>2, <2>3, UpToNone, CycleFrame DEF StopRequested, log, table
<1>8. QED
  BY <1>1, <1>2, <1>3, <1>4, <1>5, <1>6, <1>7 DEF CycleStep

LEMMA LifeKeeps ==
  ASSUME Inv, NEW w \in Workers, ClientVanish(w) \/ Crash(w) \/ Restart(w)
  PROVE  Inv'
<1>0. TypeOK /\ TypeOK'
  BY LifeType DEF Inv
<1>1. CASE ClientVanish(w)
  <2>1. \A w1 \in Workers : ~gone'[w1] => ~gone[w1]
    BY <1>0, <1>1 DEF ClientVanish, TypeOK
  <2> QED
    BY <1>0, <1>1, <2>1 DEF ClientVanish, Inv, EveryPositionCovered, TasksInPhase, EndIsTheEnd,
                            AckedWritten, CompletedUnlessGone, log, table
<1>2. CASE Crash(w)
  <2>1. /\ pc'[w] = "down" /\ \A w1 \in Workers : w1 # w => pc'[w1] = pc[w1]
        /\ \A s \in Shards : task'[w][s] = Off /\ pending'[w][s] = NoEntry
        /\ \A w1 \in Workers : w1 # w => task'[w1] = task[w1] /\ pending'[w1] = pending[w1]
    BY <1>0, <1>2 DEF Crash, TypeOK
  <2> QED
    BY <1>0, <1>2, <2>1, OffFields, UpToNone, CycleFrame DEF Crash, log, table
<1>3. CASE Restart(w)
  <2>1. \A s \in Shards : task[w][s].after = 0
    BY <1>3 DEF Restart, Inv, TasksInPhase
  <2>2. /\ \A w1 \in Workers : w1 # w => gone'[w1] = gone[w1] /\ pc'[w1] = pc[w1]
        /\ pc'[w] = "idle" /\ pc[w] = "down" /\ ~gone'[w]
        /\ UNCHANGED <<written, closed, lease, replica, acked, task, pending>>
    BY <1>0, <1>3 DEF Restart, TypeOK, log, table
  <2>3. EveryPositionCovered'
    BY <2>1, <2>2, UpToNone DEF Inv, EveryPositionCovered
  <2>4. TasksInPhase'
    BY <2>2 DEF Inv, TasksInPhase
  <2>5. EndIsTheEnd' /\ AckedWritten' /\ CompletedUnlessGone'
    BY <2>2 DEF Inv, EndIsTheEnd, AckedWritten, CompletedUnlessGone, CompletedCovered
  <2> QED
    BY <1>0, <2>3, <2>4, <2>5 DEF Inv
<1>4. QED
  BY <1>1, <1>2, <1>3

LEMMA StreamKeeps ==
  ASSUME Inv, NEW s \in Shards, StreamStep(s)
  PROVE  Inv'
<1>0. TypeOK /\ TypeOK'
  BY StreamType DEF Inv
<1>1. CASE Produce(s)
  <2>1. /\ UNCHANGED <<closed, lease, replica, acked, pc, task, pending, gone>>
        /\ ~closed[s] /\ written'[s] = written[s] + 1
        /\ \A s1 \in Shards : s1 # s => written'[s1] = written[s1]
    BY <1>0, <1>1 DEF Produce, TypeOK, table
  <2>2. \A s1 \in Shards : 1..written[s1] \subseteq 1..written'[s1]
    <3>1. \A s1 \in Shards : written[s1] \in Int /\ written'[s1] \in Int
      BY <1>0 DEF TypeOK
    <3>2. \A s1 \in Shards : written[s1] <= written'[s1]
      BY <2>1, <3>1
    <3> QED
      BY <3>1, <3>2
  <2>3. EveryPositionCovered' /\ TasksInPhase'
    BY <2>1 DEF Inv, EveryPositionCovered, TasksInPhase
  <2>4. EndIsTheEnd'
    BY <2>1 DEF Inv, EndIsTheEnd
  <2>5. AckedWritten'
    BY <2>1, <2>2 DEF Inv, AckedWritten
  <2>6. CompletedUnlessGone'
    BY <2>1 DEF Inv, CompletedUnlessGone, CompletedCovered
  <2> QED
    BY <1>0, <2>3, <2>4, <2>5, <2>6 DEF Inv
<1>2. CASE CloseShard(s)
  <2>1. /\ UNCHANGED <<written, lease, replica, acked, pc, task, pending, gone>>
        /\ \A s1 \in Shards : closed[s1] => closed'[s1]
    BY <1>0, <1>2 DEF CloseShard, TypeOK, table
  <2> QED
    BY <1>0, <2>1 DEF Inv, EveryPositionCovered, TasksInPhase, EndIsTheEnd, AckedWritten,
                      CompletedUnlessGone, CompletedCovered
<1>3. CASE Replicate(s)
  <2>1. /\ UNCHANGED <<written, closed, lease, acked, pc, task, pending, gone>>
        /\ \A s1 \in Shards : replica'[s1] \in {replica[s1], lease[s1]}
    BY <1>0, <1>3 DEF Replicate, TypeOK, log
  <2>2. EveryPositionCovered'
    BY <2>1 DEF Inv, EveryPositionCovered
  <2> QED
    BY <1>0, <2>1, <2>2 DEF Inv, TasksInPhase, EndIsTheEnd, AckedWritten,
                            CompletedUnlessGone, CompletedCovered
<1>4. QED
  BY <1>1, <1>2, <1>3 DEF StreamStep

LEMMA InitInv == Init => Inv
<1> SUFFICES ASSUME Init PROVE Inv
  OBVIOUS
<1>1. TypeOK
  BY InitType
<1>2. \A s \in Shards : lease[s].checkpoint = 0 /\ replica[s].checkpoint = 0 /\ ~lease[s].completed
  BY DEF Init, Published, TrimHorizon
<1>3. \A w \in Workers, s \in Shards : task[w][s] = Off /\ pending[w][s] = NoEntry
  BY DEF Init
<1>4. EveryPositionCovered
  BY <1>2, <1>3, UpToNone, OffFields DEF EveryPositionCovered
<1>5. TasksInPhase /\ EndIsTheEnd
  BY <1>3, OffFields DEF TasksInPhase, EndIsTheEnd
<1>6. AckedWritten /\ CompletedUnlessGone
  BY <1>2 DEF Init, AckedWritten, CompletedUnlessGone, CompletedCovered
<1> QED
  BY <1>1, <1>4, <1>5, <1>6 DEF Inv

LEMMA StepInv ==
  ASSUME Inv, [Next]_vars
  PROVE  Inv'
<1>1. CASE UNCHANGED vars
  <2>0. TypeOK'
    BY <1>1 DEF Inv, TypeOK, vars, log, table, budget
  <2>1. TasksInPhase' /\ EndIsTheEnd'
    BY <1>1 DEF Inv, TasksInPhase, EndIsTheEnd, vars, log
  <2>2. EveryPositionCovered'
    BY <1>1 DEF Inv, EveryPositionCovered, vars, log, table
  <2>3. AckedWritten' /\ CompletedUnlessGone'
    BY <1>1 DEF Inv, AckedWritten, CompletedUnlessGone, CompletedCovered, vars, log, table
  <2> QED
    BY <2>0, <2>1, <2>2, <2>3 DEF Inv
<1>2. ASSUME NEW s \in Shards, StreamStep(s) PROVE Inv'
  BY <1>2, StreamKeeps
<1>3. ASSUME NEW w \in Workers, CycleStep(w) \/ StopRequested(w) PROVE Inv'
  BY <1>3, CycleKeeps
<1>4. ASSUME NEW w \in Workers, ClientVanish(w) \/ Crash(w) \/ Restart(w) PROVE Inv'
  BY <1>4, LifeKeeps
<1>5. ASSUME NEW w \in Workers, NEW s \in Shards, TaskStep(w, s) PROVE Inv'
  BY <1>5, DeliverKeeps, CheckpointKeeps, EndKeeps, ReleaseKeeps DEF TaskStep
<1>6. QED
  BY <1>1, <1>2, <1>3, <1>4, <1>5 DEF Next

\* Inv holds in every state.
THEOREM Covered == Spec => []Inv
<1>1. Init => Inv
  BY InitInv
<1>2. Inv /\ [Next]_vars => Inv'
  BY StepInv
<1>3. QED
  BY <1>1, <1>2, PTL DEF Spec

\* At least once: whatever steals, stale scans, lost replies, departed clients and
\* crashes came before, the checkpoint a new owner resumes from has no
\* unacknowledged record below it.
THEOREM AtLeastOnce == Spec => []CheckpointCovered
<1>1. Inv => CheckpointCovered
  BY DEF Inv, EveryPositionCovered, CheckpointCovered
<1>2. QED
  BY <1>1, Covered, PTL

\* The same for every position the system holds: replicas, CkptDefer's pending
\* acks, checkpoints about to be written and the resume points of running passes.
THEOREM NoGapAnywhere == Spec => []EveryPositionCovered
<1>1. Inv => EveryPositionCovered
  BY DEF Inv
<1>2. QED
  BY <1>1, Covered, PTL

\* With consumers that cannot go away, mark_complete is reached only after every
\* record of a closed shard was acknowledged.
THEOREM CompleteMeansAll ==
  ASSUME ~ClientMayVanish
  PROVE  Spec => []CompletedCovered
<1>1. Inv => CompletedCovered
  BY DEF Inv, CompletedUnlessGone
<1>2. QED
  BY <1>1, Covered, PTL
-----------------------------------------------------------------------------
(* The order of the steps: the inductive invariant *)

\* Worker w's writes to row s, conditioned on the counter its task has, succeed.
InLock(w, s) == Holds(lease[s], w, task[w][s].counter)

\* A replica lags the row; with the same counter it lags by the tombstone at most,
\* because mark_complete is the one write that leaves the counter.
ReplicaBehind(s) ==
  /\ replica[s].counter <= lease[s].counter
  /\ replica[s].counter = lease[s].counter =>
        replica[s].owner = lease[s].owner /\ replica[s].checkpoint = lease[s].checkpoint

\* The phases of a task, and what is pending in each.
TaskShape(w, s) ==
  /\ task[w][s].pc \in {"deliver", "ckpt", "end", "flush", "finish"} => pc[w] = "run"
  /\ task[w][s].pc \in {"rflush", "release"} => pc[w] = "release" /\ pending[w][s] <= 0
  /\ task[w][s].pc \in {"ckpt", "flush", "rflush"} => task[w][s].val > 0
  /\ task[w][s].pc = "ckpt" => task[w][s].val = task[w][s].after
  /\ task[w][s].pc = "finish" => pending[w][s] <= 0
  /\ ~Defer => pending[w][s] <= 0 /\ task[w][s].pc \notin {"end", "flush", "rflush"}

\* Checkpoints per batch: a pass in lock is at the row's position or ahead of it.
PassAhead(w, s) ==
  ~Defer /\ InLock(w, s) /\ task[w][s].pc \in {"deliver", "ckpt"} =>
     lease[s].checkpoint <= task[w][s].after

\* No client is replaced: once gone, it stays gone.
ClientsStay == ~ClientMayVanish \/ MaxRestarts = 0

\* No client has gone away so far.
NeverGone == ClientsStay /\ \A w \in Workers : ~gone[w]

\* A pass in lock: its position is the pending ack, else the row's, and it has
\* nothing to write once the row is complete.
PassFresh(w, s) ==
  InLock(w, s) =>
    /\ task[w][s].pc \in {"ckpt", "flush"} =>
         task[w][s].val = task[w][s].after /\ ~lease[s].completed
    /\ task[w][s].pc \in {"deliver", "end", "finish"} =>
         /\ pending[w][s] > 0 => task[w][s].after = pending[w][s] /\ ~lease[s].completed
         /\ pending[w][s] <= 0 => task[w][s].after = lease[s].checkpoint
    /\ pc[w] = "release" /\ s \in want[w] /\ lease[s].completed => pending[w][s] <= 0
    /\ task[w][s].pc = "rflush" => ~lease[s].completed

\* The tombstone a scan can still miss, since the counter did not move: the owner
\* has nothing pending, and a pass it started from the old row is in lock.
StaleTombstone(w, s) ==
  /\ lease[s].completed /\ lease[s].owner = w
  /\ replica[s].counter = lease[s].counter /\ ~replica[s].completed
  => /\ pending[w][s] <= 0
     /\ task[w][s].pc = "deliver" => task[w][s].counter = lease[s].counter

\* A completed row stands at the end of the log.
CompleteRow(s) ==
  lease[s].completed =>
     closed[s] /\ acked[s] = 1..written[s] /\ lease[s].checkpoint = written[s]

\* The acknowledged records of a shard are a prefix of its log.
AckedPrefix(s) == \E k \in 0..LastSeq : acked[s] = 1..k

\* Per worker and shard, and per shard.
InOrder(w, s) ==
  TaskShape(w, s) /\ PassAhead(w, s) /\ (NeverGone => PassFresh(w, s) /\ StaleTombstone(w, s))
RowInOrder(s) == ReplicaBehind(s) /\ AckedPrefix(s) /\ (NeverGone => CompleteRow(s))

OrderInv ==
  /\ Inv
  /\ \A s \in Shards : RowInOrder(s)
  /\ \A w \in Workers, s \in Shards : InOrder(w, s)

-----------------------------------------------------------------------------
(* Rows and tasks *)

LEMMA RowFields ==
  ASSUME TypeOK, NEW s \in Shards
  PROVE  /\ lease[s] \in Row /\ lease[s].counter \in Nat /\ lease[s].checkpoint \in 0..LastSeq
         /\ replica[s] \in Row /\ replica[s].counter \in Nat
         /\ replica[s].checkpoint \in 0..LastSeq
         /\ written[s] \in 0..LastSeq
BY DEF TypeOK, Row

\* What each write does to a row.
LEMMA RowWrites ==
  ASSUME NEW r \in Row, NEW w \in Workers, NEW n \in 0..LastSeq
  PROVE  /\ Claimed(r, w).owner = w /\ Claimed(r, w).counter = r.counter + 1
         /\ Claimed(r, w).checkpoint = r.checkpoint /\ Claimed(r, w).completed = r.completed
         /\ Checkpointed(r, n).owner = r.owner /\ Checkpointed(r, n).counter = r.counter + 1
         /\ Checkpointed(r, n).checkpoint = n /\ Checkpointed(r, n).completed = r.completed
         /\ Completed(r).owner = r.owner /\ Completed(r).counter = r.counter
         /\ Completed(r).checkpoint = r.checkpoint /\ Completed(r).completed = TRUE
         /\ Released(r).owner = NoOwner /\ Released(r).counter = r.counter + 1
         /\ Released(r).checkpoint = r.checkpoint /\ Released(r).completed = r.completed
BY DEF Row, Claimed, Checkpointed, Completed, Released

\* The rows of a scan, when the replica is behind.
LEMMA ViewInLock ==
  ASSUME NEW v \in Views, NEW w \in Workers, NEW s \in Shards, ReplicaBehind(s),
         Holds(lease[s], w, v[s].counter), ~v[s].completed
  PROVE  /\ v[s].checkpoint = lease[s].checkpoint
         /\ lease[s].completed => /\ lease[s].owner = w /\ replica[s].counter = lease[s].counter
                                  /\ ~replica[s].completed
BY ViewRows DEF ReplicaBehind, Holds

\* What a step of one task leaves alone.
LEMMA TaskFrame ==
  ASSUME TypeOK, NEW w \in Workers, NEW s \in Shards, TaskStep(w, s)
  PROVE  /\ UNCHANGED <<pc, gone, written, closed, replica>>
         /\ \A s1 \in Shards : s1 # s => lease'[s1] = lease[s1] /\ acked'[s1] = acked[s1]
         /\ \A w1 \in Workers, s1 \in Shards : w1 # w \/ s1 # s =>
               task'[w1][s1] = task[w1][s1] /\ pending'[w1][s1] = pending[w1][s1]
         /\ \A w1 \in Workers, s1 \in Shards : s1 \in want'[w1] => s1 \in want[w1]
<1>1. /\ UNCHANGED <<pc, gone, written, closed, replica>>
      /\ \A s1 \in Shards : s1 # s => lease'[s1] = lease[s1]
  BY DEF TaskStep, PassReturns, EmptyEnd, DeliverAcked, DeliverUnacked, DeliverHangs, DeliverFails,
         CheckpointOk, CheckpointLost, CheckpointFault, LeaseLost, TakePending, MarkComplete,
         LastWriteFault, ReleaseNext, ReleaseFlush, ReleaseFlushFault, Release, log, table, TypeOK
<1>2. \A s1 \in Shards : s1 # s => acked'[s1] = acked[s1]
  <2>1. acked' = acked \/ \E A : acked' = [acked EXCEPT ![s] = A]
    BY DEF TaskStep, PassReturns, EmptyEnd, DeliverAcked, Deliver, DeliverUnacked, DeliverHangs,
           DeliverFails, CheckpointOk, CheckpointLost, CheckpointFault, LeaseLost, TakePending,
           MarkComplete, LastWriteFault, ReleaseNext, ReleaseFlush, ReleaseFlushFault, Release
  <2> QED
    BY <2>1 DEF TypeOK
<1>3. \A w1 \in Workers, s1 \in Shards : w1 # w \/ s1 # s => task'[w1][s1] = task[w1][s1]
  <2>1. \E t : task' = [task EXCEPT ![w][s] = t]
    <3>1. CASE PassReturns(w, s) \/ DeliverFails(w, s) \/ CheckpointLost(w, s) \/ CheckpointFault(w, s)
               \/ MarkComplete(w, s) \/ LastWriteFault(w, s) \/ Release(w, s) \/ DeliverHangs(w, s)
      BY <3>1 DEF PassReturns, DeliverFails, CheckpointLost, CheckpointFault, LeaseLost,
                  MarkComplete, LastWriteFault, Release, DeliverHangs
    <3>2. CASE EmptyEnd(w, s)
      BY <3>2 DEF EmptyEnd
    <3>3. CASE DeliverAcked(w, s)
      BY <3>3 DEF DeliverAcked
    <3>4. CASE DeliverUnacked(w, s)
      BY <3>4 DEF DeliverUnacked
    <3>5. CASE CheckpointOk(w, s)
      BY <3>5 DEF CheckpointOk
    <3>6. CASE TakePending(w, s)
      BY <3>6 DEF TakePending
    <3>7. CASE ReleaseNext(w, s)
      BY <3>7 DEF ReleaseNext
    <3>8. CASE ReleaseFlush(w, s)
      BY <3>8 DEF ReleaseFlush
    <3>9. CASE ReleaseFlushFault(w, s)
      BY <3>9 DEF ReleaseFlushFault
    <3> QED
      BY <3>1, <3>2, <3>3, <3>4, <3>5, <3>6, <3>7, <3>8, <3>9 DEF TaskStep
  <2> QED
    BY <2>1 DEF TypeOK
<1>4. \A w1 \in Workers, s1 \in Shards : w1 # w \/ s1 # s => pending'[w1][s1] = pending[w1][s1]
  <2>1. pending' = pending \/ \E n : pending' = [pending EXCEPT ![w][s] = n]
    <3>1. CASE PassReturns(w, s) \/ EmptyEnd(w, s) \/ DeliverUnacked(w, s) \/ MarkComplete(w, s)
               \/ LastWriteFault(w, s) \/ ReleaseFlush(w, s) \/ ReleaseFlushFault(w, s)
               \/ Release(w, s) \/ DeliverHangs(w, s)
      BY <3>1 DEF PassReturns, EmptyEnd, DeliverUnacked, MarkComplete, LastWriteFault,
                  ReleaseFlush, ReleaseFlushFault, Release, DeliverHangs
    <3>2. CASE DeliverFails(w, s) \/ CheckpointLost(w, s) \/ CheckpointFault(w, s) \/ ReleaseNext(w, s)
      BY <3>2 DEF DeliverFails, CheckpointLost, CheckpointFault, LeaseLost, ReleaseNext
    <3>3. CASE DeliverAcked(w, s)
      BY <3>3 DEF DeliverAcked, RecordAck
    <3>4. CASE CheckpointOk(w, s)
      BY <3>4 DEF CheckpointOk
    <3>5. CASE TakePending(w, s)
      BY <3>5 DEF TakePending
    <3> QED
      BY <3>1, <3>2, <3>3, <3>4, <3>5 DEF TaskStep
  <2> QED
    BY <2>1 DEF TypeOK
<1>5. \A w1 \in Workers, s1 \in Shards : s1 \in want'[w1] => s1 \in want[w1]
  <2>1. want' = want \/ want' = [want EXCEPT ![w] = @ \ {s}]
    BY DEF TaskStep, PassReturns, EmptyEnd, DeliverAcked, DeliverUnacked, DeliverHangs, DeliverFails,
           CheckpointOk, CheckpointLost, CheckpointFault, LeaseLost, TakePending, MarkComplete,
           LastWriteFault, ReleaseNext, ReleaseFlush, ReleaseFlushFault, Release
  <2> QED
    BY <2>1 DEF TypeOK
<1> QED
  BY <1>1, <1>2, <1>3, <1>4, <1>5

\* A step of one task keeps the order when it does for that task, and when the row
\* it wrote is not another worker's.
LEMMA OrderFrame ==
  ASSUME OrderInv, NEW w \in Workers, NEW s \in Shards, TaskStep(w, s),
         InOrder(w, s)', AckedPrefix(s)', NeverGone => CompleteRow(s)',
         \/ lease'[s] = lease[s]
         \/ /\ lease'[s].owner \in {w, NoOwner}
            /\ \/ lease'[s].counter = lease[s].counter + 1
               \/ /\ lease'[s].counter = lease[s].counter /\ lease'[s].owner = lease[s].owner
                  /\ lease'[s].checkpoint = lease[s].checkpoint
  PROVE  /\ \A s1 \in Shards : RowInOrder(s1)'
         /\ \A w1 \in Workers, s1 \in Shards : InOrder(w1, s1)'
<1>0. TypeOK
  BY DEF OrderInv, Inv
<1>1. /\ UNCHANGED <<pc, gone, written, closed, replica>>
      /\ \A s1 \in Shards : s1 # s => lease'[s1] = lease[s1] /\ acked'[s1] = acked[s1]
      /\ \A w1 \in Workers, s1 \in Shards : w1 # w \/ s1 # s =>
            task'[w1][s1] = task[w1][s1] /\ pending'[w1][s1] = pending[w1][s1]
      /\ \A w1 \in Workers, s1 \in Shards : s1 \in want'[w1] => s1 \in want[w1]
  BY <1>0, TaskFrame
<1>2. NeverGone' <=> NeverGone
  BY <1>1 DEF NeverGone
<1>3. ASSUME NEW s1 \in Shards
      PROVE  RowInOrder(s1)'
  <2>1. CASE s1 # s
    BY <1>1, <1>2, <2>1 DEF OrderInv, RowInOrder, ReplicaBehind, AckedPrefix, CompleteRow
  <2>2. CASE s1 = s
    <3>1. ReplicaBehind(s)'
      BY <1>0, <1>1, RowFields DEF OrderInv, RowInOrder, ReplicaBehind
    <3> QED
      BY <1>2, <2>2, <3>1 DEF RowInOrder
  <2> QED
    BY <2>1, <2>2
<1>4. ASSUME NEW w1 \in Workers, NEW s1 \in Shards
      PROVE  InOrder(w1, s1)'
  <2>1. CASE w1 = w /\ s1 = s
    BY <2>1
  <2>2. CASE w1 # w \/ s1 # s
    <3>1. InOrder(w1, s1)
      BY DEF OrderInv
    <3>2. task'[w1][s1] = task[w1][s1] /\ pending'[w1][s1] = pending[w1][s1]
      BY <1>1, <2>2
    <3>3. TaskShape(w1, s1)'
      BY <1>1, <3>1, <3>2 DEF InOrder, TaskShape
    <3>4. lease'[s1] = lease[s1] \/ (s1 = s /\ lease'[s1].owner # w1)
      BY <1>1, <2>2, FleetAssumption DEF FleetAssumption
    <3>5. CASE lease'[s1] = lease[s1]
      BY <1>1, <1>2, <3>1, <3>2, <3>3, <3>5
         DEF InOrder, PassAhead, PassFresh, StaleTombstone, InLock
    <3>6. CASE lease'[s1].owner # w1
      BY <3>3, <3>6 DEF InOrder, PassAhead, PassFresh, StaleTombstone, InLock, Holds
    <3> QED
      BY <3>4, <3>5, <3>6
  <2> QED
    BY <2>1, <2>2
<1> QED
  BY <1>3, <1>4

-----------------------------------------------------------------------------
(* Steps of a task *)

\* What the invariant says of one task.
LEMMA OrderAt ==
  ASSUME OrderInv, NEW w \in Workers, NEW s \in Shards
  PROVE  /\ TypeOK /\ Inv
         /\ TaskShape(w, s) /\ PassAhead(w, s)
         /\ NeverGone => PassFresh(w, s) /\ StaleTombstone(w, s) /\ CompleteRow(s)
         /\ ReplicaBehind(s) /\ AckedPrefix(s)
BY DEF OrderInv, Inv, InOrder, RowInOrder

LEMMA Types ==
  ASSUME TypeOK, NEW w \in Workers, NEW s \in Shards
  PROVE  /\ lease[s] \in Row /\ lease[s].counter \in Nat /\ lease[s].checkpoint \in 0..LastSeq
         /\ lease[s].completed \in BOOLEAN
         /\ task[w][s] \in Task /\ task[w][s].pc \in TaskPC /\ task[w][s].counter \in Nat
         /\ task[w][s].after \in 0..LastSeq /\ task[w][s].val \in 0..LastSeq
         /\ task[w][s].end \in BOOLEAN
         /\ pending[w][s] \in Int /\ written[s] \in 0..LastSeq /\ LastSeq \in Nat
<1>1. pending[w][s] \in Int /\ LastSeq \in Nat
  BY FleetAssumption DEF FleetAssumption, TypeOK, NoEntry
<1>2. lease[s].completed \in BOOLEAN
  BY RowFields DEF Row
<1> QED
  BY <1>1, <1>2, RowFields, TaskFields

\* A checkpoint in lock: the row moves to n and its owner stays.
LEMMA CheckpointLock ==
  ASSUME TypeOK, NEW w \in Workers, NEW s \in Shards, NEW n \in 0..LastSeq, InLock(w, s),
         lease' = [lease EXCEPT ![s] = Checkpointed(@, n)]
  PROVE  /\ lease'[s].owner = w /\ lease'[s].counter = task[w][s].counter + 1
         /\ lease'[s].counter = lease[s].counter + 1
         /\ lease'[s].checkpoint = n /\ lease'[s].completed = lease[s].completed
<1>1. lease[s] \in Row /\ lease[s].owner = w /\ lease[s].counter = task[w][s].counter
  BY RowFields DEF InLock, Holds
<1>2. lease'[s] = Checkpointed(lease[s], n)
  BY DEF TypeOK
<1>3. \A m \in 0..LastSeq :
        /\ Checkpointed(lease[s], m).owner = lease[s].owner
        /\ Checkpointed(lease[s], m).counter = lease[s].counter + 1
        /\ Checkpointed(lease[s], m).checkpoint = m
        /\ Checkpointed(lease[s], m).completed = lease[s].completed
  BY <1>1, RowWrites
<1> QED
  BY <1>1, <1>2, <1>3

\* A task that has stopped, or hangs, is in order: nothing new is pending, and nothing is when
\* the row changed or the worker is releasing its leases.
LEMMA OffOrder ==
  ASSUME OrderInv, NEW w \in Workers, NEW s \in Shards,
         UNCHANGED <<pc, gone, replica>>, task'[w][s] \in {Off, Hung},
         pending'[w][s] \in {pending[w][s], NoEntry},
         pc[w] = "run" \/ pending'[w][s] <= 0,
         lease'[s] = lease[s] \/ pending'[w][s] <= 0
  PROVE  InOrder(w, s)'
<1>0. TypeOK /\ TaskShape(w, s) /\ (NeverGone => StaleTombstone(w, s))
  BY OrderAt
<1>1. task'[w][s].pc \in {"off", "hung"} /\ NoEntry <= 0 /\ pending[w][s] \in Int
  BY <1>0, OffFields, HungFields, Types DEF NoEntry
<1>2. NeverGone' <=> NeverGone
  BY DEF NeverGone
<1>3. TaskShape(w, s)'
  BY <1>0, <1>1 DEF TaskShape
<1>4. PassAhead(w, s)'
  BY <1>1 DEF PassAhead
<1>5. PassFresh(w, s)'
  BY <1>1 DEF PassFresh
<1>6. NeverGone => StaleTombstone(w, s)'
  BY <1>0, <1>1 DEF StaleTombstone
<1> QED
  BY <1>2, <1>3, <1>4, <1>5, <1>6 DEF InOrder

\* The pass ends, with or without a write.
LEMMA StopOrder ==
  ASSUME OrderInv, NEW w \in Workers, NEW s \in Shards,
         \/ PassReturns(w, s) \/ DeliverHangs(w, s) \/ DeliverFails(w, s)
         \/ CheckpointLost(w, s) \/ CheckpointFault(w, s)
         \/ MarkComplete(w, s) \/ LastWriteFault(w, s) \/ Release(w, s)
  PROVE  /\ \A s1 \in Shards : RowInOrder(s1)'
         /\ \A w1 \in Workers, s1 \in Shards : InOrder(w1, s1)'
<1>0. TypeOK /\ TaskStep(w, s)
  BY DEF OrderInv, Inv, TaskStep
<1>1. /\ UNCHANGED <<pc, gone, written, closed, replica>> /\ acked' = acked
      /\ task' = [task EXCEPT ![w][s] = Off] \/ task' = [task EXCEPT ![w][s] = Hung]
      /\ pending' = pending \/ pending' = [pending EXCEPT ![w][s] = NoEntry]
  BY <1>0, TaskFrame DEF PassReturns, DeliverHangs, DeliverFails, CheckpointLost, CheckpointFault, LeaseLost,
                         MarkComplete, LastWriteFault, Release
<1>2. task'[w][s] \in {Off, Hung} /\ pending'[w][s] \in {pending[w][s], NoEntry}
  BY <1>0, <1>1 DEF TypeOK
<1>3. /\ TaskShape(w, s) /\ AckedPrefix(s)
      /\ NeverGone => PassFresh(w, s) /\ CompleteRow(s)
  BY OrderAt
<1>4. NeverGone' <=> NeverGone
  BY <1>1 DEF NeverGone
<1>5. AckedPrefix(s)'
  BY <1>1, <1>3 DEF AckedPrefix
<1>t. /\ lease[s] \in Row /\ lease[s].counter \in Nat /\ task[w][s].val \in 0..LastSeq
      /\ task[w][s].after \in 0..LastSeq /\ written[s] \in 0..LastSeq
      /\ pending[w][s] \in Int /\ NoEntry <= 0
  BY <1>0, Types DEF NoEntry
<1>6. CASE /\ lease' = lease
           /\ task[w][s].pc \in {"deliver", "ckpt", "flush", "finish", "release"}
  <2>1. pc[w] = "run" \/ pending'[w][s] <= 0
    BY <1>2, <1>3, <1>6, <1>t DEF TaskShape
  <2>2. InOrder(w, s)'
    BY <1>1, <1>2, <1>6, <2>1, OffOrder
  <2>3. NeverGone => CompleteRow(s)'
    BY <1>1, <1>3, <1>6 DEF CompleteRow
  <2> QED
    BY <1>0, <1>5, <1>6, <2>2, <2>3, OrderFrame
<1>7. CASE CheckpointFault(w, s) /\ lease' # lease
  <2>1. /\ InLock(w, s) /\ task[w][s].pc \in {"ckpt", "flush"}
        /\ lease' = [lease EXCEPT ![s] = Checkpointed(@, task[w][s].val)]
        /\ pending' = [pending EXCEPT ![w][s] = NoEntry]
    BY <1>7 DEF CheckpointFault, LeaseLost, InLock
  <2>2. pending'[w][s] = NoEntry
    BY <1>0, <2>1 DEF TypeOK
  <2>3. /\ lease'[s].owner = w /\ lease'[s].counter = lease[s].counter + 1
        /\ lease'[s].completed = lease[s].completed
    BY <1>0, <1>t, <2>1, CheckpointLock
  <2>4. InOrder(w, s)'
    BY <1>1, <1>2, <1>t, <2>2, OffOrder
  <2>5. NeverGone => CompleteRow(s)'
    BY <1>3, <2>1, <2>3 DEF CompleteRow, PassFresh
  <2> QED
    BY <1>0, <1>5, <2>3, <2>4, <2>5, OrderFrame
<1>8. CASE MarkComplete(w, s) /\ lease' # lease
  <2>1. /\ InLock(w, s) /\ task[w][s].pc = "finish" /\ lease' = [lease EXCEPT ![s] = Completed(@)]
        /\ pending' = pending
    BY <1>8 DEF MarkComplete, InLock
  <2>2. lease'[s] = Completed(lease[s]) /\ pending[w][s] <= 0
    <3>1. lease'[s] = Completed(lease[s])
      BY <1>0, <2>1 DEF TypeOK
    <3> QED
      BY <1>3, <2>1, <3>1 DEF TaskShape
  <2>3. /\ lease'[s].owner = w /\ lease'[s].counter = lease[s].counter
        /\ lease'[s].owner = lease[s].owner /\ lease'[s].checkpoint = lease[s].checkpoint
    BY <1>t, <2>1, <2>2, RowWrites DEF InLock, Holds
  <2>4. InOrder(w, s)'
    BY <1>1, <1>2, <2>1, <2>2, OffOrder
  <2>5. ASSUME NeverGone
        PROVE  CompleteRow(s)'
    <3>1. /\ task[w][s].end /\ closed[s] /\ task[w][s].after = written[s] /\ ~gone[w]
          /\ UpTo(acked[s], task[w][s].after) /\ acked[s] \subseteq 1..written[s]
      BY <2>1, <2>5, InvAt DEF OrderInv, NeverGone
    <3>2. task[w][s].after = lease[s].checkpoint
      BY <1>3, <2>1, <2>2, <2>5 DEF PassFresh
    <3> QED
      BY <1>1, <2>3, <3>1, <3>2 DEF CompleteRow, UpTo
  <2> QED
    BY <1>0, <1>5, <2>3, <2>4, <2>5, OrderFrame
<1>9. CASE Release(w, s)
  <2>1. task[w][s].pc = "release" /\ pending' = pending /\ pending[w][s] <= 0
    BY <1>3, <1>9 DEF Release, TaskShape
  <2>2. lease'[s] = lease[s] \/ lease'[s] = Released(lease[s])
    BY <1>0, <1>9 DEF Release, TypeOK
  <2>3. /\ lease'[s] = lease[s] \/ (/\ lease'[s].owner = NoOwner
                                    /\ lease'[s].counter = lease[s].counter + 1)
        /\ lease'[s].completed = lease[s].completed /\ lease'[s].checkpoint = lease[s].checkpoint
    BY <1>t, <2>2, RowWrites
  <2>4. InOrder(w, s)'
    BY <1>1, <1>2, <2>1, OffOrder
  <2>5. NeverGone => CompleteRow(s)'
    BY <1>1, <1>3, <2>3 DEF CompleteRow
  <2> QED
    BY <1>0, <1>5, <2>3, <2>4, <2>5, OrderFrame
<1> QED
  BY <1>6, <1>7, <1>8, <1>9 DEF PassReturns, DeliverHangs, DeliverFails, CheckpointLost, CheckpointFault,
                                MarkComplete, LastWriteFault, table

\* Reading on: the batches of a pass.
LEMMA EmptyEndOrder ==
  ASSUME OrderInv, NEW w \in Workers, NEW s \in Shards, EmptyEnd(w, s)
  PROVE  /\ \A s1 \in Shards : RowInOrder(s1)'
         /\ \A w1 \in Workers, s1 \in Shards : InOrder(w1, s1)'
<1> DEFINE t == [task[w][s] EXCEPT !.pc = AfterBatch(TRUE), !.end = TRUE]
<1>0. TypeOK /\ TaskStep(w, s)
  BY DEF OrderInv, Inv, TaskStep
<1>1. /\ UNCHANGED <<pc, want, gone, written, closed, lease, replica, acked, pending>>
      /\ task[w][s].pc = "deliver" /\ task' = [task EXCEPT ![w][s] = t]
  BY DEF EmptyEnd, log, table
<1>2. /\ t.pc = AfterBatch(TRUE) /\ t.counter = task[w][s].counter
      /\ t.after = task[w][s].after /\ t.val = task[w][s].val
  BY <1>0, Types DEF Task
<1> HIDE DEF t
<1>3. task'[w][s] = t
  BY <1>0, <1>1 DEF TypeOK
<1>4. /\ TaskShape(w, s) /\ PassAhead(w, s) /\ AckedPrefix(s)
      /\ NeverGone => PassFresh(w, s) /\ StaleTombstone(w, s) /\ CompleteRow(s)
  BY OrderAt
<1>5. t.pc = IF Defer THEN "end" ELSE "finish"
  BY <1>2 DEF AfterBatch
<1>6. TaskShape(w, s)'
  BY <1>1, <1>3, <1>4, <1>5 DEF TaskShape
<1>7. PassAhead(w, s)'
  BY <1>3, <1>5 DEF PassAhead
<1>8. NeverGone => PassFresh(w, s)'
  BY <1>1, <1>2, <1>3, <1>4, <1>5 DEF PassFresh, InLock
<1>9. NeverGone => StaleTombstone(w, s)'
  BY <1>1, <1>3, <1>4, <1>5 DEF StaleTombstone
<1>10. InOrder(w, s)'
  BY <1>1, <1>6, <1>7, <1>8, <1>9 DEF InOrder, NeverGone
<1>11. AckedPrefix(s)' /\ (NeverGone => CompleteRow(s)')
  BY <1>1, <1>4 DEF AckedPrefix, CompleteRow
<1> QED
  BY <1>0, <1>1, <1>10, <1>11, OrderFrame

LEMMA DeliverUnackedOrder ==
  ASSUME OrderInv, NEW w \in Workers, NEW s \in Shards, DeliverUnacked(w, s)
  PROVE  /\ \A s1 \in Shards : RowInOrder(s1)'
         /\ \A w1 \in Workers, s1 \in Shards : InOrder(w1, s1)'
<1>0. TypeOK /\ TaskStep(w, s)
  BY DEF OrderInv, Inv, TaskStep
<1>1. /\ UNCHANGED <<pc, want, gone, written, closed, lease, replica, acked, pending>>
      /\ task[w][s].pc = "deliver" /\ gone[w]
  BY DEF DeliverUnacked, log, table
<1>2. PICK hi \in task[w][s].after + 1 .. written[s], end \in BOOLEAN :
         task' = [task EXCEPT ![w][s] = [task[w][s] EXCEPT
               !.pc = AfterBatch(end), !.after = hi, !.end = end]]
  BY <1>0 DEF DeliverUnacked, TypeOK
<1> DEFINE t == [task[w][s] EXCEPT !.pc = AfterBatch(end), !.after = hi, !.end = end]
<1>3. t.pc = AfterBatch(end) /\ t.counter = task[w][s].counter /\ t.after = hi
  BY <1>0, Types DEF Task
<1>4. task' = [task EXCEPT ![w][s] = t]
  BY <1>2
<1> HIDE DEF t
<1>5. task'[w][s] = t
  BY <1>0, <1>4 DEF TypeOK
<1>6. TaskShape(w, s) /\ PassAhead(w, s) /\ AckedPrefix(s)
  BY OrderAt
<1>7. t.pc \in {"deliver", "end", "finish"} /\ (t.pc = "finish" => ~Defer) /\ (t.pc = "end" => Defer)
  BY <1>3 DEF AfterBatch
<1>8. TaskShape(w, s)'
  BY <1>1, <1>5, <1>6, <1>7 DEF TaskShape
<1>9. PassAhead(w, s)'
  <2>1. \A n \in 0..LastSeq : n <= task[w][s].after => n <= hi
    BY <1>0, Types
  <2>2. lease[s].checkpoint \in 0..LastSeq
    BY <1>0, Types
  <2> QED
    BY <1>1, <1>3, <1>5, <1>6, <2>1, <2>2 DEF PassAhead, InLock
<1>10. InOrder(w, s)'
  BY <1>1, <1>8, <1>9 DEF InOrder, NeverGone
<1>11. AckedPrefix(s)' /\ ~NeverGone
  BY <1>1, <1>6 DEF AckedPrefix, NeverGone
<1> QED
  BY <1>0, <1>1, <1>10, <1>11, OrderFrame

\* An acknowledged batch.  A pass in lock on a completed row stands at the end of
\* the log and gets no batch.
LEMMA DeliverAckedOrder ==
  ASSUME OrderInv, NEW w \in Workers, NEW s \in Shards, DeliverAcked(w, s)
  PROVE  /\ \A s1 \in Shards : RowInOrder(s1)'
         /\ \A w1 \in Workers, s1 \in Shards : InOrder(w1, s1)'
<1>0. TypeOK /\ TaskStep(w, s)
  BY DEF OrderInv, Inv, TaskStep
<1>1. /\ UNCHANGED <<pc, want, gone, written, closed, lease, replica>>
      /\ task[w][s].pc = "deliver" /\ ~gone[w]
  BY DEF DeliverAcked, log, table
<1>t. /\ task[w][s] \in Task /\ task[w][s].after \in 0..LastSeq /\ written[s] \in 0..LastSeq
      /\ lease[s].checkpoint \in 0..LastSeq /\ LastSeq \in Nat /\ pending[w][s] \in Int
  BY <1>0, Types
<1>2. PICK hi \in task[w][s].after + 1 .. written[s], end \in BOOLEAN, due \in BOOLEAN :
         /\ acked' = [acked EXCEPT ![s] = @ \cup (task[w][s].after + 1 .. hi)]
         /\ IF Defer THEN pending' = [pending EXCEPT ![w][s] = hi] ELSE due /\ UNCHANGED pending
         /\ task' = [task EXCEPT ![w][s] = [task[w][s] EXCEPT
               !.pc = IF due THEN "ckpt" ELSE AfterBatch(end),
               !.after = hi, !.val = IF due THEN hi ELSE 0, !.end = end]]
  BY <1>0 DEF DeliverAcked, Deliver, RecordAck, TypeOK
<1> DEFINE t == [task[w][s] EXCEPT !.pc = IF due THEN "ckpt" ELSE AfterBatch(end),
                   !.after = hi, !.val = IF due THEN hi ELSE 0, !.end = end]
<1>3. /\ t.pc = (IF due THEN "ckpt" ELSE AfterBatch(end)) /\ t.counter = task[w][s].counter
      /\ t.after = hi /\ (due => t.val = hi)
  BY <1>t DEF Task
<1>4. task' = [task EXCEPT ![w][s] = t]
  BY <1>2
<1> HIDE DEF t
<1>5. /\ task'[w][s] = t
      /\ acked'[s] = acked[s] \cup (task[w][s].after + 1 .. hi)
      /\ IF Defer THEN pending'[w][s] = hi ELSE due /\ pending'[w][s] = pending[w][s]
  <2>1. task'[w][s] = t
    BY <1>0, <1>4 DEF TypeOK
  <2>2. acked'[s] = acked[s] \cup (task[w][s].after + 1 .. hi)
    BY <1>0, <1>2 DEF TypeOK
  <2>3. IF Defer THEN pending'[w][s] = hi ELSE due /\ pending'[w][s] = pending[w][s]
    BY <1>0, <1>2 DEF TypeOK
  <2> QED
    BY <2>1, <2>2, <2>3
<1>h. hi \in 1..LastSeq /\ task[w][s].after < hi /\ hi <= written[s]
  BY <1>t
<1>6. /\ TaskShape(w, s) /\ PassAhead(w, s) /\ AckedPrefix(s)
      /\ NeverGone => PassFresh(w, s) /\ StaleTombstone(w, s) /\ CompleteRow(s)
  BY OrderAt
<1>7. /\ t.pc \in {"deliver", "end", "ckpt"} /\ (~Defer => t.pc = "ckpt")
      /\ t.pc = "ckpt" => t.val = hi
  BY <1>3, <1>5 DEF AfterBatch
<1>8. TaskShape(w, s)'
  BY <1>1, <1>3, <1>5, <1>6, <1>7, <1>h DEF TaskShape
<1>9. PassAhead(w, s)'
  <2>1. lease[s].checkpoint <= task[w][s].after => lease[s].checkpoint <= hi
    BY <1>t, <1>h
  <2> QED
    BY <1>1, <1>3, <1>5, <1>6, <2>1 DEF PassAhead, InLock
<1>10. NeverGone /\ InLock(w, s) => ~lease[s].completed
  <2> SUFFICES ASSUME NeverGone, InLock(w, s), lease[s].completed
               PROVE  FALSE
    OBVIOUS
  <2>1. task[w][s].after = written[s]
    BY <1>1, <1>6, <1>t DEF PassFresh, CompleteRow
  <2> QED
    BY <1>h, <1>t, <2>1
<1>11. NeverGone => PassFresh(w, s)'
  BY <1>1, <1>3, <1>5, <1>6, <1>7, <1>8, <1>10, <1>h DEF PassFresh, InLock, TaskShape
<1>12. NeverGone => StaleTombstone(w, s)'
  <2> SUFFICES ASSUME NeverGone, lease[s].completed, lease[s].owner = w,
                      replica[s].counter = lease[s].counter, ~replica[s].completed
               PROVE  FALSE
    BY <1>1 DEF StaleTombstone
  <2>1. task[w][s].counter = lease[s].counter
    BY <1>1, <1>6 DEF StaleTombstone
  <2> QED
    BY <1>10, <2>1 DEF InLock, Holds
<1>13. InOrder(w, s)'
  BY <1>1, <1>8, <1>9, <1>11, <1>12 DEF InOrder, NeverGone
<1>14. PICK k \in 0..LastSeq : acked[s] = 1..k
  BY <1>6 DEF AckedPrefix
<1>15. task[w][s].after <= k
  <2>1. UpTo(1..k, task[w][s].after)
    BY <1>1, <1>14, InvAt DEF OrderInv
  <2> QED
    BY <1>t, <1>14, <2>1 DEF UpTo
<1>16. acked'[s] = 1..(IF hi > k THEN hi ELSE k)
  BY <1>5, <1>14, <1>15, <1>h, <1>t
<1>17. AckedPrefix(s)'
  <2>1. (IF hi > k THEN hi ELSE k) \in 0..LastSeq
    BY <1>h
  <2> QED
    BY <1>16, <2>1 DEF AckedPrefix
<1>18. NeverGone => CompleteRow(s)'
  <2> SUFFICES ASSUME NeverGone, lease[s].completed
               PROVE  CompleteRow(s)'
    BY <1>1 DEF CompleteRow
  <2>1. acked[s] = 1..written[s] /\ closed[s] /\ lease[s].checkpoint = written[s]
    BY <1>6 DEF CompleteRow
  <2>2. acked'[s] = 1..written[s]
    BY <1>5, <1>h, <1>t, <2>1
  <2> QED
    BY <1>1, <2>1, <2>2 DEF CompleteRow
<1> QED
  BY <1>0, <1>1, <1>13, <1>17, <1>18, OrderFrame

\* The checkpoint is persisted: the task goes on with the bumped counter, at the
\* position of the row.
LEMMA CheckpointOkOrder ==
  ASSUME OrderInv, NEW w \in Workers, NEW s \in Shards, CheckpointOk(w, s)
  PROVE  /\ \A s1 \in Shards : RowInOrder(s1)'
         /\ \A w1 \in Workers, s1 \in Shards : InOrder(w1, s1)'
<1> DEFINE t == Persisted(task[w][s])
<1>0. TypeOK /\ TaskStep(w, s)
  BY DEF OrderInv, Inv, TaskStep
<1>1. /\ UNCHANGED <<pc, want, gone, written, closed, replica, acked>>
      /\ task[w][s].pc \in {"ckpt", "flush"} /\ task' = [task EXCEPT ![w][s] = t]
      /\ InLock(w, s) /\ lease' = [lease EXCEPT ![s] = Checkpointed(@, task[w][s].val)]
      /\ pending' = IF ~Defer THEN pending
                ELSE [pending EXCEPT ![w][s] = IF task[w][s].pc = "flush" THEN NoEntry ELSE 0]
  BY DEF CheckpointOk, log, InLock
<1>t. /\ task[w][s] \in Task /\ task[w][s].val \in 0..LastSeq /\ task[w][s].after \in 0..LastSeq
      /\ pending[w][s] \in Int /\ lease[s].counter \in Nat /\ task[w][s].end \in BOOLEAN
  BY <1>0, Types
<1>2. /\ t.pc = (IF task[w][s].pc = "flush" THEN "finish" ELSE AfterBatch(task[w][s].end))
      /\ t.counter = task[w][s].counter + 1 /\ t.after = task[w][s].after
  BY <1>t DEF Task, Persisted
<1> HIDE DEF t
<1>3. task'[w][s] = t
  BY <1>0, <1>1 DEF TypeOK
<1>4. /\ lease'[s].owner = w /\ lease'[s].counter = t.counter
      /\ lease'[s].counter = lease[s].counter + 1
      /\ lease'[s].checkpoint = task[w][s].val /\ lease'[s].completed = lease[s].completed
  <2>1. InLock(w, s) /\ lease' = [lease EXCEPT ![s] = Checkpointed(@, task[w][s].val)]
    BY <1>1
  <2>2. /\ lease'[s].owner = w /\ lease'[s].counter = task[w][s].counter + 1
        /\ lease'[s].counter = lease[s].counter + 1
        /\ lease'[s].checkpoint = task[w][s].val /\ lease'[s].completed = lease[s].completed
    BY <1>0, <1>t, <2>1, CheckpointLock
  <2> QED
    BY <1>2, <2>2
<1>5. /\ TaskShape(w, s) /\ AckedPrefix(s)
      /\ NeverGone => PassFresh(w, s) /\ StaleTombstone(w, s) /\ CompleteRow(s)
  BY OrderAt
<1>6. pending'[w][s] <= 0
  <2>1. CASE Defer
    BY <1>0, <1>1, <2>1 DEF TypeOK, NoEntry
  <2>2. CASE ~Defer
    BY <1>1, <1>5, <2>2 DEF TaskShape
  <2> QED
    BY <2>1, <2>2
<1>7. t.pc \in {"deliver", "end", "finish"} /\ (t.pc = "end" => Defer)
  BY <1>2 DEF AfterBatch
<1>8. TaskShape(w, s)'
  BY <1>1, <1>3, <1>5, <1>6, <1>7 DEF TaskShape
<1>9. PassAhead(w, s)'
  BY <1>1, <1>2, <1>3, <1>4, <1>5, <1>t DEF PassAhead, TaskShape
<1>10. NeverGone => task[w][s].val = task[w][s].after /\ ~lease[s].completed
  BY <1>1, <1>5 DEF PassFresh
<1>11. NeverGone => PassFresh(w, s)' /\ StaleTombstone(w, s)' /\ CompleteRow(s)'
  <2>1. ~(pending'[w][s] > 0)
    <3>1. TypeOK'
      BY <1>0, CheckpointType
    <3>2. pending'[w][s] \in Int
      BY <3>1 DEF TypeOK, NoEntry
    <3> QED
      BY <1>6, <3>2
  <2> QED
    BY <1>2, <1>3, <1>4, <1>6, <1>7, <1>10, <2>1 DEF PassFresh, StaleTombstone, CompleteRow
<1>12. InOrder(w, s)'
  BY <1>1, <1>8, <1>9, <1>11 DEF InOrder, NeverGone
<1>13. AckedPrefix(s)'
  BY <1>1, <1>5 DEF AckedPrefix
<1> QED
  BY <1>0, <1>4, <1>11, <1>12, <1>13, OrderFrame

LEMMA TakePendingOrder ==
  ASSUME OrderInv, NEW w \in Workers, NEW s \in Shards, TakePending(w, s)
  PROVE  /\ \A s1 \in Shards : RowInOrder(s1)'
         /\ \A w1 \in Workers, s1 \in Shards : InOrder(w1, s1)'
<1> DEFINE t == [task[w][s] EXCEPT !.pc = IF PendingAck(w, s) > 0 THEN "flush" ELSE "finish",
                                   !.val = PendingAck(w, s)]
<1>0. TypeOK /\ TaskStep(w, s)
  BY DEF OrderInv, Inv, TaskStep
<1>1. /\ UNCHANGED <<pc, want, gone, written, closed, lease, replica, acked>>
      /\ task[w][s].pc = "end" /\ task' = [task EXCEPT ![w][s] = t]
      /\ pending' = [pending EXCEPT ![w][s] = IF @ > 0 THEN 0 ELSE NoEntry]
  BY DEF TakePending, log, table
<1>t. task[w][s] \in Task /\ pending[w][s] \in Int
  BY <1>0, Types
<1>2. /\ t.pc = (IF pending[w][s] > 0 THEN "flush" ELSE "finish")
      /\ t.val = (IF pending[w][s] > 0 THEN pending[w][s] ELSE 0)
      /\ t.counter = task[w][s].counter /\ t.after = task[w][s].after
  BY <1>t DEF Task, PendingAck
<1> HIDE DEF t
<1>3. task'[w][s] = t
  BY <1>0, <1>1 DEF TypeOK
<1>4. pending'[w][s] \in {0, -1}
  BY <1>0, <1>1 DEF TypeOK, NoEntry
<1>5. /\ TaskShape(w, s) /\ AckedPrefix(s)
      /\ NeverGone => PassFresh(w, s) /\ StaleTombstone(w, s) /\ CompleteRow(s)
  BY OrderAt
<1>6. TaskShape(w, s)'
  BY <1>1, <1>2, <1>3, <1>4, <1>5, <1>t DEF TaskShape
<1>7. PassAhead(w, s)' /\ StaleTombstone(w, s)'
  BY <1>2, <1>3, <1>4 DEF PassAhead, StaleTombstone
<1>8. NeverGone => PassFresh(w, s)'
  BY <1>1, <1>2, <1>3, <1>4, <1>5, <1>t DEF PassFresh, InLock
<1>9. InOrder(w, s)'
  BY <1>1, <1>6, <1>7, <1>8 DEF InOrder, NeverGone
<1>10. AckedPrefix(s)' /\ (NeverGone => CompleteRow(s)')
  BY <1>1, <1>5 DEF AckedPrefix, CompleteRow
<1> QED
  BY <1>0, <1>1, <1>9, <1>10, OrderFrame

\* A stop: the pending ack of a lease in lock is flushed.
LEMMA ReleaseNextOrder ==
  ASSUME OrderInv, NEW w \in Workers, NEW s \in Shards, ReleaseNext(w, s)
  PROVE  /\ \A s1 \in Shards : RowInOrder(s1)'
         /\ \A w1 \in Workers, s1 \in Shards : InOrder(w1, s1)'
<1> DEFINE t == [task[w][s] EXCEPT !.pc = IF PendingAck(w, s) > 0 THEN "rflush" ELSE "release",
                                   !.val = PendingAck(w, s)]
<1>0. TypeOK /\ TaskStep(w, s)
  BY DEF OrderInv, Inv, TaskStep
<1>1. /\ UNCHANGED <<pc, gone, written, closed, lease, replica, acked>>
      /\ pc[w] = "release" /\ s \in want[w] /\ task' = [task EXCEPT ![w][s] = t]
      /\ want' = [want EXCEPT ![w] = @ \ {s}] /\ pending' = [pending EXCEPT ![w][s] = NoEntry]
  BY DEF ReleaseNext, log, table
<1>t. task[w][s] \in Task /\ pending[w][s] \in Int
  BY <1>0, Types
<1>2. /\ t.pc = (IF pending[w][s] > 0 THEN "rflush" ELSE "release")
      /\ t.val = (IF pending[w][s] > 0 THEN pending[w][s] ELSE 0)
      /\ t.counter = task[w][s].counter
  BY <1>t DEF Task, PendingAck
<1> HIDE DEF t
<1>3. task'[w][s] = t
  BY <1>0, <1>1 DEF TypeOK
<1>4. pending'[w][s] = -1 /\ s \notin want'[w]
  BY <1>0, <1>1 DEF TypeOK, NoEntry
<1>5. /\ TaskShape(w, s) /\ AckedPrefix(s)
      /\ NeverGone => PassFresh(w, s) /\ CompleteRow(s)
  BY OrderAt
<1>6. TaskShape(w, s)'
  BY <1>1, <1>2, <1>3, <1>4, <1>5, <1>t DEF TaskShape
<1>7. PassAhead(w, s)' /\ StaleTombstone(w, s)'
  BY <1>2, <1>3, <1>4 DEF PassAhead, StaleTombstone
<1>8. NeverGone => PassFresh(w, s)'
  BY <1>1, <1>2, <1>3, <1>4, <1>5, <1>t DEF PassFresh, InLock
<1>9. InOrder(w, s)'
  BY <1>1, <1>6, <1>7, <1>8 DEF InOrder, NeverGone
<1>10. AckedPrefix(s)' /\ (NeverGone => CompleteRow(s)')
  BY <1>1, <1>5 DEF AckedPrefix, CompleteRow
<1> QED
  BY <1>0, <1>1, <1>9, <1>10, OrderFrame

LEMMA ReleaseFlushOrder ==
  ASSUME OrderInv, NEW w \in Workers, NEW s \in Shards,
         ReleaseFlush(w, s) \/ ReleaseFlushFault(w, s)
  PROVE  /\ \A s1 \in Shards : RowInOrder(s1)'
         /\ \A w1 \in Workers, s1 \in Shards : InOrder(w1, s1)'
<1>0. TypeOK /\ TaskStep(w, s)
  BY DEF OrderInv, Inv, TaskStep
<1>a. \E ok \in BOOLEAN : task' = [task EXCEPT ![w][s] = ReleaseReady(task[w][s], ok)]
  BY DEF ReleaseFlush, ReleaseFlushFault, Holds
<1> PICK ok \in BOOLEAN : task' = [task EXCEPT ![w][s] = ReleaseReady(task[w][s], ok)]
  BY <1>a
<1> DEFINE t == ReleaseReady(task[w][s], ok)
<1>1. /\ UNCHANGED <<pc, want, gone, written, closed, replica, acked, pending>>
      /\ task[w][s].pc = "rflush" /\ task' = [task EXCEPT ![w][s] = t]
      /\ \/ InLock(w, s) /\ lease' = [lease EXCEPT ![s] = Checkpointed(@, task[w][s].val)]
         \/ lease' = lease
  BY DEF ReleaseFlush, ReleaseFlushFault, log, InLock
<1>t. /\ task[w][s] \in Task /\ pending[w][s] \in Int /\ task[w][s].val \in 0..LastSeq
  BY <1>0, Types
<1>2. t.pc = "release"
  BY <1>t DEF Task, ReleaseReady
<1> HIDE DEF t
<1>3. task'[w][s] = t
  BY <1>0, <1>1 DEF TypeOK
<1>5. /\ TaskShape(w, s) /\ AckedPrefix(s)
      /\ NeverGone => PassFresh(w, s) /\ CompleteRow(s)
  BY OrderAt
<1>4. /\ lease'[s] = lease[s] \/ (lease'[s].owner = w /\ lease'[s].counter = lease[s].counter + 1)
      /\ NeverGone => CompleteRow(s)'
  <2>1. CASE InLock(w, s) /\ lease' # lease
    <3>1. /\ lease'[s].owner = w /\ lease'[s].counter = lease[s].counter + 1
          /\ lease'[s].completed = lease[s].completed
      <4>1. lease' = [lease EXCEPT ![s] = Checkpointed(@, task[w][s].val)]
        BY <1>1, <2>1
      <4> QED
        BY <1>0, <1>t, <2>1, <4>1, CheckpointLock
    <3>2. NeverGone => ~lease[s].completed
      BY <1>1, <1>5, <2>1 DEF PassFresh
    <3> QED
      BY <3>1, <3>2 DEF CompleteRow
  <2>2. CASE lease' = lease
    BY <1>1, <1>5, <2>2 DEF CompleteRow
  <2> QED
    BY <1>1, <2>1, <2>2
<1>6. pc[w] = "release" /\ pending[w][s] <= 0
  BY <1>1, <1>5 DEF TaskShape
<1>7. TaskShape(w, s)'
  BY <1>1, <1>2, <1>3, <1>5, <1>6 DEF TaskShape
<1>8. PassAhead(w, s)' /\ StaleTombstone(w, s)' /\ PassFresh(w, s)'
  BY <1>1, <1>2, <1>3, <1>6 DEF PassAhead, StaleTombstone, PassFresh
<1>9. InOrder(w, s)'
  BY <1>7, <1>8 DEF InOrder
<1>10. AckedPrefix(s)'
  BY <1>1, <1>5 DEF AckedPrefix
<1> QED
  BY <1>0, <1>4, <1>9, <1>10, OrderFrame

LEMMA TaskOrder ==
  ASSUME OrderInv, NEW w \in Workers, NEW s \in Shards, TaskStep(w, s)
  PROVE  /\ \A s1 \in Shards : RowInOrder(s1)'
         /\ \A w1 \in Workers, s1 \in Shards : InOrder(w1, s1)'
<1>1. CASE \/ PassReturns(w, s) \/ DeliverHangs(w, s) \/ DeliverFails(w, s) \/ CheckpointLost(w, s)
           \/ CheckpointFault(w, s) \/ MarkComplete(w, s) \/ LastWriteFault(w, s)
           \/ Release(w, s)
  BY <1>1, StopOrder
<1>2. CASE EmptyEnd(w, s) \/ DeliverAcked(w, s) \/ DeliverUnacked(w, s)
  BY <1>2, EmptyEndOrder, DeliverAckedOrder, DeliverUnackedOrder
<1>3. CASE \/ CheckpointOk(w, s) \/ TakePending(w, s) \/ ReleaseNext(w, s) \/ ReleaseFlush(w, s)
           \/ ReleaseFlushFault(w, s)
  BY <1>3, CheckpointOkOrder, TakePendingOrder, ReleaseNextOrder, ReleaseFlushOrder
<1> QED
  BY <1>1, <1>2, <1>3 DEF TaskStep

-----------------------------------------------------------------------------
(* Steps of a worker *)

\* A step of a worker that leaves the rows alone keeps the order when it does for
\* that worker's tasks.
LEMMA WorkerFrame ==
  ASSUME OrderInv, NEW w \in Workers,
         UNCHANGED <<written, closed, lease, replica, acked>>, NeverGone' => NeverGone,
         \A w1 \in Workers : w1 # w => /\ pc'[w1] = pc[w1] /\ want'[w1] = want[w1]
                                      /\ task'[w1] = task[w1] /\ pending'[w1] = pending[w1],
         \A s \in Shards : InOrder(w, s)'
  PROVE  /\ \A s1 \in Shards : RowInOrder(s1)'
         /\ \A w1 \in Workers, s1 \in Shards : InOrder(w1, s1)'
<1>1. ASSUME NEW s1 \in Shards
      PROVE  RowInOrder(s1)'
  BY DEF OrderInv, RowInOrder, ReplicaBehind, AckedPrefix, CompleteRow
<1>2. ASSUME NEW w1 \in Workers, NEW s1 \in Shards
      PROVE  InOrder(w1, s1)'
  <2>1. CASE w1 = w
    BY <2>1
  <2>2. CASE w1 # w
    <3>1. InOrder(w1, s1)
      BY DEF OrderInv
    <3> QED
      BY <2>2, <3>1 DEF InOrder, TaskShape, PassAhead, PassFresh, StaleTombstone, InLock
  <2> QED
    BY <2>1, <2>2
<1> QED
  BY <1>1, <1>2

\* A worker without a task on s is in order, unless it is to release s.
LEMMA QuietOrder ==
  ASSUME OrderInv, NEW w \in Workers, NEW s \in Shards,
         UNCHANGED <<lease, replica>>, NeverGone' => NeverGone,
         task'[w][s].pc = "off", pc'[w] # "release",
         pending'[w][s] \in {pending[w][s], NoEntry}
  PROVE  InOrder(w, s)'
<1>1. TypeOK /\ TaskShape(w, s) /\ (NeverGone => StaleTombstone(w, s))
  BY OrderAt
<1>2. NoEntry <= 0
  BY DEF NoEntry
<1>3. TaskShape(w, s)'
  BY <1>1, <1>2 DEF TaskShape
<1>4. PassAhead(w, s)' /\ PassFresh(w, s)'
  BY DEF PassAhead, PassFresh
<1>5. NeverGone => StaleTombstone(w, s)'
  BY <1>1, <1>2 DEF StaleTombstone
<1> QED
  BY <1>3, <1>4, <1>5 DEF InOrder

LEMMA QuietCycleOrder ==
  ASSUME OrderInv, NEW w \in Workers,
         \/ Decide(w) \/ EndCycle(w) \/ ReleaseDone(w) \/ Crash(w)
         \/ \E s \in Shards : AcquireGet(w, s)
  PROVE  /\ \A s1 \in Shards : RowInOrder(s1)'
         /\ \A w1 \in Workers, s1 \in Shards : InOrder(w1, s1)'
<1>0. TypeOK /\ TasksInPhase
  BY DEF OrderInv, Inv
<1>1. UNCHANGED <<written, closed, lease, replica, acked, gone>>
  BY DEF Decide, EndCycle, ReleaseDone, Crash, AcquireGet, log, table
<1>2. NeverGone' => NeverGone
  BY <1>1 DEF NeverGone
<1>3. \A w1 \in Workers : w1 # w => /\ pc'[w1] = pc[w1] /\ want'[w1] = want[w1]
                                   /\ task'[w1] = task[w1] /\ pending'[w1] = pending[w1]
  BY <1>0 DEF Decide, EndCycle, ReleaseDone, Crash, AcquireGet, TypeOK
<1>4. ASSUME NEW s \in Shards
      PROVE  /\ task'[w][s].pc = "off" /\ pc'[w] # "release"
             /\ pending'[w][s] \in {pending[w][s], NoEntry}
  <2>1. CASE Decide(w) \/ \E s1 \in Shards : AcquireGet(w, s1)
    BY <1>0, <2>1 DEF Decide, AcquireGet, TypeOK, TasksInPhase
  <2>2. CASE EndCycle(w)
    BY <1>0, <2>2 DEF EndCycle, TypeOK
  <2>3. CASE ReleaseDone(w)
    BY <1>0, <2>3 DEF ReleaseDone, TypeOK
  <2>4. CASE Crash(w)
    BY <1>0, <2>4, OffFields DEF Crash, TypeOK
  <2> QED
    BY <2>1, <2>2, <2>3, <2>4
<1>5. \A s \in Shards : InOrder(w, s)'
  BY <1>1, <1>2, <1>4, QuietOrder
<1> QED
  BY <1>1, <1>2, <1>3, <1>5, WorkerFrame

\* A client that vanishes, or the new one of a restarted process.
LEMMA ClientOrder ==
  ASSUME OrderInv, NEW w \in Workers, ClientVanish(w) \/ Restart(w)
  PROVE  /\ \A s1 \in Shards : RowInOrder(s1)'
         /\ \A w1 \in Workers, s1 \in Shards : InOrder(w1, s1)'
<1>0. TypeOK /\ TasksInPhase /\ CompletedUnlessGone
  BY DEF OrderInv, Inv
<1>1. UNCHANGED <<written, closed, lease, replica, acked, want, task, pending>>
  BY DEF ClientVanish, Restart, log, table
<1>2. NeverGone' => NeverGone
  <2>1. CASE ClientVanish(w)
    BY <1>0, <2>1 DEF ClientVanish, NeverGone, TypeOK
  <2>2. CASE Restart(w)
    <3>1. ClientsStay => ~ClientMayVanish
      BY <1>0, <2>2, FleetAssumption DEF FleetAssumption, Restart, ClientsStay, TypeOK
    <3> QED
      BY <1>0, <3>1 DEF CompletedUnlessGone, NeverGone
  <2> QED
    BY <2>1, <2>2
<1>3. CASE ClientVanish(w)
  <2>1. pc' = pc
    BY <1>3 DEF ClientVanish
  <2>2. \A s \in Shards : InOrder(w, s)'
    BY <1>1, <1>2, <2>1
       DEF OrderInv, InOrder, TaskShape, PassAhead, PassFresh, StaleTombstone, InLock
  <2> QED
    BY <1>1, <1>2, <2>1, <2>2, WorkerFrame
<1>4. CASE Restart(w)
  <2>1. /\ pc[w] = "down" /\ pc'[w] = "idle"
        /\ \A w1 \in Workers : w1 # w => pc'[w1] = pc[w1]
    BY <1>0, <1>4 DEF Restart, TypeOK
  <2>2. \A s \in Shards : task[w][s].pc = "off"
    BY <1>0, <2>1 DEF TasksInPhase
  <2>3. \A s \in Shards : InOrder(w, s)'
    BY <1>1, <1>2, <2>1, <2>2, QuietOrder
  <2> QED
    BY <1>1, <1>2, <2>1, <2>3, WorkerFrame
<1> QED
  BY <1>3, <1>4

\* Claiming: the worker has no tasks then, the owner before is out of lock, and the
\* replica has an older counter.
LEMMA ClaimOrder ==
  ASSUME OrderInv, NEW w \in Workers, Claim(w)
  PROVE  /\ \A s1 \in Shards : RowInOrder(s1)'
         /\ \A w1 \in Workers, s1 \in Shards : InOrder(w1, s1)'
<1> DEFINE s == seen[w].shard
<1>0. TypeOK /\ TasksInPhase
  BY DEF OrderInv, Inv
<1>1. /\ UNCHANGED <<written, closed, replica, acked, gone, pc, want, task, pending>>
      /\ pc[w] = "take"
      /\ lease' = lease \/ lease' = [lease EXCEPT ![s] = Claimed(@, w)]
  BY DEF Claim, log
<1>2. s \in Shards
  BY <1>0 DEF TypeOK, Claim
<1> HIDE DEF s
<1>3. NeverGone' <=> NeverGone
  BY <1>1 DEF NeverGone
<1>4. \A s1 \in Shards : task[w][s1].pc = "off"
  BY <1>0, <1>1 DEF TasksInPhase
<1>5. \A s1 \in Shards :
        \/ lease'[s1] = lease[s1]
        \/ /\ lease'[s1].owner = w /\ lease'[s1].counter = lease[s1].counter + 1
           /\ lease'[s1].checkpoint = lease[s1].checkpoint
           /\ lease'[s1].completed = lease[s1].completed
  <2>1. \A s1 \in Shards : lease'[s1] = lease[s1] \/ lease'[s1] = Claimed(lease[s1], w)
    BY <1>0, <1>1, <1>2 DEF TypeOK
  <2>2. ASSUME NEW s1 \in Shards
        PROVE  /\ Claimed(lease[s1], w).owner = w
               /\ Claimed(lease[s1], w).counter = lease[s1].counter + 1
               /\ Claimed(lease[s1], w).checkpoint = lease[s1].checkpoint
               /\ Claimed(lease[s1], w).completed = lease[s1].completed
    <3>1. lease[s1] \in Row
      BY <1>0, RowFields
    <3> QED
      BY <3>1 DEF Claimed, Row
  <2> QED
    BY <2>1, <2>2
<1>6. ASSUME NEW s1 \in Shards
      PROVE  RowInOrder(s1)'
  <2>1. RowInOrder(s1) /\ lease[s1].counter \in Nat /\ replica[s1].counter \in Nat
    BY <1>0, RowFields DEF OrderInv
  <2>2. ReplicaBehind(s1)'
    BY <1>1, <1>5, <2>1 DEF RowInOrder, ReplicaBehind
  <2> QED
    BY <1>1, <1>3, <1>5, <2>1, <2>2 DEF RowInOrder, AckedPrefix, CompleteRow
<1>7. ASSUME NEW w1 \in Workers, NEW s1 \in Shards
      PROVE  InOrder(w1, s1)'
  <2>1. InOrder(w1, s1) /\ ReplicaBehind(s1)
    BY DEF OrderInv, RowInOrder
  <2>2. TaskShape(w1, s1)'
    BY <1>1, <2>1 DEF InOrder, TaskShape
  <2>3. CASE lease'[s1] = lease[s1]
    BY <1>1, <1>3, <2>1, <2>2, <2>3
       DEF InOrder, PassAhead, PassFresh, StaleTombstone, InLock
  <2>4. CASE lease'[s1].owner = w /\ lease'[s1].counter = lease[s1].counter + 1
    <3>1. PassAhead(w1, s1)' /\ PassFresh(w1, s1)'
      <4>1. CASE w1 = w
        BY <1>1, <1>4, <4>1 DEF PassAhead, PassFresh
      <4>2. CASE w1 # w
        BY <2>4, <4>2 DEF PassAhead, PassFresh, InLock, Holds
      <4> QED
        BY <4>1, <4>2
    <3>2. replica'[s1].counter # lease'[s1].counter
      BY <1>0, <1>1, <2>1, <2>4, RowFields DEF ReplicaBehind
    <3>3. StaleTombstone(w1, s1)'
      BY <3>2 DEF StaleTombstone
    <3> QED
      BY <2>2, <3>1, <3>3 DEF InOrder
  <2> QED
    BY <1>5, <2>3, <2>4
<1> QED
  BY <1>6, <1>7

\* A pass starts from a row of a scan: in lock, its position is the pending ack, or
\* that of the row itself.
LEMMA StartOrder ==
  ASSUME OrderInv, NEW w \in Workers, NEW s \in Shards, NEW v \in Views, s \in Owned(w, v),
         UNCHANGED <<lease, replica, gone>>, pc'[w] = "run",
         task'[w][s] = StartTask(w, s, v[s]), pending'[w][s] = pending[w][s]
  PROVE  InOrder(w, s)'
<1>0. /\ TypeOK /\ TaskShape(w, s) /\ ReplicaBehind(s)
      /\ NeverGone => StaleTombstone(w, s)
  BY OrderAt
<1>t. /\ pending[w][s] \in Int /\ lease[s].checkpoint \in 0..LastSeq
  BY <1>0, Types
<1>1. /\ task'[w][s].pc = "deliver" /\ task'[w][s].counter = v[s].counter
      /\ task'[w][s].after = (IF pending[w][s] > 0 THEN pending[w][s] ELSE v[s].checkpoint)
  BY DEF StartTask, ResumeFrom, PendingAck, Off
<1>2. ~v[s].completed /\ (v[s] = lease[s] \/ v[s] = replica[s])
  BY ViewRows DEF Owned
<1>3. InLock(w, s)' =>
        /\ v[s].checkpoint = lease[s].checkpoint
        /\ lease[s].completed => /\ lease[s].owner = w /\ replica[s].counter = lease[s].counter
                                 /\ ~replica[s].completed
  BY <1>0, <1>1, <1>2, ViewInLock DEF InLock
<1>4. TaskShape(w, s)'
  BY <1>0, <1>1 DEF TaskShape
<1>5. PassAhead(w, s)'
  BY <1>0, <1>1, <1>3, <1>t DEF PassAhead, TaskShape
<1>6. NeverGone => PassFresh(w, s)'
  BY <1>0, <1>1, <1>3, <1>t DEF PassFresh, StaleTombstone
<1>7. NeverGone => StaleTombstone(w, s)'
  BY <1>0, <1>1, <1>2 DEF StaleTombstone
<1> QED
  BY <1>4, <1>5, <1>6, <1>7 DEF InOrder, NeverGone

LEMMA ReadOwnedOrder ==
  ASSUME OrderInv, NEW w \in Workers, ReadOwned(w)
  PROVE  /\ \A s1 \in Shards : RowInOrder(s1)'
         /\ \A w1 \in Workers, s1 \in Shards : InOrder(w1, s1)'
<1>0. TypeOK /\ TasksInPhase
  BY DEF OrderInv, Inv
<1>1. UNCHANGED <<written, closed, lease, replica, acked, gone, want>> /\ pc[w] = "take"
  BY DEF ReadOwned, log, table
<1>2. NeverGone' => NeverGone
  BY <1>1 DEF NeverGone
<1>3. PICK v \in Views :
        /\ pending' = [pending EXCEPT ![w] =
             [s \in Shards |-> IF s \in Owned(w, v) THEN @[s] ELSE NoEntry]]
        /\ \/ pc' = [pc EXCEPT ![w] = "down"] /\ UNCHANGED task
           \/ /\ pc' = [pc EXCEPT ![w] = "run"]
              /\ task' = [task EXCEPT ![w] =
                   [s \in Shards |-> IF s \in Owned(w, v) THEN StartTask(w, s, v[s]) ELSE Off]]
  BY DEF ReadOwned
<1>4. \A w1 \in Workers : w1 # w => /\ pc'[w1] = pc[w1] /\ want'[w1] = want[w1]
                                   /\ task'[w1] = task[w1] /\ pending'[w1] = pending[w1]
  BY <1>0, <1>1, <1>3 DEF TypeOK
<1>5. \A s \in Shards : pending'[w][s] = IF s \in Owned(w, v) THEN pending[w][s] ELSE NoEntry
  BY <1>0, <1>3 DEF TypeOK
<1>6. ASSUME NEW s \in Shards
      PROVE  InOrder(w, s)'
  <2>1. CASE pc' = [pc EXCEPT ![w] = "down"] /\ UNCHANGED task
    <3>1. task'[w][s].pc = "off" /\ pc'[w] = "down"
      BY <1>0, <1>1, <2>1 DEF TypeOK, TasksInPhase
    <3> QED
      BY <1>1, <1>2, <1>5, <3>1, QuietOrder
  <2>2. CASE /\ pc' = [pc EXCEPT ![w] = "run"]
             /\ task' = [task EXCEPT ![w] =
                  [s1 \in Shards |-> IF s1 \in Owned(w, v) THEN StartTask(w, s1, v[s1]) ELSE Off]]
    <3>1. /\ pc'[w] = "run"
          /\ task'[w][s] = IF s \in Owned(w, v) THEN StartTask(w, s, v[s]) ELSE Off
      BY <1>0, <2>2 DEF TypeOK
    <3>2. CASE s \in Owned(w, v)
      BY <1>1, <1>5, <3>1, <3>2, StartOrder
    <3>3. CASE s \notin Owned(w, v)
      BY <1>1, <1>2, <1>5, <3>1, <3>3, OffFields, QuietOrder
    <3> QED
      BY <3>2, <3>3
  <2> QED
    BY <1>3, <2>1, <2>2
<1> QED
  BY <1>1, <1>2, <1>4, <1>6, WorkerFrame

\* A stop: the counters come from a scan too, so a lease that is in lock and complete
\* has nothing pending.
LEMMA StopRequestedOrder ==
  ASSUME OrderInv, NEW w \in Workers, StopRequested(w)
  PROVE  /\ \A s1 \in Shards : RowInOrder(s1)'
         /\ \A w1 \in Workers, s1 \in Shards : InOrder(w1, s1)'
<1>0. TypeOK
  BY DEF OrderInv, Inv
<1>1. UNCHANGED <<written, closed, lease, replica, acked, gone, pending>>
  BY DEF StopRequested, log, table
<1>2. NeverGone' => NeverGone
  BY <1>1 DEF NeverGone
<1>3. PICK v \in Views :
        /\ want' = [want EXCEPT ![w] = Owned(w, v)]
        /\ task' = [task EXCEPT ![w] =
             [s \in Shards |-> IF s \in Owned(w, v) THEN [Off EXCEPT !.counter = v[s].counter]
                               ELSE Off]]
  BY DEF StopRequested
<1>4. \A w1 \in Workers : w1 # w => /\ pc'[w1] = pc[w1] /\ want'[w1] = want[w1]
                                   /\ task'[w1] = task[w1] /\ pending'[w1] = pending[w1]
  BY <1>0, <1>1, <1>3 DEF TypeOK, StopRequested
<1>5. ASSUME NEW s \in Shards
      PROVE  InOrder(w, s)'
  <2>1. /\ TaskShape(w, s) /\ ReplicaBehind(s) /\ (NeverGone => StaleTombstone(w, s))
    BY OrderAt
  <2>2. /\ task'[w][s].pc = "off" /\ want'[w] = Owned(w, v)
        /\ s \in Owned(w, v) => task'[w][s].counter = v[s].counter
    BY <1>0, <1>3 DEF TypeOK, Off
  <2>3. TaskShape(w, s)'
    BY <1>1, <2>1, <2>2 DEF TaskShape
  <2>4. PassAhead(w, s)'
    BY <2>2 DEF PassAhead
  <2>5. NeverGone => StaleTombstone(w, s)'
    BY <1>1, <2>1, <2>2 DEF StaleTombstone
  <2>6. ASSUME NeverGone
        PROVE  PassFresh(w, s)'
    <3> SUFFICES ASSUME InLock(w, s)', s \in Owned(w, v), lease[s].completed
                 PROVE  pending[w][s] <= 0
      BY <1>1, <2>2 DEF PassFresh
    <3>1. Holds(lease[s], w, v[s].counter) /\ ~v[s].completed
      BY <1>1, <2>2 DEF InLock, Owned
    <3>2. lease[s].owner = w /\ replica[s].counter = lease[s].counter /\ ~replica[s].completed
      BY <2>1, <3>1, ViewInLock
    <3> QED
      BY <2>1, <2>6, <3>2 DEF StaleTombstone
  <2> QED
    BY <1>2, <2>3, <2>4, <2>5, <2>6 DEF InOrder
<1> QED
  BY <1>1, <1>2, <1>4, <1>5, WorkerFrame

LEMMA StreamOrder ==
  ASSUME OrderInv, NEW s \in Shards, StreamStep(s)
  PROVE  /\ \A s1 \in Shards : RowInOrder(s1)'
         /\ \A w1 \in Workers, s1 \in Shards : InOrder(w1, s1)'
<1>0. TypeOK
  BY DEF OrderInv, Inv
<1>1. UNCHANGED <<lease, acked, pc, want, task, pending, gone>>
  BY DEF StreamStep, Produce, CloseShard, Replicate, table
<1>2. \A s1 \in Shards : replica'[s1] = replica[s1] \/ replica'[s1] = lease[s1]
  BY <1>0 DEF StreamStep, Produce, CloseShard, Replicate, table, TypeOK
<1>3. \A s1 \in Shards : closed[s1] => closed'[s1] /\ written'[s1] = written[s1]
  BY <1>0 DEF StreamStep, Produce, CloseShard, Replicate, log, TypeOK
<1>4. NeverGone' <=> NeverGone
  BY <1>1 DEF NeverGone
<1>5. ASSUME NEW s1 \in Shards
      PROVE  RowInOrder(s1)'
  <2>1. RowInOrder(s1) /\ lease[s1].counter \in Nat
    BY <1>0, RowFields DEF OrderInv
  <2>2. ReplicaBehind(s1)'
    BY <1>1, <1>2, <2>1 DEF RowInOrder, ReplicaBehind
  <2>3. AckedPrefix(s1)'
    BY <1>1, <2>1 DEF RowInOrder, AckedPrefix
  <2>4. NeverGone => CompleteRow(s1)'
    BY <1>1, <1>3, <2>1 DEF RowInOrder, CompleteRow
  <2> QED
    BY <1>4, <2>2, <2>3, <2>4 DEF RowInOrder
<1>6. ASSUME NEW w1 \in Workers, NEW s1 \in Shards
      PROVE  InOrder(w1, s1)'
  <2>1. InOrder(w1, s1)
    BY DEF OrderInv
  <2>2. TaskShape(w1, s1)' /\ PassAhead(w1, s1)'
    BY <1>1, <2>1 DEF InOrder, TaskShape, PassAhead, InLock
  <2>3. NeverGone => PassFresh(w1, s1)' /\ StaleTombstone(w1, s1)'
    BY <1>1, <1>2, <2>1 DEF InOrder, PassFresh, StaleTombstone, InLock
  <2> QED
    BY <1>4, <2>2, <2>3 DEF InOrder
<1> QED
  BY <1>5, <1>6

LEMMA InitOrder == Init => OrderInv
<1> SUFFICES ASSUME Init PROVE OrderInv
  OBVIOUS
<1>1. Inv
  BY InitInv
<1>2. \A s \in Shards : /\ lease[s] = replica[s] /\ lease[s].counter = 0 /\ ~lease[s].completed
                        /\ acked[s] = 1..0
  BY DEF Init, Published
<1>3. \A w \in Workers, s \in Shards : /\ task[w][s].pc = "off" /\ pending[w][s] = -1
                                       /\ pc[w] = "idle"
  BY DEF Init, Off, NoEntry
<1>4. ASSUME NEW s \in Shards
      PROVE  RowInOrder(s)
  <2>1. 0 \in 0..LastSeq
    BY FleetAssumption DEF FleetAssumption
  <2>2. AckedPrefix(s)
    BY <1>2, <2>1 DEF AckedPrefix
  <2>3. ReplicaBehind(s) /\ CompleteRow(s)
    BY <1>2 DEF ReplicaBehind, CompleteRow
  <2> QED
    BY <2>2, <2>3 DEF RowInOrder
<1>5. ASSUME NEW w \in Workers, NEW s \in Shards
      PROVE  InOrder(w, s)
  BY <1>2, <1>3 DEF InOrder, TaskShape, PassAhead, PassFresh, StaleTombstone
<1> QED
  BY <1>1, <1>4, <1>5 DEF OrderInv

LEMMA StepOrder ==
  ASSUME OrderInv, [Next]_vars
  PROVE  OrderInv'
<1>0. Inv'
  BY StepInv DEF OrderInv
<1> SUFFICES /\ \A s1 \in Shards : RowInOrder(s1)'
             /\ \A w1 \in Workers, s1 \in Shards : InOrder(w1, s1)'
  BY <1>0 DEF OrderInv
<1>1. CASE UNCHANGED vars
  <2>1. UNCHANGED <<written, closed, lease, replica, acked, pc, want, task, pending, gone>>
    BY <1>1 DEF vars, log, table
  <2>2. ASSUME NEW s1 \in Shards
        PROVE  RowInOrder(s1)'
    BY <2>1 DEF OrderInv, RowInOrder, ReplicaBehind, AckedPrefix, CompleteRow, NeverGone
  <2>3. ASSUME NEW w1 \in Workers, NEW s1 \in Shards
        PROVE  InOrder(w1, s1)'
    BY <2>1 DEF OrderInv, InOrder, TaskShape, PassAhead, PassFresh, StaleTombstone, InLock, NeverGone
  <2> QED
    BY <2>2, <2>3
<1>2. CASE \E s \in Shards : StreamStep(s)
  BY <1>2, StreamOrder
<1>3. CASE \E w \in Workers : CycleStep(w) \/ Crash(w)
  BY <1>3, QuietCycleOrder, ClaimOrder, ReadOwnedOrder DEF CycleStep
<1>4. CASE \E w \in Workers : StopRequested(w) \/ ClientVanish(w) \/ Restart(w)
  BY <1>4, StopRequestedOrder, ClientOrder
<1>5. CASE \E w \in Workers, s \in Shards : TaskStep(w, s)
  BY <1>5, TaskOrder
<1> QED
  BY <1>1, <1>2, <1>3, <1>4, <1>5 DEF Next

\* In every state, a pass in lock stands where its row does.
THEOREM Ordered == Spec => []OrderInv
<1>1. Init => OrderInv
  BY InitOrder
<1>2. OrderInv /\ [Next]_vars => OrderInv'
  BY StepOrder
<1> QED
  BY <1>1, <1>2, PTL DEF Spec

-----------------------------------------------------------------------------
(* What a step may do to a row *)

\* The steps that change what a row says of the log: a checkpoint in lock, and a
\* mark_complete in lock.
RowKept(s) ==
  lease'[s].checkpoint = lease[s].checkpoint /\ lease'[s].completed = lease[s].completed
RowPersisted(w, s) ==
  /\ InLock(w, s) /\ task[w][s].pc \in {"ckpt", "flush", "rflush"}
  /\ lease' = [lease EXCEPT ![s] = Checkpointed(@, task[w][s].val)]
RowCompleted(w, s) ==
  /\ InLock(w, s) /\ task[w][s].pc = "finish"
  /\ lease' = [lease EXCEPT ![s] = Completed(@)]

LEMMA TaskRows ==
  ASSUME OrderInv, NEW w \in Workers, NEW s \in Shards, TaskStep(w, s)
  PROVE  (\A s1 \in Shards : RowKept(s1)) \/ RowPersisted(w, s) \/ RowCompleted(w, s)
<1>0. TypeOK
  BY DEF OrderInv, Inv
<1>1. CASE \/ CheckpointOk(w, s) \/ CheckpointFault(w, s) \/ ReleaseFlush(w, s)
           \/ ReleaseFlushFault(w, s)
  BY <1>1 DEF CheckpointOk, CheckpointFault, ReleaseFlush, ReleaseFlushFault, RowKept, RowPersisted,
              InLock
<1>2. CASE MarkComplete(w, s)
  BY <1>2 DEF MarkComplete, RowKept, RowCompleted, InLock
<1>3. CASE Release(w, s)
  <2>1. \A s1 \in Shards : lease'[s1] = lease[s1] \/ lease'[s1] = Released(lease[s1])
    BY <1>0, <1>3 DEF Release, TypeOK
  <2>2. ASSUME NEW s1 \in Shards
        PROVE  /\ Released(lease[s1]).checkpoint = lease[s1].checkpoint
               /\ Released(lease[s1]).completed = lease[s1].completed
    <3>1. lease[s1] \in Row
      BY <1>0, RowFields
    <3> QED
      BY <3>1 DEF Released, Row
  <2> QED
    BY <2>1, <2>2 DEF RowKept
<1>4. CASE lease' = lease
  BY <1>4 DEF RowKept
<1> QED
  BY <1>1, <1>2, <1>3, <1>4 DEF TaskStep, PassReturns, EmptyEnd, DeliverAcked, DeliverUnacked,
       DeliverHangs, DeliverFails, CheckpointLost, TakePending, LastWriteFault, ReleaseNext, table

LEMMA RowSteps ==
  ASSUME OrderInv, [Next]_vars
  PROVE  \/ \A s \in Shards : RowKept(s)
         \/ \E w \in Workers, s \in Shards : RowPersisted(w, s) \/ RowCompleted(w, s)
<1>0. TypeOK
  BY DEF OrderInv, Inv
<1>1. CASE \E w \in Workers, s \in Shards : TaskStep(w, s)
  BY <1>1, TaskRows
<1>2. ASSUME NEW w \in Workers, Claim(w)
      PROVE  \A s \in Shards : RowKept(s)
  <2>1. \A s \in Shards : lease'[s] = lease[s] \/ lease'[s] = Claimed(lease[s], w)
    BY <1>0, <1>2 DEF Claim, TypeOK
  <2>2. ASSUME NEW s \in Shards
        PROVE  /\ Claimed(lease[s], w).checkpoint = lease[s].checkpoint
               /\ Claimed(lease[s], w).completed = lease[s].completed
    <3>1. lease[s] \in Row
      BY <1>0, RowFields
    <3> QED
      BY <3>1 DEF Claimed, Row
  <2> QED
    BY <2>1, <2>2 DEF RowKept
<1>3. CASE lease' = lease
  BY <1>3 DEF RowKept
<1> QED
  BY <1>1, <1>2, <1>3 DEF Next, StreamStep, Produce, CloseShard, Replicate, CycleStep, Decide,
       ReadOwned, EndCycle, ReleaseDone, AcquireGet, StopRequested, ClientVanish, Crash, Restart,
       table, vars

\* Checkpointing every batch (checkpoint_interval_ms = 0), no step moves a durable
\* position back: neither a displaced owner, nor a handle read from a stale scan, nor a
\* lost reply, nor a pass whose client is gone.
THEOREM PerBatchNeverRegresses ==
  ASSUME CheckpointInterval = 0
  PROVE  Spec => DurableNeverRegresses
<1>1. OrderInv /\ [Next]_vars
        => [\A s \in Shards : lease'[s].checkpoint >= lease[s].checkpoint]_vars
  <2> SUFFICES ASSUME OrderInv, [Next]_vars, NEW s \in Shards
               PROVE  lease'[s].checkpoint >= lease[s].checkpoint
    OBVIOUS
  <2>0. TypeOK /\ ~Defer /\ lease[s].checkpoint \in 0..LastSeq
    BY RowFields DEF OrderInv, Inv, Defer
  <2>1. CASE RowKept(s)
    BY <2>0, <2>1 DEF RowKept
  <2>2. ASSUME NEW w \in Workers, NEW s1 \in Shards, RowPersisted(w, s1)
        PROVE  lease'[s].checkpoint >= lease[s].checkpoint
    <3>1. /\ TaskShape(w, s1) /\ PassAhead(w, s1) /\ InLock(w, s1)
          /\ task[w][s1].pc \in {"ckpt", "flush", "rflush"}
      BY <2>2, OrderAt DEF RowPersisted
    <3>2. task[w][s1].val = task[w][s1].after /\ lease[s1].checkpoint <= task[w][s1].after
      BY <2>0, <3>1 DEF TaskShape, PassAhead
    <3>3. /\ lease'[s1].checkpoint = task[w][s1].val
          /\ s # s1 => lease'[s] = lease[s]
      BY <2>0, <2>2, Types, CheckpointRow DEF RowPersisted
    <3> QED
      BY <2>0, <3>2, <3>3, Types
  <2>3. ASSUME NEW w \in Workers, NEW s1 \in Shards, RowCompleted(w, s1)
        PROVE  lease'[s].checkpoint >= lease[s].checkpoint
    <3>1. lease'[s] = lease[s] \/ lease'[s] = Completed(lease[s])
      BY <2>0, <2>3 DEF RowCompleted, TypeOK
    <3>2. lease[s] \in Row
      BY <2>0, RowFields
    <3>3. Completed(lease[s]).checkpoint = lease[s].checkpoint
      BY <3>2 DEF Completed, Row
    <3> QED
      BY <2>0, <3>1, <3>3
  <2> QED
    BY <2>1, <2>2, <2>3, RowSteps
<1> QED
  BY <1>1, Ordered, PTL DEF Spec, DurableNeverRegresses

\* With consumers that cannot go away, and however acks are deferred: mark_complete
\* leaves the optimistic lock where it was, and still nothing moves a completed row's
\* checkpoint or reopens it.
THEOREM CompletedStays ==
  ASSUME ~ClientMayVanish
  PROVE  Spec => CompletedIsFinal
<1>1. OrderInv /\ [Next]_vars
        => [\A s \in Shards : lease[s].completed =>
              lease'[s].completed /\ lease'[s].checkpoint = lease[s].checkpoint]_vars
  <2> SUFFICES ASSUME OrderInv, [Next]_vars, NEW s \in Shards, lease[s].completed
               PROVE  lease'[s].completed /\ lease'[s].checkpoint = lease[s].checkpoint
    OBVIOUS
  <2>0. TypeOK /\ NeverGone
    BY DEF OrderInv, Inv, CompletedUnlessGone, NeverGone, ClientsStay
  <2>1. CASE RowKept(s)
    BY <2>1 DEF RowKept
  <2>2. ASSUME NEW w \in Workers, NEW s1 \in Shards, RowPersisted(w, s1)
        PROVE  lease'[s] = lease[s]
    <3>1. ~lease[s1].completed
      BY <2>0, <2>2, OrderAt DEF PassFresh, RowPersisted
    <3> QED
      BY <2>0, <2>2, <3>1 DEF RowPersisted, TypeOK
  <2>3. ASSUME NEW w \in Workers, NEW s1 \in Shards, RowCompleted(w, s1)
        PROVE  lease'[s].completed /\ lease'[s].checkpoint = lease[s].checkpoint
    <3>1. lease'[s] = lease[s] \/ lease'[s] = Completed(lease[s])
      BY <2>0, <2>3 DEF RowCompleted, TypeOK
    <3>2. lease[s] \in Row
      BY <2>0, RowFields
    <3>3. Completed(lease[s]).checkpoint = lease[s].checkpoint /\ Completed(lease[s]).completed
      BY <3>2 DEF Completed, Row
    <3> QED
      BY <3>1, <3>3
  <2> QED
    BY <2>1, <2>2, <2>3, RowSteps
<1> QED
  BY <1>1, Ordered, PTL DEF Spec, CompletedIsFinal

-----------------------------------------------------------------------------
(* The refinement of ShardLog *)

LEMMA LogInit == Init => Log!Init
<1> SUFFICES ASSUME Init PROVE Log!Init
  OBVIOUS
<1>1. \A s \in Shards : lease[s].checkpoint = 0 /\ lease[s].completed = FALSE
  BY DEF Init, Published, TrimHorizon
<1>2. /\ [s \in Shards |-> lease[s].checkpoint] = [s \in Shards |-> 0]
      /\ [s \in Shards |-> lease[s].completed] = [s \in Shards |-> FALSE]
  BY <1>1
<1> QED
  BY <1>2 DEF Init, Log!Init

\* The steps that are invisible to the log.
LEMMA LogStutter ==
  ASSUME UNCHANGED <<written, closed, acked>>, \A s \in Shards : RowKept(s)
  PROVE  UNCHANGED Log!vars
<1>1. /\ [s \in Shards |-> lease'[s].checkpoint] = [s \in Shards |-> lease[s].checkpoint]
      /\ [s \in Shards |-> lease'[s].completed] = [s \in Shards |-> lease[s].completed]
  BY DEF RowKept
<1> QED
  BY <1>1 DEF Log!vars

\* A checkpoint in lock persists a handled position of an unfinished shard.
LEMMA LogPersist ==
  ASSUME OrderInv, NeverGone, NEW w \in Workers, NEW s \in Shards, RowPersisted(w, s),
         UNCHANGED <<written, closed, acked>>
  PROVE  Log!Persist(s)
<1> DEFINE n == task[w][s].val
<1>0. TypeOK
  BY DEF OrderInv, Inv
<1>1. n \in 0..LastSeq /\ n > 0 /\ ~lease[s].completed /\ UpTo(acked[s], n)
  <2>1. TaskShape(w, s) /\ PassFresh(w, s)
    BY OrderAt
  <2> QED
    BY <1>0, <2>1, Types, InvAt DEF RowPersisted, TaskShape, PassFresh, OrderInv
<1>2. n \in acked[s]
  BY <1>1 DEF UpTo
<1>3. lease' = [lease EXCEPT ![s] = Checkpointed(@, n)]
  BY DEF RowPersisted
<1> HIDE DEF n
<1>4. /\ \A s1 \in Shards : s1 # s => lease'[s1] = lease[s1]
      /\ lease'[s].checkpoint = n /\ lease'[s].completed = lease[s].completed
  BY <1>0, <1>1, <1>3, CheckpointRow
<1>5. /\ [x \in Shards |-> lease'[x].checkpoint]
             = [[x \in Shards |-> lease[x].checkpoint] EXCEPT ![s] = n]
      /\ [x \in Shards |-> lease'[x].completed] = [x \in Shards |-> lease[x].completed]
  BY <1>4
<1> QED
  BY <1>1, <1>2, <1>5 DEF Log!Persist

\* mark_complete in lock finishes a closed shard of which everything was handled.
LEMMA LogFinish ==
  ASSUME OrderInv, NeverGone, NEW w \in Workers, NEW s \in Shards, RowCompleted(w, s),
         UNCHANGED <<written, closed, acked>>
  PROVE  Log!Finish(s)
<1>0. TypeOK
  BY DEF OrderInv, Inv
<1>1. closed[s] /\ acked[s] = 1..written[s]
  <2>1. /\ task[w][s].end /\ closed[s] /\ task[w][s].after = written[s] /\ ~gone[w]
        /\ UpTo(acked[s], task[w][s].after) /\ acked[s] \subseteq 1..written[s]
    BY InvAt DEF OrderInv, NeverGone, RowCompleted
  <2> QED
    BY <2>1 DEF UpTo
<1>2. /\ \A s1 \in Shards : s1 # s => lease'[s1] = lease[s1]
      /\ lease'[s].checkpoint = lease[s].checkpoint /\ lease'[s].completed = TRUE
  BY <1>0 DEF RowCompleted, Completed, TypeOK, Row
<1>3. /\ [x \in Shards |-> lease'[x].completed]
             = [[x \in Shards |-> lease[x].completed] EXCEPT ![s] = TRUE]
      /\ [x \in Shards |-> lease'[x].checkpoint] = [x \in Shards |-> lease[x].checkpoint]
  BY <1>2
<1> QED
  BY <1>1, <1>3 DEF Log!Finish

\* An acknowledged batch extends the handled prefix, or repeats a part of it.
LEMMA LogHandle ==
  ASSUME OrderInv, NEW w \in Workers, NEW s \in Shards, DeliverAcked(w, s)
  PROVE  Log!Handle(s)
<1>0. TypeOK /\ UNCHANGED <<written, closed, lease>> /\ ~gone[w]
  BY DEF OrderInv, Inv, DeliverAcked, log, table
<1>t. task[w][s].after \in 0..LastSeq /\ written[s] \in 0..LastSeq
  BY <1>0, Types
<1>1. PICK hi \in task[w][s].after + 1 .. written[s] :
         acked' = [acked EXCEPT ![s] = @ \cup (task[w][s].after + 1 .. hi)]
  BY DEF DeliverAcked, Deliver
<1>2. PICK k \in 0..LastSeq : acked[s] = 1..k
  BY OrderAt DEF AckedPrefix
<1>3. task[w][s].after <= k /\ k <= written[s]
  <2>1. UpTo(1..k, task[w][s].after) /\ 1..k \subseteq 1..written[s]
    BY <1>0, <1>2, InvAt DEF OrderInv
  <2> QED
    BY <1>2, <1>t, <2>1 DEF UpTo
<1> DEFINE n == IF hi > k THEN hi ELSE k
<1>4. n \in 1..written[s] /\ acked[s] \subseteq 1..n
  BY <1>2, <1>3, <1>t
<1>5. acked[s] \cup (task[w][s].after + 1 .. hi) = 1..n
  BY <1>2, <1>3, <1>t
<1> HIDE DEF n
<1>6. acked' = [acked EXCEPT ![s] = 1..n]
  BY <1>1, <1>5
<1> QED
  BY <1>0, <1>4, <1>6 DEF Log!Handle

LEMMA LogStep ==
  ASSUME OrderInv, [Next]_vars, NeverGone
  PROVE  [Log!Next]_(Log!vars)
<1>1. CASE \E s \in Shards : Produce(s)
  BY <1>1 DEF Produce, table, Log!Next, Log!Append
<1>2. CASE \E s \in Shards : CloseShard(s)
  BY <1>2 DEF CloseShard, table, Log!Next, Log!Close
<1>3. CASE \E w \in Workers, s \in Shards : DeliverAcked(w, s)
  BY <1>3, LogHandle DEF Log!Next
<1>4. CASE UNCHANGED <<written, closed, acked>>
  BY <1>4, RowSteps, LogStutter, LogPersist, LogFinish DEF Log!Next
<1>5. CASE \E s \in Shards : Replicate(s)
  BY <1>4, <1>5 DEF Replicate, log
<1>6. CASE \E w \in Workers : CycleStep(w)
  BY <1>4, <1>6 DEF CycleStep, Decide, Claim, ReadOwned, EndCycle, ReleaseDone, AcquireGet, log
<1>7. CASE \E w \in Workers : StopRequested(w) \/ ClientVanish(w) \/ Crash(w) \/ Restart(w)
  BY <1>4, <1>7 DEF StopRequested, ClientVanish, Crash, Restart, log
<1>8. ASSUME NEW w \in Workers, NEW s \in Shards, TaskStep(w, s), ~DeliverAcked(w, s)
      PROVE  UNCHANGED <<written, closed, acked>>
  BY <1>8 DEF TaskStep, PassReturns, EmptyEnd, DeliverUnacked, DeliverHangs, DeliverFails,
       CheckpointOk, CheckpointLost, CheckpointFault, LeaseLost, TakePending, MarkComplete,
       LastWriteFault, ReleaseNext, ReleaseFlush, ReleaseFlushFault, Release, log
<1>9. CASE UNCHANGED vars
  BY <1>4, <1>9 DEF vars, log
<1> QED
  BY <1>1, <1>2, <1>3, <1>4, <1>5, <1>6, <1>7, <1>8, <1>9 DEF Next, StreamStep

\* The fleet implements ShardLog when its consumers cannot go away: workers, leases,
\* steals, stale scans, lost replies, crashes and restarts are invisible in what
\* happens to each shard.
THEOREM FleetImplementsShardLog ==
  ASSUME ~ClientMayVanish
  PROVE  Spec => ImplementsShardLog
<1>1. Init => Log!Init
  BY LogInit
<1>2. OrderInv /\ [Next]_vars => [Log!Next]_(Log!vars)
  <2>1. OrderInv => NeverGone
    BY DEF OrderInv, Inv, CompletedUnlessGone, NeverGone, ClientsStay
  <2> QED
    BY <2>1, LogStep
<1> QED
  BY <1>1, <1>2, Ordered, PTL DEF Spec, ImplementsShardLog, Log!Spec

\* With sidecar clients that may go away and are not replaced, the fleet implements
\* ShardLog until the first of them does.
THEOREM FleetImplementsUntilGone ==
  ASSUME MaxRestarts = 0
  PROVE  Spec => ImplementsUntilGone
<1>1. Init => Log!Init
  BY LogInit
<1>2. OrderInv /\ [Next]_vars => [Log!Next \/ \E w \in Workers : gone[w]]_(Log!vars)
  <2>1. NeverGone \/ \E w \in Workers : gone[w]
    BY DEF NeverGone, ClientsStay
  <2> QED
    BY <2>1, LogStep
<1> QED
  BY <1>1, <1>2, Ordered, PTL DEF Spec, ImplementsUntilGone
=============================================================================
