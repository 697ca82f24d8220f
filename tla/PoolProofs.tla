----------------------------- MODULE PoolProofs -----------------------------
(***************************************************************************)
(* Pool keeps its type, and within a cycle no shard is held by two pool    *)
(* workers and none is dropped, for any shards, pool sizes and intervals.  *)
(***************************************************************************)
EXTENDS Pool, TLAPS

\* The state of the cycle as sets: who is busy, and who has reported.
LEMMA InitInv == Init => Inv
<1> SUFFICES ASSUME Init PROVE Inv
  OBVIOUS
<1>1. TypeOK
  BY PoolAssumption DEF Init, TypeOK, Slots, Outcome, Longest
<1>2. OnePassPerShard /\ IdleBetweenCycles
  BY DEF Init, OnePassPerShard, IdleBetweenCycles, Busy, Reported
<1> QED
  BY <1>1, <1>2 DEF Inv

\* Steps that leave the running cycle alone.
LEMMA OutsideInv ==
  ASSUME Inv,
         \/ \E s \in Shards : Arrive(s) \/ CloseShard(s) \/ LeaseMoves(s)
         \/ \E n \in 0..MaxPool : Resize(n)
         \/ Elapse
  PROVE  Inv'
<1> USE DEF Inv
<1>1. UNCHANGED cycle
  BY DEF Arrive, CloseShard, LeaseMoves, Resize, Elapse
<1>2. OnePassPerShard' /\ IdleBetweenCycles'
  BY <1>1 DEF cycle, OnePassPerShard, IdleBetweenCycles, Busy, Reported
<1>3. TypeOK'
  <2>1. CASE \E s \in Shards : Arrive(s) \/ CloseShard(s) \/ LeaseMoves(s)
    BY <2>1, PoolAssumption
    DEF TypeOK, Arrive, CloseShard, LeaseMoves, sched, cycle, budget
  <2>2. CASE \E n \in 0..MaxPool : Resize(n)
    BY <2>2, PoolAssumption DEF TypeOK, Resize, world, sched, cycle, budget, Slots
  <2>3. CASE Elapse
    <3>1. due' \in [Shards -> 0..Longest]
      BY <2>3, PoolAssumption DEF TypeOK, Elapse, Longest
    <3> QED
      BY <2>3, <3>1 DEF TypeOK, Elapse, world, cycle, budget
  <2> QED
    BY <2>1, <2>2, <2>3
<1> QED
  BY <1>2, <1>3

\* The next backoff stays within the bound of the type.
LEMMA BackoffType == \A b \in 0..Longest : NextBackoff(b) \in 0..Longest
BY PoolAssumption DEF NextBackoff, Longest

LEMMA BeginInv == Inv /\ Begin => Inv'
<1> SUFFICES ASSUME Inv, Begin PROVE Inv'
  OBVIOUS
<1> USE DEF Inv
<1>1. TypeOK'
  <2>1. backoff' \in [Shards -> 0..Longest] /\ due' \in [Shards -> 0..Longest]
    BY PoolAssumption DEF TypeOK, Begin, Longest
  <2>2. known' \in SUBSET Shards /\ batch' \in SUBSET Shards /\ queue' \in SUBSET batch'
    BY DEF TypeOK, Begin, Refreshed, EligibleOwned
  <2>3. width' \in 0..MaxPool
    BY PoolAssumption DEF TypeOK, Begin, Slots
  <2> QED
    BY <2>1, <2>2, <2>3 DEF TypeOK, Begin, world, budget
<1>2. Busy = {} /\ Reported = {}
  BY DEF Begin, IdleBetweenCycles, OnePassPerShard
<1>3. Busy' = {} /\ Reported' = {}
  BY <1>2 DEF Begin, Busy, Reported
<1>4. \A i \in Slots : slot'[i] = NoShard
  BY <1>3 DEF Busy
<1>5. OnePassPerShard'
  <2>1. batch' = queue'
    BY DEF Begin
  <2> QED
    BY <1>3, <1>4, <2>1 DEF OnePassPerShard
<1>6. IdleBetweenCycles'
  <2>1. limit # 0
    BY PoolAssumption DEF TypeOK, Slots
  <2>2. width' = IF batch' = {} THEN 0 ELSE limit
    BY DEF Begin
  <2> QED
    BY <2>1, <2>2 DEF IdleBetweenCycles
<1> QED
  BY <1>1, <1>5, <1>6

LEMMA TakeInv == ASSUME Inv, NEW i \in Slots, Take(i) PROVE Inv'
<1> USE DEF Inv
<1>1. PICK s \in queue : slot' = [slot EXCEPT ![i] = s] /\ queue' = queue \ {s}
  BY DEF Take
<1>2. s \in Shards /\ s # NoShard
  BY PoolAssumption DEF TypeOK
<1>3. TypeOK'
  BY <1>1, <1>2 DEF TypeOK, Take, world, sched, budget
<1>4. slot[i] = NoShard /\ i <= width /\ UNCHANGED <<width, batch, out>>
  BY DEF Take
<1>5. Busy' = Busy \cup {s} /\ Reported' = Reported
  BY <1>1, <1>2, <1>4 DEF Busy, Reported, TypeOK
<1>6. s \notin Busy \cup Reported
  BY DEF OnePassPerShard
<1>7. \A j \in Slots : j # i => slot[j] # s
  BY <1>2, <1>6 DEF Busy
<1>8. OnePassPerShard'
  <2>1. batch' = queue' \cup Busy' \cup Reported'
    BY <1>1, <1>4, <1>5 DEF OnePassPerShard
  <2>2. queue' \cap (Busy' \cup Reported') = {} /\ Busy' \cap Reported' = {}
    BY <1>1, <1>5, <1>6 DEF OnePassPerShard
  <2>3. \A k, j \in Slots : k # j /\ slot'[k] = slot'[j] => slot'[k] = NoShard
    BY <1>1, <1>7 DEF OnePassPerShard, TypeOK
  <2>4. \A j \in Slots : j > width' => slot'[j] = NoShard
    BY <1>1, <1>4 DEF OnePassPerShard, TypeOK, Slots
  <2> QED
    BY <2>1, <2>2, <2>3, <2>4 DEF OnePassPerShard
<1>9. IdleBetweenCycles'
  BY <1>4 DEF IdleBetweenCycles
<1> QED
  BY <1>3, <1>8, <1>9

\* A pool worker reports: its shard moves from the busy ones to the reported ones.
LEMMA FinishInv ==
  ASSUME Inv, NEW i \in Slots, NEW o \in Outcome, Finish(i, o)
  PROVE  OnePassPerShard' /\ IdleBetweenCycles'
<1> USE DEF Inv
<1> DEFINE s == slot[i]
<1>1. s \in Shards /\ s # NoShard /\ s \in Busy
  BY DEF Finish, TypeOK, Busy
<1>2. /\ out' = [out EXCEPT ![s] = o] /\ slot' = [slot EXCEPT ![i] = NoShard]
      /\ UNCHANGED <<width, batch, queue>>
  BY DEF Finish
<1>3. \A j \in Slots : j # i => slot[j] # s
  BY <1>1 DEF OnePassPerShard
<1>4. Busy' = Busy \ {s}
  BY <1>1, <1>2, <1>3 DEF Busy, TypeOK
<1>5. Reported' = Reported \cup {s}
  BY <1>1, <1>2 DEF Reported, TypeOK, Outcome
<1>6. OnePassPerShard'
  <2>1. batch' = queue' \cup Busy' \cup Reported'
    BY <1>1, <1>2, <1>4, <1>5 DEF OnePassPerShard
  <2>2. queue' \cap (Busy' \cup Reported') = {} /\ Busy' \cap Reported' = {}
    BY <1>1, <1>2, <1>4, <1>5 DEF OnePassPerShard
  <2>3. \A k, j \in Slots : k # j /\ slot'[k] = slot'[j] => slot'[k] = NoShard
    BY <1>2 DEF OnePassPerShard, TypeOK
  <2>4. \A j \in Slots : j > width' => slot'[j] = NoShard
    BY <1>2 DEF OnePassPerShard, TypeOK
  <2> QED
    BY <2>1, <2>2, <2>3, <2>4 DEF OnePassPerShard
<1>7. IdleBetweenCycles'
  BY <1>2 DEF IdleBetweenCycles
<1> QED
  BY <1>6, <1>7

LEMMA PassInv == ASSUME Inv, NEW i \in Slots, PassStep(i) PROVE Inv'
<1> USE DEF Inv
<1>1. CASE PassReads(i)
  <2>1. TypeOK'
    BY <1>1 DEF PassReads, TypeOK, sched, budget
  <2>2. UNCHANGED <<width, batch, queue, slot, out>>
    BY <1>1 DEF PassReads
  <2> QED
    BY <2>1, <2>2 DEF OnePassPerShard, IdleBetweenCycles, Busy, Reported
<1>2. CASE PassReturns(i)
  <2> DEFINE o == IF got[i] THEN "Active" ELSE "Idle"
  <2>1. o \in Outcome /\ Finish(i, o)
    BY <1>2 DEF PassReturns, Outcome
  <2>2. TypeOK'
    BY <1>2, <2>1 DEF PassReturns, Finish, TypeOK, world, sched, budget
  <2> QED
    BY <2>1, <2>2, FinishInv
<1>3. CASE PassEnds(i)
  <2>1. "Ended" \in Outcome /\ Finish(i, "Ended")
    BY <1>3 DEF PassEnds, Outcome
  <2>2. TypeOK'
    BY <1>3, <2>1 DEF PassEnds, Finish, TypeOK, world, sched, budget
  <2> QED
    BY <2>1, <2>2, FinishInv
<1>4. CASE PassStops(i)
  <2>1. "Stopped" \in Outcome /\ Finish(i, "Stopped")
    BY <1>4 DEF PassStops, Outcome
  <2>2. stops' \in 0..MaxStops
    BY <1>4, PoolAssumption DEF PassStops, TypeOK
  <2>3. TypeOK'
    BY <1>4, <2>1, <2>2 DEF PassStops, Finish, TypeOK, world, sched
  <2> QED
    BY <2>1, <2>3, FinishInv
<1> QED
  BY <1>1, <1>2, <1>3, <1>4 DEF PassStep

LEMMA FoldInv == Inv /\ Fold => Inv'
<1> SUFFICES ASSUME Inv, Fold PROVE Inv'
  OBVIOUS
<1> USE DEF Inv
<1>1. backoff' \in [Shards -> 0..Longest]
  BY BackoffType, PoolAssumption DEF Fold, TypeOK, Longest
<1>2. due' \in [Shards -> 0..Longest]
  BY <1>1, PoolAssumption DEF Fold, TypeOK, Longest
<1>3. TypeOK'
  BY <1>1, <1>2, PoolAssumption DEF Fold, TypeOK, world, budget
<1>4. Busy' = {} /\ Reported' = {}
  BY DEF Fold, Busy, Reported
<1>5. OnePassPerShard' /\ IdleBetweenCycles'
  BY <1>4 DEF Fold, OnePassPerShard, IdleBetweenCycles
<1> QED
  BY <1>3, <1>5

LEMMA StepInv == Inv /\ [Next]_vars => Inv'
<1> SUFFICES ASSUME Inv, [Next]_vars PROVE Inv'
  OBVIOUS
<1>1. CASE UNCHANGED vars
  BY <1>1 DEF Inv, TypeOK, OnePassPerShard, IdleBetweenCycles, Busy, Reported,
              vars, world, sched, cycle, budget
<1>2. CASE Next
  BY <1>2, OutsideInv, BeginInv, FoldInv, TakeInv, PassInv DEF Next
<1> QED
  BY <1>1, <1>2

\* At most one pool worker holds a shard, and no shard a cycle took is dropped
\* (run_bounded_pool), however the pool is resized meanwhile.
THEOREM NeverSplit == Spec => []OnePassPerShard
<1>1. Inv => OnePassPerShard
  BY DEF Inv
<1> QED
  BY InitInv, StepInv, <1>1, PTL DEF Spec
=============================================================================
