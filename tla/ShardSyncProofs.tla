--------------------------- MODULE ShardSyncProofs ---------------------------
(***************************************************************************)
(* ShardSync for any lineage and any number of workers that lead at once,  *)
(* crash, meet failed calls and scan lagging replicas: ParentFirst (from   *)
(* LineageInv, which says what the table, its replica and each worker's    *)
(* memory may name) and TombstoneFollowed (from LedgerInv, which says what *)
(* they may claim about children).                                         *)
(***************************************************************************)
EXTENDS ShardSync, TLAPS

\* The parent is complete, or it aged out of the stream.
Cleared(s) == ParentOf[s] \subseteq done \cup trimmed

\* A shard comes after its parent in the stream.
BornInOrder == \A s \in born : ParentOf[s] \subseteq ended

\* What a scan may see.
RowsCleared ==
  /\ \A s \in Shards : row[s].on \/ replica[s].on => Cleared(s)
  /\ CompletedIn(row) \subseteq done /\ CompletedIn(replica) \subseteq done

\* What worker w remembers of an older table.
MemoryCleared(w) ==
  /\ CompletedIn(snap[w]) \subseteq done
  /\ \A n \in todo[w] : Cleared(n.id)
  /\ pc[w] = "sync" => keys[w] \subseteq done
  /\ pc[w] \in {"take", "run"} => \A s \in keys[w] : Cleared(s)

LineageInv ==
  /\ TypeOK
  /\ BornInOrder
  /\ RowsCleared
  /\ \A w \in Workers : MemoryCleared(w)
  /\ ParentFirst

-----------------------------------------------------------------------------
LEMMA Rows ==
  /\ NoRow \in RowSet
  /\ Empty \in [Shards -> RowSet]
  /\ \A s \in Shards : Empty[s] = NoRow
  /\ \A r \in RowSet :
       /\ r.on \in BOOLEAN /\ r.owner \in Workers \cup {NoOwner} /\ r.cp \in Position
       /\ r.completed \in BOOLEAN /\ r.parents \in SUBSET Shards
<1>1. NoRow \in RowSet
  BY DEF NoRow, RowSet, Position
<1>2. Empty \in [Shards -> RowSet] /\ \A s \in Shards : Empty[s] = NoRow
  BY <1>1 DEF Empty
<1>3. QED
  BY <1>1, <1>2 DEF RowSet

\* A scan shows each row as it is or as a replica has it.
LEMMA Viewed ==
  ASSUME TypeOK, NEW v \in Views
  PROVE  /\ v \in [Shards -> RowSet]
         /\ \A s \in Shards : v[s] = row[s] \/ v[s] = replica[s]
  BY DEF TypeOK, Views

\* The stream, the history: nothing is taken back.
LEMMA Grows ==
  ASSUME TypeOK, [Next]_vars
  PROVE  /\ born \subseteq born' /\ ended \subseteq ended' /\ trimmed \subseteq trimmed'
         /\ done \subseteq done' /\ started \subseteq started'
<1>1. CASE \E s \in Shards : Reshard(s) \/ Trim(s) \/ Lag(s) \/ Replicate(s)
  BY <1>1 DEF Reshard, Trim, Lag, Replicate, stream, history
<1>2. ASSUME NEW w \in Workers, SyncStep(w) \/ CrashRestart(w)
      PROVE  UNCHANGED <<stream, done, started>>
  BY <1>2 DEF history, SyncStep, Lead, BidFails, SeedDescribe, SeedFails, SyncDone, CleanupDone,
              Create, CreateFails, SyncParent, SyncFallback, DeleteRow, DeleteFails, CrashRestart
<1>3. ASSUME NEW w \in Workers, WorkStep(w)
      PROVE  UNCHANGED stream /\ done \subseteq done' /\ started \subseteq started'
  BY <1>3 DEF WorkStep, Follow, Decide, Reread, EndCycle, Acquire, PassIdle, PassCheckpoints,
              PassCompletes, history
<1>4. CASE UNCHANGED vars
  BY <1>4 DEF vars, stream, history
<1>5. QED
  BY <1>1, <1>2, <1>3, <1>4 DEF Next, stream, history

\* A step changes the memory of one worker at most.
LEMMA OthersKeep ==
  ASSUME TypeOK, NEW w \in Workers, SyncStep(w) \/ WorkStep(w) \/ CrashRestart(w),
         NEW u \in Workers, u # w
  PROVE  /\ pc'[u] = pc[u] /\ snap'[u] = snap[u] /\ todo'[u] = todo[u]
         /\ keys'[u] = keys[u] /\ fresh'[u] = fresh[u]
         /\ seeded'[u] = seeded[u] /\ synced'[u] = synced[u]
  BY DEF TypeOK, SyncStep, WorkStep, vars, table, stream, memory, history, budget,
         Lead, BidFails, SeedDescribe, SeedFails, SyncDone, CleanupDone,
         Create, CreateFails, SyncParent, SyncFallback, DeleteRow, DeleteFails,
         Follow, Decide, Reread, EndCycle, Acquire, PassIdle, PassCheckpoints,
         PassCompletes, CrashRestart

-----------------------------------------------------------------------------
LEMMA TypeInit == Init => TypeOK
<1>1. SUFFICES ASSUME Init PROVE TypeOK
  OBVIOUS
<1>2. lags \in 0..MaxLags /\ restarts \in 0..MaxRestarts /\ faults \in 0..MaxFaults
  BY <1>1, SyncAssumption DEF Init
<1>3. QED
  BY <1>1, <1>2, Rows DEF Init, TypeOK, Roots

LEMMA TypeStream ==
  ASSUME TypeOK, NEW s \in Shards, Reshard(s) \/ Trim(s) \/ Lag(s) \/ Replicate(s)
  PROVE  TypeOK'
<1>1. CASE Reshard(s) \/ Trim(s)
  BY <1>1 DEF TypeOK, Reshard, Trim, Children, table, memory, history, budget
<1>2. CASE Lag(s)
  BY <1>2, SyncAssumption DEF TypeOK, Lag, stream, memory, history
<1>3. CASE Replicate(s)
  BY <1>3, Rows DEF TypeOK, Replicate, stream, memory, history, budget
<1>4. QED
  BY <1>1, <1>2, <1>3

LEMMA TypeSync ==
  ASSUME TypeOK, NEW w \in Workers, SyncStep(w)
  PROVE  TypeOK'
<1>1. CASE Lead(w)
  <2>1. PICK v \in Views :
          /\ snap' = [snap EXCEPT ![w] = v]
          /\ keys' = [keys EXCEPT ![w] = IF seeded[w] THEN Unsynced(w, v) ELSE {}]
    BY <1>1 DEF Lead
  <2>2. Unsynced(w, v) \in SUBSET Shards /\ v \in [Shards -> RowSet]
    BY Viewed DEF Unsynced, CompletedIn
  <2>3. QED
    BY <1>1, <2>1, <2>2 DEF Lead, TypeOK, table, stream, history, budget
<1>2. CASE BidFails(w) \/ CleanupDone(w)
  BY <1>2, SyncAssumption DEF BidFails, CleanupDone, TypeOK, table, stream, memory, history, budget
<1>3. CASE SeedDescribe(w)
  <2>1. {[id |-> s, parents |-> GraphParents(s), cp |-> Initial] : s \in Publishable(snap[w])}
          \in SUBSET NewRow
    BY SyncAssumption DEF TypeOK, Publishable, Visible, GraphParents, NewRow, Position
  <2>2. QED
    BY <1>3, <2>1 DEF SeedDescribe, TypeOK, table, stream, history, budget
<1>4. CASE SeedFails(w)
  BY <1>4, SyncAssumption, Rows DEF SeedFails, TypeOK, table, stream, history, budget
<1>5. CASE SyncDone(w)
  BY <1>5, Rows DEF SyncDone, SafeToDelete, CompletedIn, TypeOK, table, stream, history, budget
<1>6. ASSUME NEW n \in todo[w], Create(w, n)
      PROVE  TypeOK'
  <2>1. n \in NewRow
    BY DEF TypeOK
  <2>2. /\ n.id \in Shards
        /\ [NoRow EXCEPT !.on = TRUE, !.cp = n.cp, !.parents = n.parents] \in RowSet
    BY <2>1 DEF NewRow, NoRow, RowSet
  <2>3. row' \in [Shards -> RowSet]
    BY <1>6, <2>2 DEF Create, TypeOK
  <2>4. QED
    BY <1>6, <2>3 DEF Create, TypeOK, table, stream, history, budget
<1>7. ASSUME NEW n \in todo[w], CreateFails(w, n)
      PROVE  TypeOK'
  BY <1>7, SyncAssumption DEF CreateFails, TypeOK, table, stream, history, budget
<1>8. ASSUME NEW p \in Shards, SyncParent(w, p)
      PROVE  TypeOK'
  <2>1. {[id |-> s, parents |-> {p}, cp |-> ChildCp(snap[w], {p})] :
           s \in (Children(p) \cap Visible) \ ExistingIn(snap[w])} \in SUBSET NewRow
    BY DEF TypeOK, Children, NewRow, ChildCp, Position
  <2>2. QED
    BY <1>8, <2>1 DEF SyncParent, TypeOK, table, stream, history, budget
<1>9. ASSUME NEW p \in Shards, SyncFallback(w, p)
      PROVE  TypeOK'
  <2>1. {[id |-> s, parents |-> GraphParents(s), cp |-> ChildCp(snap[w], GraphParents(s))] :
           s \in Publishable(snap[w])} \in SUBSET NewRow
    BY SyncAssumption DEF TypeOK, Publishable, Visible, GraphParents, NewRow, ChildCp, Position
  <2>2. todo' \in [Workers -> SUBSET NewRow]
    BY <1>9, <2>1 DEF SyncFallback, TypeOK
  <2>3. faults' \in 0..MaxFaults
    BY <1>9, SyncAssumption DEF SyncFallback, TypeOK
  <2>4. QED
    BY <1>9, <2>2, <2>3 DEF SyncFallback, TypeOK, table, stream, history, budget
<1>10. ASSUME NEW s \in Shards, DeleteRow(w, s) \/ DeleteFails(w, s)
       PROVE  TypeOK'
  <2>1. row' \in [Shards -> RowSet]
    BY <1>10, Rows DEF DeleteRow, DeleteFails, TypeOK, table
  <2>2. faults' \in 0..MaxFaults
    BY <1>10, SyncAssumption DEF DeleteRow, DeleteFails, TypeOK, budget
  <2>3. QED
    BY <1>10, <2>1, <2>2 DEF DeleteRow, DeleteFails, TypeOK, table, stream, history, budget
<1>11. QED
  BY <1>1, <1>2, <1>3, <1>4, <1>5, <1>6, <1>7, <1>8, <1>9, <1>10 DEF SyncStep

LEMMA TypeWork ==
  ASSUME TypeOK, NEW w \in Workers, WorkStep(w)
  PROVE  TypeOK'
<1>1. CASE Follow(w) \/ EndCycle(w)
  BY <1>1 DEF Follow, EndCycle, TypeOK, table, stream, memory, history, budget
<1>2. CASE Decide(w) \/ Reread(w)
  <2>1. keys' \in [Workers -> SUBSET Shards]
    BY <1>2 DEF Decide, Reread, ExistingIn, TypeOK
  <2>2. pc' \in [Workers -> {"idle", "seed", "sync", "gc", "beat", "take", "run", "exit"}]
    BY <1>2 DEF Decide, Reread, TypeOK
  <2>3. QED
    BY <1>2, <2>1, <2>2 DEF Decide, Reread, TypeOK, table, stream, history, budget
<1>3. ASSUME NEW s \in Shards, Acquire(w, s)
      PROVE  TypeOK'
  <2>1. /\ [row[s] EXCEPT !.owner = w] \in RowSet
        /\ [NoRow EXCEPT !.on = TRUE, !.owner = w] \in RowSet
    BY Rows DEF TypeOK, RowSet, NoRow
  <2>2. row' \in [Shards -> RowSet]
    BY <1>3, <2>1 DEF Acquire, TypeOK
  <2>3. QED
    BY <1>3, <2>2 DEF Acquire, TypeOK, table, stream, history, budget
<1>4. ASSUME NEW s \in Shards, PassIdle(w, s)
      PROVE  TypeOK'
  BY <1>4 DEF PassIdle, TypeOK, table, stream, budget
<1>5. ASSUME NEW s \in Shards, PassCheckpoints(w, s)
      PROVE  TypeOK'
  <2>1. [row[s] EXCEPT !.cp = "SEQ"] \in RowSet
    <3>1. row[s] \in RowSet
      BY DEF TypeOK
    <3>2. QED
      BY <3>1 DEF RowSet, Position
  <2>2. QED
    BY <1>5, <2>1 DEF PassCheckpoints, TypeOK, table, stream, memory, budget
<1>6. ASSUME NEW s \in Shards, PassCompletes(w, s)
      PROVE  TypeOK'
  <2>1. [row[s] EXCEPT !.completed = TRUE] \in RowSet
    <3>1. row[s] \in RowSet
      BY DEF TypeOK
    <3>2. QED
      BY <3>1 DEF RowSet
  <2>2. QED
    BY <1>6, <2>1 DEF PassCompletes, TypeOK, table, stream, budget
<1>7. QED
  BY <1>1, <1>2, <1>3, <1>4, <1>5, <1>6 DEF WorkStep

LEMMA TypeStep ==
  ASSUME TypeOK, [Next]_vars
  PROVE  TypeOK'
<1>1. ASSUME NEW w \in Workers, CrashRestart(w)
      PROVE  TypeOK'
  BY <1>1, SyncAssumption, Rows DEF CrashRestart, TypeOK, table, stream, history
<1>2. CASE UNCHANGED vars
  BY <1>2 DEF vars, TypeOK, table, stream, memory, history, budget
<1>3. QED
  BY <1>1, <1>2, TypeStream, TypeSync, TypeWork DEF Next

-----------------------------------------------------------------------------
\* What was once cleared stays so.
LEMMA ClearedStays ==
  ASSUME TypeOK, [Next]_vars, NEW s \in Shards, Cleared(s)
  PROVE  Cleared(s)'
  BY Grows DEF Cleared

\* A full describe offers a shard when its parent is complete or aged out.
LEMMA PublishableCleared ==
  ASSUME LineageInv, NEW w \in Workers, NEW s \in Publishable(snap[w])
  PROVE  s \in Shards /\ Cleared(s)
<1>1. s \in born /\ GraphParents(s) \subseteq done
  BY DEF LineageInv, MemoryCleared, Publishable, Visible
<1>2. ParentOf[s] \subseteq born
  BY <1>1 DEF LineageInv, TypeOK, BornInOrder
<1>3. QED
  BY <1>1, <1>2 DEF GraphParents, Visible, Cleared, LineageInv, TypeOK

LEMMA BornStep ==
  ASSUME LineageInv, [Next]_vars
  PROVE  BornInOrder'
<1>1. ASSUME NEW s \in Shards, Reshard(s)
      PROVE  BornInOrder'
  <2>1. ASSUME NEW c \in Children(s)
        PROVE  ParentOf[c] \subseteq {s}
    BY SyncAssumption DEF Children
  <2>2. QED
    BY <1>1, <2>1 DEF Reshard, BornInOrder, LineageInv
<1>2. CASE ~\E s \in Shards : Reshard(s)
  <2>1. born' = born
    <3>1. ASSUME NEW w \in Workers, SyncStep(w) \/ CrashRestart(w) \/ WorkStep(w)
          PROVE  born' = born
      BY <3>1 DEF SyncStep, Lead, BidFails, SeedDescribe, SeedFails, SyncDone, CleanupDone,
              Create, CreateFails, SyncParent, SyncFallback, DeleteRow, DeleteFails, CrashRestart,
              WorkStep, Follow, Decide, Reread, EndCycle, Acquire, PassIdle, PassCheckpoints,
              PassCompletes, stream
    <3>2. QED
      BY <1>2, <3>1 DEF Next, Trim, Lag, Replicate, vars, stream
  <2>2. QED
    BY <2>1, Grows DEF LineageInv, BornInOrder
<1>3. QED
  BY <1>1, <1>2

\* A replica's copy is an earlier row.
LEMMA ReplicaStep ==
  ASSUME TypeOK, [Next]_vars, NEW s \in Shards
  PROVE  replica'[s] = replica[s] \/ replica'[s] = row[s] \/ replica'[s] = NoRow
<1>1. ASSUME NEW q \in Shards, Reshard(q) \/ Trim(q) \/ Lag(q) \/ Replicate(q)
      PROVE  replica'[s] = replica[s] \/ replica'[s] = row[s] \/ replica'[s] = NoRow
  BY <1>1 DEF Reshard, Trim, Lag, Replicate, table, TypeOK
<1>2. ASSUME NEW w \in Workers, SyncStep(w) \/ WorkStep(w) \/ CrashRestart(w)
      PROVE  replica' = replica
  BY <1>2 DEF SyncStep, Lead, BidFails, SeedDescribe, SeedFails, SyncDone, CleanupDone,
              Create, CreateFails, SyncParent, SyncFallback, DeleteRow, DeleteFails, CrashRestart,
              WorkStep, Follow, Decide, Reread, EndCycle, Acquire, PassIdle, PassCheckpoints,
              PassCompletes, table
<1>3. QED
  BY <1>1, <1>2 DEF Next, vars, table

LEMMA RowsStep ==
  ASSUME LineageInv, [Next]_vars
  PROVE  RowsCleared'
<1> USE DEF LineageInv
<1>0. /\ TypeOK /\ TypeOK'
      /\ \A s \in Shards : Cleared(s) => Cleared(s)'
      /\ done \subseteq done'
  BY TypeStep, ClearedStays, Grows
<1>1. SUFFICES ASSUME NEW s \in Shards
               PROVE  /\ row'[s].on => Cleared(s) \/ Cleared(s)'
                      /\ row'[s].on /\ row'[s].completed => s \in done'
  <2>1. \A s \in Shards : \/ replica'[s] = replica[s] \/ replica'[s] = row[s]
                         \/ replica'[s] = NoRow
    BY <1>0, ReplicaStep
  <2>2. \A s \in Shards : replica'[s].on => Cleared(s)'
    BY <1>0, <2>1 DEF RowsCleared, NoRow
  <2>3. CompletedIn(replica') \subseteq done'
    BY <1>0, <2>1 DEF RowsCleared, NoRow, CompletedIn
  <2>4. QED
    BY <1>0, <1>1, <2>2, <2>3 DEF RowsCleared, CompletedIn
<1>2. CASE row'[s] = row[s]
  BY <1>2, <1>0 DEF RowsCleared, CompletedIn
<1>3. ASSUME NEW w \in Workers, NEW n \in todo[w], Create(w, n), row'[s] # row[s]
      PROVE  /\ row'[s].on => Cleared(s)
             /\ ~row'[s].completed
  <2>1. n \in NewRow /\ n.id \in Shards
    BY DEF TypeOK, NewRow
  <2>2. s = n.id
    BY <1>3, <2>1 DEF Create, TypeOK
  <2>3. row'[s] = [NoRow EXCEPT !.on = TRUE, !.cp = n.cp, !.parents = n.parents]
    BY <1>3, <2>1, <2>2 DEF Create, TypeOK
  <2>4. ~row'[s].completed
    BY <2>3 DEF NoRow
  <2>5. QED
    BY <2>2, <2>4 DEF MemoryCleared
<1>4. ASSUME NEW w \in Workers, NEW q \in Shards, DeleteRow(w, q), row'[s] # row[s]
      PROVE  ~row'[s].on
  BY <1>4, Rows DEF DeleteRow, TypeOK, NoRow
<1>5. ASSUME NEW w \in Workers, NEW q \in Shards, Acquire(w, q), row'[s] # row[s]
      PROVE  Cleared(s) /\ (row'[s].on /\ row'[s].completed => s \in done)
  <2>1. q = s
    BY <1>5 DEF Acquire, TypeOK
  <2>2. Cleared(s)
    BY <1>5, <2>1 DEF Acquire, MemoryCleared
  <2>3. \/ row[s].on /\ row'[s] = [row[s] EXCEPT !.owner = w]
        \/ row'[s] = [NoRow EXCEPT !.on = TRUE, !.owner = w]
    BY <1>5, <2>1 DEF Acquire, TypeOK
  <2>4. row'[s].completed => row[s].on /\ row[s].completed
    <3>1. row[s] \in RowSet
      BY DEF TypeOK
    <3>2. QED
      BY <2>3, <3>1 DEF RowSet, NoRow
  <2>5. QED
    BY <2>2, <2>4 DEF RowsCleared, CompletedIn
<1>6. ASSUME NEW w \in Workers, NEW q \in Shards, PassCheckpoints(w, q) \/ PassCompletes(w, q),
             row'[s] # row[s]
      PROVE  Cleared(s) /\ (row'[s].on /\ row'[s].completed => s \in done')
  <2>1. q = s /\ row[s].on
    BY <1>6 DEF PassCheckpoints, PassCompletes, TypeOK
  <2>2. CASE PassCheckpoints(w, q)
    <3>1. row[s] \in RowSet /\ row'[s] = [row[s] EXCEPT !.cp = "SEQ"]
      BY <2>1, <2>2 DEF PassCheckpoints, TypeOK
    <3>2. row'[s].completed => row[s].completed
      BY <3>1 DEF RowSet
    <3>3. QED
      BY <2>1, <3>2, <1>0 DEF RowsCleared, CompletedIn
  <2>3. CASE PassCompletes(w, q)
    BY <2>1, <2>3 DEF PassCompletes, RowsCleared
  <2>4. QED
    BY <1>6, <2>2, <2>3
<1>7. ASSUME NEW w \in Workers, SyncStep(w)
      PROVE  \/ UNCHANGED row
             \/ \E n \in todo[w] : Create(w, n)
             \/ \E q \in Shards : DeleteRow(w, q)
  BY <1>7 DEF SyncStep, Lead, BidFails, SeedDescribe, SeedFails, SyncDone, CleanupDone,
              CreateFails, SyncParent, SyncFallback, DeleteFails, table
<1>8. ASSUME NEW w \in Workers, WorkStep(w) \/ CrashRestart(w)
      PROVE  \/ UNCHANGED row
             \/ \E q \in Shards : Acquire(w, q) \/ PassCheckpoints(w, q) \/ PassCompletes(w, q)
  BY <1>8 DEF WorkStep, Follow, Decide, Reread, EndCycle, PassIdle, CrashRestart, table
<1>9. (\E q \in Shards : Reshard(q) \/ Trim(q) \/ Lag(q) \/ Replicate(q)) \/ UNCHANGED vars
        => UNCHANGED row
  BY DEF Reshard, Trim, Lag, Replicate, vars, table
<1>10. QED
  BY <1>0, <1>2, <1>3, <1>4, <1>5, <1>6, <1>7, <1>8, <1>9 DEF Next

\* What the sync part of a cycle leaves in the memory of its worker.
LEMMA MemorySync ==
  ASSUME LineageInv, NEW w \in Workers, SyncStep(w)
  PROVE  /\ CompletedIn(snap'[w]) \subseteq done
         /\ \A n \in todo'[w] : Cleared(n.id)
         /\ pc'[w] = "sync" => keys'[w] \subseteq done
         /\ pc'[w] \in {"take", "run"} => \A s \in keys'[w] : Cleared(s)
<1> USE DEF LineageInv
<1>0. /\ CompletedIn(snap[w]) \subseteq done
      /\ \A n \in todo[w] : Cleared(n.id)
      /\ pc[w] = "sync" => keys[w] \subseteq done
      /\ pc[w] \in {"take", "run"} => \A s \in keys[w] : Cleared(s)
      /\ \A v \in Views : CompletedIn(v) \subseteq done
      /\ CompletedIn(Empty) = {}
  BY Rows, Viewed DEF MemoryCleared, RowsCleared, CompletedIn, NoRow
<1>1. CASE Lead(w)
  BY <1>0, <1>1 DEF Lead, TypeOK, Unsynced
<1>2. CASE BidFails(w) \/ CleanupDone(w)
  BY <1>0, <1>2 DEF BidFails, CleanupDone, TypeOK, memory
<1>3. CASE SeedDescribe(w)
  <2>1. \A n \in todo'[w] : Cleared(n.id)
    BY <1>3, PublishableCleared DEF SeedDescribe, TypeOK
  <2>2. QED
    BY <1>0, <1>3, <2>1 DEF SeedDescribe, TypeOK
<1>4. CASE SeedFails(w)
  BY <1>0, <1>4 DEF SeedFails, TypeOK
<1>5. CASE SyncDone(w)
  BY <1>0, <1>5 DEF SyncDone, TypeOK
<1>6. ASSUME NEW n \in todo[w], Create(w, n) \/ CreateFails(w, n)
      PROVE  /\ todo'[w] \subseteq todo[w]
             /\ snap' = snap /\ pc' = pc /\ keys' = keys
  BY <1>6 DEF Create, CreateFails, TypeOK
<1>7. ASSUME NEW p \in Shards, SyncParent(w, p) \/ SyncFallback(w, p)
      PROVE  /\ \A n \in todo'[w] : Cleared(n.id)
             /\ snap' = snap /\ pc' = pc /\ keys'[w] \subseteq keys[w]
  <2>1. CASE SyncParent(w, p)
    <3>1. p \in done
      BY <1>0, <2>1 DEF SyncParent
    <3>2. \A s \in Children(p) : Cleared(s)
      BY <3>1, SyncAssumption DEF Children, Cleared
    <3>3. QED
      BY <2>1, <3>2 DEF SyncParent, TypeOK
  <2>2. CASE SyncFallback(w, p)
    BY <1>0, <2>2, PublishableCleared DEF SyncFallback, TypeOK
  <2>3. QED
    BY <1>7, <2>1, <2>2
<1>8. ASSUME NEW s \in Shards, DeleteRow(w, s) \/ DeleteFails(w, s)
      PROVE  /\ todo' = todo /\ snap' = snap /\ pc' = pc /\ pc[w] = "gc"
  BY <1>8 DEF DeleteRow, DeleteFails
<1>9. QED
  BY <1>0, <1>1, <1>2, <1>3, <1>4, <1>5, <1>6, <1>7, <1>8 DEF SyncStep

\* ... and the rest of it.
LEMMA MemoryWork ==
  ASSUME LineageInv, NEW w \in Workers, WorkStep(w) \/ CrashRestart(w)
  PROVE  /\ CompletedIn(snap'[w]) \subseteq done
         /\ \A n \in todo'[w] : Cleared(n.id)
         /\ pc'[w] = "sync" => keys'[w] \subseteq done
         /\ pc'[w] \in {"take", "run"} => \A s \in keys'[w] : Cleared(s)
<1> USE DEF LineageInv
<1>0. /\ CompletedIn(snap[w]) \subseteq done
      /\ \A n \in todo[w] : Cleared(n.id)
      /\ pc[w] \in {"take", "run"} => \A s \in keys[w] : Cleared(s)
      /\ \A v \in Views : \A s \in ExistingIn(v) : Cleared(s)
      /\ CompletedIn(Empty) = {}
  BY Rows, Viewed DEF MemoryCleared, RowsCleared, CompletedIn, ExistingIn, NoRow
<1>1. CASE Follow(w) \/ EndCycle(w)
  BY <1>0, <1>1 DEF Follow, EndCycle, TypeOK, memory
<1>2. CASE Decide(w)
  BY <1>0, <1>2 DEF Decide, TypeOK
<1>3. CASE Reread(w)
  BY <1>0, <1>3 DEF Reread, TypeOK
<1>4. ASSUME NEW s \in Shards,
             Acquire(w, s) \/ PassIdle(w, s) \/ PassCheckpoints(w, s) \/ PassCompletes(w, s)
      PROVE  /\ todo' = todo /\ snap' = snap /\ pc' = pc /\ pc[w] \in {"take", "run"}
             /\ keys'[w] \subseteq keys[w]
  BY <1>4 DEF Acquire, PassIdle, PassCheckpoints, PassCompletes, TypeOK, memory
<1>5. CASE CrashRestart(w)
  BY <1>0, <1>5 DEF CrashRestart, TypeOK
<1>6. QED
  BY <1>0, <1>1, <1>2, <1>3, <1>4, <1>5 DEF WorkStep

LEMMA MemoryStep ==
  ASSUME LineageInv, [Next]_vars, NEW u \in Workers
  PROVE  MemoryCleared(u)'
<1> USE DEF LineageInv
<1>0. /\ TypeOK' /\ done \subseteq done'
      /\ \A s \in Shards : Cleared(s) => Cleared(s)'
  BY TypeStep, ClearedStays, Grows
<1>1. SUFFICES /\ CompletedIn(snap'[u]) \subseteq done
               /\ \A n \in todo'[u] : Cleared(n.id)
               /\ pc'[u] = "sync" => keys'[u] \subseteq done
               /\ pc'[u] \in {"take", "run"} => \A s \in keys'[u] : Cleared(s)
  <2>1. \A n \in todo'[u] : n.id \in Shards
    BY <1>0 DEF TypeOK, NewRow
  <2>2. keys'[u] \subseteq Shards
    BY <1>0 DEF TypeOK
  <2>3. QED
    BY <1>0, <2>1, <2>2 DEF MemoryCleared, CompletedIn
<1>2. CASE snap'[u] = snap[u] /\ todo'[u] = todo[u] /\ pc'[u] = pc[u] /\ keys'[u] = keys[u]
  BY <1>2 DEF MemoryCleared
<1>3. ASSUME NEW s \in Shards, Reshard(s) \/ Trim(s) \/ Lag(s) \/ Replicate(s)
      PROVE  UNCHANGED <<pc, memory>>
  BY <1>3 DEF Reshard, Trim, Lag, Replicate
<1>4. ASSUME NEW w \in Workers, SyncStep(w) \/ WorkStep(w) \/ CrashRestart(w), w # u
      PROVE  snap'[u] = snap[u] /\ todo'[u] = todo[u] /\ pc'[u] = pc[u] /\ keys'[u] = keys[u]
  BY <1>4, OthersKeep
<1>5. QED
  BY <1>2, <1>3, <1>4, MemorySync, MemoryWork DEF Next, vars, memory

\* The lineage invariant: what is in the table, and in the memory of whichever
\* worker leads or works, however old, only names shards that may be worked on.
THEOREM LineageSafe == Spec => []LineageInv
<1>1. Init => LineageInv
  <2>1. SUFFICES ASSUME Init PROVE LineageInv
    OBVIOUS
  <2>2. TypeOK
    BY <2>1, TypeInit
  <2>3. /\ BornInOrder /\ ParentFirst
    BY <2>1 DEF Init, BornInOrder, ParentFirst, Roots
  <2>4. RowsCleared /\ \A w \in Workers : MemoryCleared(w)
    BY <2>1, Rows DEF Init, RowsCleared, MemoryCleared, CompletedIn, NoRow
  <2>5. QED
    BY <2>2, <2>3, <2>4 DEF LineageInv
<1>2. LineageInv /\ [Next]_vars => LineageInv'
  <2>1. SUFFICES ASSUME LineageInv, [Next]_vars PROVE LineageInv'
    OBVIOUS
  <2>2. TypeOK' /\ BornInOrder' /\ RowsCleared' /\ \A w \in Workers : MemoryCleared(w)'
    BY <2>1, TypeStep, BornStep, RowsStep, MemoryStep DEF LineageInv
  <2>3. ParentFirst'
    <3>1. SUFFICES ASSUME NEW s \in started'
                   PROVE  Cleared(s)'
      BY DEF ParentFirst, Cleared
    <3>2. CASE s \in started
      BY <2>1, <3>2, ClearedStays DEF LineageInv, TypeOK, ParentFirst, Cleared
    <3>3. CASE s \notin started
      <4>1. PICK w \in Workers : pc[w] = "run" /\ s \in keys[w]
        <5>1. ASSUME NEW w \in Workers, SyncStep(w) \/ CrashRestart(w)
              PROVE  started' = started
          BY <5>1 DEF SyncStep, Lead, BidFails, SeedDescribe, SeedFails, SyncDone, CleanupDone,
               Create, CreateFails, SyncParent, SyncFallback, DeleteRow, DeleteFails,
               CrashRestart, history
        <5>2. ASSUME NEW w \in Workers, WorkStep(w)
              PROVE  started' = started \/ (pc[w] = "run" /\ s \in keys[w])
          BY <3>3, <5>2 DEF WorkStep, Follow, Decide, Reread, EndCycle, Acquire, PassIdle,
               PassCheckpoints, PassCompletes, history
        <5>3. (\E q \in Shards : Reshard(q) \/ Trim(q) \/ Lag(q) \/ Replicate(q))
                \/ UNCHANGED vars => started' = started
          BY DEF Reshard, Trim, Lag, Replicate, vars, history
        <5>4. QED
          BY <2>1, <3>3, <5>1, <5>2, <5>3 DEF Next
      <4>2. s \in Shards /\ Cleared(s)
        BY <2>1, <4>1 DEF LineageInv, MemoryCleared, TypeOK
      <4>3. QED
        BY <2>1, <4>2, ClearedStays DEF LineageInv
    <3>4. QED
      BY <3>2, <3>3
  <2>4. QED
    BY <2>2, <2>3 DEF LineageInv
<1>3. QED
  BY <1>1, <1>2, PTL DEF Spec

\* Parent before child, behind eligible of worker/src/lib.rs: for any lineage, any
\* number of workers that lead at once, crash, meet failed calls and work from rows
\* and listings that are out of date, nobody works on a shard before its parent is
\* complete or gone from the stream.
THEOREM ParentBeforeChild == Spec => []ParentFirst
<1>1. LineageInv => ParentFirst
  BY DEF LineageInv
<1>2. QED
  BY <1>1, LineageSafe, PTL

-----------------------------------------------------------------------------
(* Tombstones *)

\* A child of s is being worked on.
Followed(s) == Children(s) \cap started # {}

\* A row claims no parent the shard does not have, and progress only where a pass
\* made some.
Honest(rows) ==
  \A c \in Shards : rows[c].on =>
     /\ rows[c].parents \subseteq ParentOf[c]
     /\ rows[c].completed \/ rows[c].cp = "SEQ" => c \in started

\* What worker w remembers, and is about to create or delete.
MemoryHonest(w) ==
  /\ Honest(snap[w])
  /\ \A n \in todo[w] : n.parents \subseteq ParentOf[n.id] /\ n.cp # "SEQ"
  /\ pc[w] = "gc" => \A s \in keys[w] : Followed(s)

LedgerInv ==
  /\ TypeOK
  /\ Honest(row) /\ Honest(replica)
  /\ \A w \in Workers : MemoryHonest(w)
  /\ \A s \in done : ~row[s].on => Followed(s)

-----------------------------------------------------------------------------
\* Which steps write rows.
LEMMA RowWrites ==
  ASSUME TypeOK, [Next]_vars
  PROVE  \/ row' = row
         \/ \E w \in Workers : \E n \in todo[w] : Create(w, n)
         \/ \E w \in Workers : \E q \in Shards :
              DeleteRow(w, q) \/ Acquire(w, q) \/ PassCheckpoints(w, q) \/ PassCompletes(w, q)
<1>1. ASSUME NEW w \in Workers, SyncStep(w)
      PROVE  \/ row' = row
             \/ \E n \in todo[w] : Create(w, n)
             \/ \E q \in Shards : DeleteRow(w, q)
  BY <1>1 DEF SyncStep, Lead, BidFails, SeedDescribe, SeedFails, SyncDone, CleanupDone,
              CreateFails, SyncParent, SyncFallback, DeleteFails, table
<1>2. ASSUME NEW w \in Workers, WorkStep(w) \/ CrashRestart(w)
      PROVE  \/ row' = row
             \/ \E q \in Shards : Acquire(w, q) \/ PassCheckpoints(w, q) \/ PassCompletes(w, q)
  BY <1>2 DEF WorkStep, Follow, Decide, Reread, EndCycle, PassIdle, CrashRestart, table
<1>3. (\E q \in Shards : Reshard(q) \/ Trim(q) \/ Lag(q) \/ Replicate(q)) \/ UNCHANGED vars
        => row' = row
  BY DEF Reshard, Trim, Lag, Replicate, vars, table
<1>4. QED
  BY <1>1, <1>2, <1>3 DEF Next

\* What each of them makes of a row: it is deleted, it is new, it keeps its parents
\* and its progress, or a pass over it starts.
LEMMA RowChanges ==
  ASSUME LedgerInv, [Next]_vars, NEW c \in Shards
  PROVE  \/ ~row'[c].on /\ (row[c].on => Followed(c))
         \/ /\ row'[c].on /\ row'[c].parents \subseteq ParentOf[c]
            /\ row'[c].completed \/ row'[c].cp = "SEQ" => c \in started'
<1> USE DEF LedgerInv
<1>0. started \subseteq started' /\ row[c] \in RowSet
  BY Grows DEF TypeOK
<1>1. CASE row'[c] = row[c]
  BY <1>0, <1>1, Rows DEF Honest
<1>2. ASSUME NEW w \in Workers, NEW n \in todo[w], Create(w, n), row'[c] # row[c]
      PROVE  /\ row'[c].on /\ row'[c].parents \subseteq ParentOf[c]
             /\ ~row'[c].completed /\ row'[c].cp # "SEQ"
  <2>1. n \in NewRow /\ n.id \in Shards
    BY DEF TypeOK, NewRow
  <2>2. c = n.id
    BY <1>2, <2>1 DEF Create, TypeOK
  <2>3. row'[c] = [NoRow EXCEPT !.on = TRUE, !.cp = n.cp, !.parents = n.parents]
    BY <1>2, <2>1, <2>2 DEF Create, TypeOK
  <2>4. row'[c].on /\ row'[c].parents = n.parents /\ ~row'[c].completed /\ row'[c].cp = n.cp
    BY <2>3 DEF NoRow
  <2>5. QED
    BY <2>2, <2>4 DEF MemoryHonest
<1>3. ASSUME NEW w \in Workers, NEW q \in Shards, DeleteRow(w, q), row'[c] # row[c]
      PROVE  ~row'[c].on /\ Followed(c)
  <2>1. q = c /\ row'[c] = NoRow
    BY <1>3 DEF DeleteRow, TypeOK
  <2>2. QED
    BY <1>3, <2>1 DEF DeleteRow, NoRow, MemoryHonest
<1>4. ASSUME NEW w \in Workers, NEW q \in Shards, Acquire(w, q), row'[c] # row[c]
      PROVE  /\ row'[c].on /\ row'[c].parents \subseteq ParentOf[c]
             /\ row'[c].completed \/ row'[c].cp = "SEQ" => c \in started
  <2>1. \/ row[c].on /\ row'[c] = [row[c] EXCEPT !.owner = w]
        \/ row'[c] = [NoRow EXCEPT !.on = TRUE, !.owner = w]
    BY <1>4 DEF Acquire, TypeOK
  <2>2. CASE row[c].on /\ row'[c] = [row[c] EXCEPT !.owner = w]
    BY <1>0, <2>2 DEF Honest, RowSet
  <2>3. CASE row'[c] = [NoRow EXCEPT !.on = TRUE, !.owner = w]
    BY <2>3 DEF NoRow
  <2>4. QED
    BY <2>1, <2>2, <2>3
<1>5. ASSUME NEW w \in Workers, NEW q \in Shards, PassCheckpoints(w, q) \/ PassCompletes(w, q),
             row'[c] # row[c]
      PROVE  row'[c].on /\ row'[c].parents \subseteq ParentOf[c] /\ c \in started'
  <2>1. q = c /\ row[c].on /\ c \in started'
    BY <1>5 DEF PassCheckpoints, PassCompletes, TypeOK
  <2>2. \/ row'[c] = [row[c] EXCEPT !.cp = "SEQ"]
        \/ row'[c] = [row[c] EXCEPT !.completed = TRUE]
    BY <1>5, <2>1 DEF PassCheckpoints, PassCompletes, TypeOK
  <2>3. row'[c].on /\ row'[c].parents = row[c].parents
    BY <1>0, <2>1, <2>2 DEF RowSet
  <2>4. QED
    BY <2>1, <2>3 DEF Honest
<1>6. QED
  BY <1>0, <1>1, <1>2, <1>3, <1>4, <1>5, RowWrites

LEMMA LedgerStep ==
  ASSUME LedgerInv, [Next]_vars
  PROVE  /\ Honest(row)' /\ Honest(replica)'
         /\ \A s \in done' : ~row'[s].on => Followed(s)'
<1> USE DEF LedgerInv
<1>0. /\ started \subseteq started' /\ TypeOK'
      /\ \A s \in Shards : Followed(s) => Followed(s)'
  BY Grows, TypeStep DEF Followed, Children
<1>1. Honest(row)'
  BY RowChanges DEF Honest
<1>2. Honest(replica)'
  <2>1. \A c \in Shards : \/ replica'[c] = replica[c] \/ replica'[c] = row[c]
                         \/ ~replica'[c].on
    BY ReplicaStep DEF NoRow
  <2>2. QED
    BY <1>0, <2>1 DEF Honest
<1>3. ASSUME NEW s \in done', ~row'[s].on
      PROVE  Followed(s)'
  <2>1. s \in Shards /\ (row[s].on => Followed(s))
    BY <1>0, <1>3, RowChanges DEF TypeOK
  <2>2. CASE s \in done
    BY <1>0, <2>1, <2>2
  <2>3. CASE s \notin done
    <3>1. row[s].on
      <4>1. ASSUME NEW w \in Workers, SyncStep(w) \/ CrashRestart(w)
            PROVE  done' = done
        BY <4>1 DEF SyncStep, Lead, BidFails, SeedDescribe, SeedFails, SyncDone, CleanupDone,
             Create, CreateFails, SyncParent, SyncFallback, DeleteRow, DeleteFails,
             CrashRestart, history
      <4>2. ASSUME NEW w \in Workers, WorkStep(w)
            PROVE  done' = done \/ row[s].on
        BY <1>3, <2>3, <4>2 DEF WorkStep, Follow, Decide, Reread, EndCycle, Acquire, PassIdle,
             PassCheckpoints, PassCompletes, history
      <4>3. (\E q \in Shards : Reshard(q) \/ Trim(q) \/ Lag(q) \/ Replicate(q))
              \/ UNCHANGED vars => done' = done
        BY DEF Reshard, Trim, Lag, Replicate, vars, history
      <4>4. QED
        BY <1>3, <2>3, <4>1, <4>2, <4>3 DEF Next
    <3>2. QED
      BY <1>0, <2>1, <3>1
  <2>4. QED
    BY <2>2, <2>3
<1>4. QED
  BY <1>1, <1>2, <1>3

\* A step of worker w leaves it honest rows to work from, and keys with a child at
\* work behind them to delete.
LEMMA HonestSync ==
  ASSUME LedgerInv, NEW w \in Workers, SyncStep(w)
  PROVE  /\ Honest(snap'[w])
         /\ \A n \in todo'[w] : n.parents \subseteq ParentOf[n.id] /\ n.cp # "SEQ"
         /\ pc'[w] = "gc" => \A s \in keys'[w] : Followed(s)
<1> USE DEF LedgerInv
<1>0. /\ Honest(snap[w])
      /\ \A n \in todo[w] : n.parents \subseteq ParentOf[n.id] /\ n.cp # "SEQ"
      /\ pc[w] = "gc" => \A s \in keys[w] : Followed(s)
      /\ Honest(Empty) /\ \A v \in Views : Honest(v)
  BY Rows, Viewed DEF MemoryHonest, Honest, NoRow
<1>1. CASE Lead(w)
  BY <1>0, <1>1 DEF Lead, TypeOK
<1>2. CASE BidFails(w) \/ CleanupDone(w)
  BY <1>0, <1>2 DEF BidFails, CleanupDone, TypeOK, memory
<1>3. CASE SeedDescribe(w)
  <2>1. \A n \in todo'[w] : n.parents \subseteq ParentOf[n.id] /\ n.cp # "SEQ"
    BY <1>3, SyncAssumption DEF SeedDescribe, TypeOK, GraphParents
  <2>2. QED
    BY <1>0, <1>3, <2>1 DEF SeedDescribe, TypeOK
<1>4. CASE SeedFails(w)
  BY <1>0, <1>4 DEF SeedFails, TypeOK
<1>5. CASE SyncDone(w)
  <2>1. \A s \in SafeToDelete(snap[w]) : Followed(s)
    <3>1. SUFFICES ASSUME NEW s \in SafeToDelete(snap[w])
                   PROVE  Followed(s)
      OBVIOUS
    <3>2. PICK c \in Shards : /\ snap[w][c].on /\ s \in snap[w][c].parents
                              /\ snap[w][c].completed \/ snap[w][c].cp = "SEQ"
      BY DEF SafeToDelete, ExistingIn
    <3>3. c \in Children(s) /\ c \in started
      BY <1>0, <3>2 DEF Honest, Children
    <3>4. QED
      BY <3>3 DEF Followed
  <2>2. QED
    BY <1>0, <1>5, <2>1 DEF SyncDone, TypeOK
<1>6. ASSUME NEW n \in todo[w], Create(w, n) \/ CreateFails(w, n)
      PROVE  /\ todo'[w] \subseteq todo[w]
             /\ snap' = snap /\ pc' = pc /\ keys' = keys
  BY <1>6 DEF Create, CreateFails, TypeOK
<1>7. ASSUME NEW p \in Shards, SyncParent(w, p) \/ SyncFallback(w, p)
      PROVE  /\ \A n \in todo'[w] : n.parents \subseteq ParentOf[n.id] /\ n.cp # "SEQ"
             /\ snap' = snap /\ pc' = pc /\ pc[w] = "sync"
  <2>1. CASE SyncParent(w, p)
    BY <2>1 DEF SyncParent, TypeOK, Children, ChildCp
  <2>2. CASE SyncFallback(w, p)
    BY <1>0, <2>2 DEF SyncFallback, TypeOK, GraphParents, ChildCp
  <2>3. QED
    BY <1>7, <2>1, <2>2
<1>8. ASSUME NEW s \in Shards, DeleteRow(w, s) \/ DeleteFails(w, s)
      PROVE  /\ todo' = todo /\ snap' = snap /\ pc' = pc /\ keys'[w] \subseteq keys[w]
  BY <1>8 DEF DeleteRow, DeleteFails, TypeOK
<1>9. QED
  BY <1>0, <1>1, <1>2, <1>3, <1>4, <1>5, <1>6, <1>7, <1>8 DEF SyncStep

LEMMA HonestWork ==
  ASSUME LedgerInv, NEW w \in Workers, WorkStep(w) \/ CrashRestart(w)
  PROVE  /\ Honest(snap'[w])
         /\ \A n \in todo'[w] : n.parents \subseteq ParentOf[n.id] /\ n.cp # "SEQ"
         /\ pc'[w] = "gc" => \A s \in keys'[w] : Followed(s)
<1> USE DEF LedgerInv
<1>0. /\ Honest(snap[w]) /\ Honest(Empty)
      /\ \A n \in todo[w] : n.parents \subseteq ParentOf[n.id] /\ n.cp # "SEQ"
  BY Rows DEF MemoryHonest, Honest, NoRow
<1>1. CASE CrashRestart(w)
  BY <1>0, <1>1 DEF CrashRestart, TypeOK
<1>2. CASE WorkStep(w)
  <2>1. snap' = snap /\ todo' = todo
    BY <1>2 DEF WorkStep, Follow, Decide, Reread, EndCycle, Acquire, PassIdle, PassCheckpoints,
                PassCompletes, memory
  <2>2. pc'[w] # "gc"
    BY <1>2 DEF WorkStep, Follow, Decide, Reread, EndCycle, Acquire, PassIdle, PassCheckpoints,
                PassCompletes, TypeOK
  <2>3. QED
    BY <1>0, <2>1, <2>2
<1>3. QED
  BY <1>1, <1>2

LEMMA HonestStep ==
  ASSUME LedgerInv, [Next]_vars, NEW u \in Workers
  PROVE  MemoryHonest(u)'
<1> USE DEF LedgerInv
<1>0. /\ started \subseteq started' /\ TypeOK'
      /\ \A s \in Shards : Followed(s) => Followed(s)'
  BY Grows, TypeStep DEF Followed, Children
<1>1. SUFFICES /\ Honest(snap'[u])
               /\ \A n \in todo'[u] : n.parents \subseteq ParentOf[n.id] /\ n.cp # "SEQ"
               /\ pc'[u] = "gc" => \A s \in keys'[u] : Followed(s)
  <2>1. keys'[u] \subseteq Shards
    BY <1>0 DEF TypeOK
  <2>2. Honest(snap'[u]) => Honest(snap[u])'
    BY <1>0 DEF Honest
  <2>3. QED
    BY <1>0, <2>1, <2>2 DEF MemoryHonest
<1>2. CASE snap'[u] = snap[u] /\ todo'[u] = todo[u] /\ pc'[u] = pc[u] /\ keys'[u] = keys[u]
  BY <1>2 DEF MemoryHonest
<1>3. ASSUME NEW s \in Shards, Reshard(s) \/ Trim(s) \/ Lag(s) \/ Replicate(s)
      PROVE  UNCHANGED <<pc, memory>>
  BY <1>3 DEF Reshard, Trim, Lag, Replicate
<1>4. ASSUME NEW w \in Workers, SyncStep(w) \/ WorkStep(w) \/ CrashRestart(w), w # u
      PROVE  snap'[u] = snap[u] /\ todo'[u] = todo[u] /\ pc'[u] = pc[u] /\ keys'[u] = keys[u]
  BY <1>4, OthersKeep
<1>5. QED
  BY <1>2, <1>3, <1>4, HonestSync, HonestWork DEF Next, vars, memory

\* leases_safe_to_delete and cleanup_completed_leases of worker/src/fleet.rs: for any
\* lineage and any number of leaders, on scans of any age, with crashes, failed calls
\* and rows created or acquired again in between, a completed shard's row is removed
\* only behind a child somebody works on.
THEOREM TombstonesFollowed == Spec => []TombstoneFollowed
<1>1. Init => LedgerInv
  <2>1. SUFFICES ASSUME Init PROVE LedgerInv
    OBVIOUS
  <2>2. TypeOK
    BY <2>1, TypeInit
  <2>3. Honest(row) /\ Honest(replica) /\ \A w \in Workers : MemoryHonest(w)
    BY <2>1, Rows DEF Init, Honest, MemoryHonest, NoRow
  <2>4. QED
    BY <2>1, <2>2, <2>3 DEF LedgerInv, Init
<1>2. LedgerInv /\ [Next]_vars => LedgerInv'
  BY LedgerStep, HonestStep, TypeStep DEF LedgerInv
<1>3. LedgerInv => TombstoneFollowed
  BY DEF LedgerInv, TombstoneFollowed, Followed
<1>4. QED
  BY <1>1, <1>2, <1>3, PTL DEF Spec
=============================================================================
