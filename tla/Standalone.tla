----------------------------- MODULE Standalone -----------------------------
(***************************************************************************)
(* The two engines that need no fleet, over a stream that is resharded and *)
(* ages out under them: Worker of worker/src/lib.rs on the live source and *)
(* the lease table, and Scheduler of core/src/lib.rs on an in-process      *)
(* store.  Both run pass after pass (describe, then every eligible shard   *)
(* in turn) until everything listed is complete.                           *)
(*                                                                         *)
(* Processes fail or are killed at any point and are started again, two    *)
(* workers may overlap (the old one of a rolling restart has not ended     *)
(* yet), the stream changes between two pages of one describe, and the     *)
(* completion snapshot of a pass ages while the pass goes on.              *)
(*                                                                         *)
(* Worker's lease writes are conditional on leaseCounter and leaseOwner.   *)
(* Only equality of counters is ever observed, so a row keeps, instead of  *)
(* the number, the set of processes that hold the current one; whatever    *)
(* changes the owner moves the counter too, so the owner adds nothing.     *)
(***************************************************************************)
EXTENDS TableSetup, ShardGraph, FiniteSets

CONSTANTS
  Shards,        \* numbered in the order in which they come to be and are listed
  ParentOf,      \* ParentOf[s]: a lower shard, or NoShard
  LastSeq,       \* bound on the records of any shard
  Room           \* Room[s]: bound on the records of shard s

ASSUME LineageAssumption ==
  /\ Shards \subseteq Nat \ {0} /\ IsFiniteSet(Shards) /\ NoShard \notin Shards
  /\ LastSeq \in Nat /\ Room \in [Shards -> 0..LastSeq]
  /\ \A s \in Shards : ParentOf[s] \in {NoShard} \cup {q \in Shards : q < s}
  /\ \A r, s \in Shards : r < s /\ ParentOf[s] = NoShard => ParentOf[r] = NoShard

VARIABLES
  engine,      \* what the processes run: "worker", "scheduler", or "fleet" (start-up only)
  stream,      \* stream[s]: "future", "open", "closed" or "trimmed"
  written,     \* written[s]: records in the shard
  row,         \* row[s]: there is a lease of the shard
  knows,       \* knows[s]: the processes that hold the row's current leaseCounter
  durable,     \* durable[s]: checkpoint of the row, 0 for none
  finished,    \* finished[s]: completed of the row
  listing,     \* listing[p]: the shards on the pages of p's describe
  done,        \* done[p]: p's completion snapshot of this pass
  k,           \* k[p]: index into the graph
  pos,         \* pos[p]: `after`, the last sequence number p was given
  ended,       \* ended[p]: batch.shard_end
  handled,     \* history: handled[s], the records some processor was given
  overlapped   \* history: two processes were up at the same time

service == <<stream, written>>
rows == <<row, knows, durable, finished>>
pass == <<listing, done, k, pos, ended>>
vars == <<setupVars, engine, service, rows, pass, handled, overlapped>>

\* What no step of a running engine touches.
around == <<table, setup, starts, engine, service, overlapped>>

-----------------------------------------------------------------------------
\* What DescribeStream can list (as tuples, which TLC compares faster), and the entries
\* of a listing; a shard that has ended may still look open.
InOrder(list) == \A i, j \in DOMAIN list : i < j => list[i] < list[j]
Listings == {list \o <<>> : list \in {l \in SeqOf(Shards, Cardinality(Shards)) : InOrder(l)}}
Raw(list, open) ==
  [i \in DOMAIN list |-> [id |-> list[i], parent |-> ParentOf[list[i]], open |-> list[i] \in open]]

\* describe_shards, once it has its pages: open parents closed, then the lineage
\* (which does not depend on what looks open: LineageAgrees).
DescribeShards ==
  [list \in Listings |-> BuildShardGraph(<<CloseOpenParents(Raw(list, Shards))>>)]

EnginePC == {"snap", "acquire", "claim", "read", "ckpt", "finish", "ok"}

TypeOK ==
  /\ SetupTypeOK
  /\ pc \in [Processes -> SetupPC \cup EnginePC]
  /\ engine \in {"worker", "scheduler", "fleet"}
  /\ stream \in [Shards -> {"future", "open", "closed", "trimmed"}]
  /\ written \in [Shards -> 0..LastSeq] /\ durable \in [Shards -> 0..LastSeq]
  /\ row \in [Shards -> BOOLEAN] /\ finished \in [Shards -> BOOLEAN]
  /\ knows \in [Shards -> SUBSET Processes]
  /\ listing \in [Processes -> Listings] /\ k \in [Processes -> Nat]
  /\ \A p \in Processes : k[p] <= Len(listing[p])
  /\ done \in [Processes -> SUBSET Shards]
  /\ pos \in [Processes -> 0..LastSeq]
  /\ ended \in [Processes -> BOOLEAN]
  /\ handled \in [Shards -> SUBSET (1..LastSeq)]
  /\ overlapped \in BOOLEAN

Init ==
  /\ SetupInit
  /\ engine \in {"worker", "scheduler", "fleet"}
  /\ engine # "fleet" => table.status = "active"   \* made by its user, or by earlier workers
  /\ stream = [s \in Shards |-> IF ParentOf[s] = NoShard THEN "open" ELSE "future"]
  /\ written = [s \in Shards |-> 0]
  /\ row = [s \in Shards |-> FALSE] /\ knows = [s \in Shards |-> {}]
  /\ durable = [s \in Shards |-> 0] /\ finished = [s \in Shards |-> FALSE]
  /\ listing = [p \in Processes |-> <<>>] /\ done = [p \in Processes |-> {}]
  /\ k = [p \in Processes |-> 0] /\ pos = [p \in Processes |-> 0]
  /\ ended = [p \in Processes |-> FALSE]
  /\ handled = [s \in Shards |-> {}]
  /\ overlapped = FALSE

-----------------------------------------------------------------------------
(* The stream, external *)

\* A table item changes.
Write(s) ==
  /\ engine # "fleet"
  /\ stream[s] = "open" /\ written[s] < Room[s]
  /\ written' = [written EXCEPT ![s] = @ + 1]
  /\ UNCHANGED <<setupVars, engine, stream, rows, pass, handled, overlapped>>

\* A shard ends and its children, if it has any, take over.  A shard's id begins with
\* the time of its creation, so nothing comes to be before what is there already.
Reshard(s) ==
  /\ engine # "fleet"
  /\ stream[s] = "open"
  /\ \A q, r \in Shards :
       ParentOf[q] = s /\ r < q => stream[r] # "future" \/ ParentOf[r] = s
  /\ stream' = [q \in Shards |-> IF q = s THEN "closed"
                                 ELSE IF ParentOf[q] = s THEN "open" ELSE stream[q]]
  /\ UNCHANGED <<setupVars, engine, written, rows, pass, handled, overlapped>>

\* A day later the ended shard is gone.
Trim(s) ==
  /\ stream[s] = "closed"
  /\ stream' = [stream EXCEPT ![s] = "trimmed"]
  /\ UNCHANGED <<setupVars, engine, written, rows, pass, handled, overlapped>>

Listed == {s \in Shards : stream[s] \in {"open", "closed"}}

-----------------------------------------------------------------------------
(* Start and end of a process *)

Up(p) == ~Down(p)

Overlap(p) == overlapped' = (overlapped \/ \E q \in Processes \ {p} : Up(q))

\* A process that builds its own Worker: ensure_table first, with the defaults.
WorkerLaunch(p) ==
  /\ engine = "worker"
  /\ Launch(p, DefaultConfig) /\ Overlap(p)
  /\ UNCHANGED <<engine, service, rows, pass, handled>>

\* A Scheduler has its store to itself.
SchedulerLaunch(p) ==
  /\ engine = "scheduler"
  /\ \A q \in Processes : Down(q)
  /\ starts < MaxStarts
  /\ starts' = starts + 1
  /\ Goto(p, "ready")
  /\ UNCHANGED <<table, setup, faults, engine, service, rows, pass, handled, overlapped>>

\* The sidecar and the Rust client, which run a fleet worker once they are "ready".
FrontEndLaunch(p) ==
  /\ engine = "fleet"
  /\ Starting(p)
  /\ UNCHANGED <<engine, service, rows, pass, handled, overlapped>>

\* What the process kept in memory is gone, its leaseCounters included.
Forget(p, l) ==
  /\ Goto(p, l)
  /\ knows' = [s \in Shards |-> knows[s] \ {p}]
  /\ listing' = [listing EXCEPT ![p] = <<>>] /\ done' = [done EXCEPT ![p] = {}]
  /\ k' = [k EXCEPT ![p] = 0] /\ pos' = [pos EXCEPT ![p] = 0]
  /\ ended' = [ended EXCEPT ![p] = FALSE]

Running(p) == pc[p] = "ready" \/ pc[p] \in EnginePC \ {"ok"}

\* A failed call ends run with `?`, and so does a kill; a write whose reply was lost
\* is the write followed by this.
Fails(p) ==
  /\ engine # "fleet"
  /\ Running(p) /\ Fault
  /\ Forget(p, "failed")
  /\ UNCHANGED <<around, row, durable, finished, handled>>

-----------------------------------------------------------------------------
(* One pass: run and run_once *)

Graph(p) == DescribeShards[listing[p]]
Cur(p) == Graph(p)[k[p]].id

FinishedShards == {s \in Shards : finished[s]}

\* Mutant: a parent that somebody has begun is good enough.
EligibleBegun(meta, completed, existing) ==
  /\ meta.id \notin completed
  /\ \A q \in meta.parents : q \in completed \/ row[q] \/ q \notin existing

\* Mutant: a complete shard is worked on again.
EligibleAgain(meta, completed, existing) ==
  \A q \in meta.parents : q \in completed \/ q \notin existing

\* eligible of Worker.  That of Scheduler has no third case, and never meets it: the
\* graph names no parent that is not listed.
Eligible(meta, completed, existing) ==
  /\ meta.id \notin completed
  /\ \A q \in meta.parents : q \in completed \/ q \notin existing

\* The loop over the shards of the pass from index i on: the next eligible one, or the
\* end of the pass, after which run goes round again unless nothing was worked on.
Proceed(p, list, completed, i, worked) ==
  LET shards == DescribeShards[list]
      next == {j \in i..Len(shards) : Eligible(shards[j], completed, Ids(shards))} IN
  IF next = {}
  THEN Forget(p, IF worked THEN "ready" ELSE "ok")
  ELSE /\ Goto(p, IF engine = "worker" THEN "acquire" ELSE "read")
       /\ knows' = [s \in Shards |-> knows[s] \ {p}]
       /\ listing' = [listing EXCEPT ![p] = list]
       /\ done' = [done EXCEPT ![p] = IF engine = "worker" THEN completed ELSE {}]
       /\ k' = [k EXCEPT ![p] = Min(next)]
       /\ pos' = [pos EXCEPT ![p] = 0] /\ ended' = [ended EXCEPT ![p] = FALSE]

\* What ExclusiveStartShardId leaves to list.
Following(list) == {s \in Listed : \A i \in DOMAIN list : s > list[i]}

\* describe_shards returns; Worker goes on to its snapshot.
DescribeEnds(p, list) ==
  IF list = <<>>
  THEN Forget(p, "ok")
  ELSE /\ listing' = [listing EXCEPT ![p] = list]
       /\ Goto(p, "snap") /\ k' = [k EXCEPT ![p] = 1]
       /\ UNCHANGED <<knows, done, pos, ended>>

\* Mutant: the second page is never asked for.
DescribePageFirst(p) ==
  /\ engine = "worker" /\ At(p, "ready")
  /\ DescribeEnds(p, IF Listed = {} THEN <<>> ELSE <<Min(Listed)>>)
  /\ UNCHANGED <<around, faults, row, durable, finished, handled>>

\* One DescribeStream call, with the next shard there is at that time on its page; no
\* LastEvaluatedShardId when none follows.
DescribePage(p) ==
  /\ engine = "worker" /\ At(p, "ready")
  /\ IF Following(listing[p]) = {}
     THEN DescribeEnds(p, listing[p])
     ELSE LET list == Append(listing[p], Min(Following(listing[p]))) IN
          IF Following(list) = {}
          THEN DescribeEnds(p, list)
          ELSE /\ listing' = [listing EXCEPT ![p] = list]
               /\ UNCHANGED <<pc, knows, done, k, pos, ended>>
  /\ UNCHANGED <<around, faults, row, durable, finished, handled>>

\* Worker's completion snapshot, one `get` per shard; after the last one, the end of
\* run if all of them are complete, or the pass over the shards.
Snapshot(p) ==
  /\ At(p, "snap")
  /\ LET completed == done[p] \cup ({Cur(p)} \cap FinishedShards) IN
     IF k[p] < Len(Graph(p))
     THEN /\ done' = [done EXCEPT ![p] = completed] /\ k' = [k EXCEPT ![p] = @ + 1]
          /\ UNCHANGED <<pc, knows, listing, pos, ended>>
     ELSE IF Ids(Graph(p)) \subseteq completed
          THEN Forget(p, "ok")
          ELSE Proceed(p, listing[p], completed, 1, FALSE)
  /\ UNCHANGED <<around, faults, row, durable, finished, handled>>

\* Scheduler's describe and its check for the end, on a source that answers at once.
SchedulerDescribe(p) ==
  /\ engine = "scheduler" /\ At(p, "ready")
  /\ IF Listed \subseteq FinishedShards
     THEN Forget(p, "ok")
     ELSE \E list \in Listings :
            ToSet(list) = Listed /\ Proceed(p, list, FinishedShards, 1, FALSE)
  /\ UNCHANGED <<around, faults, row, durable, finished, handled>>

-----------------------------------------------------------------------------
(* One shard: process_shard of Worker, the inner loop of Scheduler *)

\* acquire: put the row if there is none, or else read its counter.
Acquire(p) ==
  /\ At(p, "acquire")
  /\ LET s == Cur(p) IN
     IF ~row[s]
     THEN /\ row' = [row EXCEPT ![s] = TRUE]
          /\ knows' = [knows EXCEPT ![s] = {p}]
          /\ Goto(p, "read")
     ELSE /\ knows' = [knows EXCEPT ![s] = @ \cup {p}]
          /\ Goto(p, "claim")
          /\ UNCHANGED row
  /\ UNCHANGED <<around, faults, durable, finished, pass, handled>>

\* claim, conditional on the counter just read; any owner is displaced.  The lease it
\* returns has no checkpoint, so the shard is read from TRIM_HORIZON.
Claim(p) ==
  /\ At(p, "claim")
  /\ LET s == Cur(p) IN
     IF p \in knows[s]
     THEN /\ knows' = [knows EXCEPT ![s] = {p}]
          /\ Goto(p, "read")
          /\ UNCHANGED pass
     ELSE Forget(p, "failed")
  /\ UNCHANGED <<around, faults, row, durable, finished, handled>>

\* Where p reads on: Scheduler asks its store, Worker remembers.
After(p) == IF engine = "worker" THEN pos[p] ELSE durable[Cur(p)]

\* get_records and process_records: a batch up to record n, with or without the end.
Batch(p, n, end) ==
  LET s == Cur(p) IN
  /\ handled' = [handled EXCEPT ![s] = @ \cup After(p) + 1..n]
  /\ pos' = [pos EXCEPT ![p] = n] /\ ended' = [ended EXCEPT ![p] = end]
  /\ Goto(p, IF n > After(p) THEN "ckpt" ELSE "finish")
  /\ UNCHANGED <<around, faults, rows, listing, done, k>>

ReadSome(p) ==
  /\ At(p, "read") /\ Cur(p) \in Listed
  /\ \E n \in After(p) + 1..written[Cur(p)] : Batch(p, n, FALSE)

ReadToEnd(p) ==
  /\ At(p, "read") /\ stream[Cur(p)] = "closed"
  /\ Batch(p, written[Cur(p)], TRUE)

\* Mutant: a batch without records is taken for the end of the shard.
ReadNothingEnds(p) ==
  /\ At(p, "read") /\ Cur(p) \in Listed
  /\ Batch(p, After(p), TRUE)

\* An empty batch that is not the end (even with records still to come): on to the
\* next shard, and to this one again in the next pass.
ReadNothing(p) ==
  /\ At(p, "read") /\ Cur(p) \in Listed
  /\ Proceed(p, listing[p], IF engine = "worker" THEN done[p] ELSE FinishedShards, k[p] + 1, TRUE)
  /\ UNCHANGED <<around, faults, row, durable, finished, handled>>

\* ResourceNotFoundException, from TRIM_HORIZON too.
ReadTrimmed(p) ==
  /\ At(p, "read") /\ Cur(p) \notin Listed
  /\ Forget(p, "failed")
  /\ UNCHANGED <<around, faults, row, durable, finished, handled>>

\* The condition of Worker's writes; Scheduler's are unconditional.
Holding(p, s) == engine = "worker" => p \in knows[s]

Checkpoint(p) ==
  /\ At(p, "ckpt")
  /\ LET s == Cur(p) IN
     IF Holding(p, s)
     THEN /\ durable' = [durable EXCEPT ![s] = pos[p]]
          /\ knows' = [knows EXCEPT ![s] = @ \cap {p}]
          /\ Goto(p, IF ended[p] THEN "finish" ELSE "read")
          /\ UNCHANGED pass
     ELSE Forget(p, "failed") /\ UNCHANGED durable
  /\ UNCHANGED <<around, faults, row, finished, handled>>

\* Mutant: the tombstone is not written.
MarkCompleteNot(p) ==
  /\ At(p, "finish")
  /\ Proceed(p, listing[p], IF engine = "worker" THEN done[p] ELSE FinishedShards, k[p] + 1, TRUE)
  /\ UNCHANGED <<around, faults, row, durable, finished, handled>>

\* shard_ended, mark_complete, and on to the next shard.
MarkComplete(p) ==
  /\ At(p, "finish")
  /\ LET s == Cur(p) IN
     IF Holding(p, s)
     THEN /\ finished' = [finished EXCEPT ![s] = TRUE]
          /\ Proceed(p, listing[p],
                     IF engine = "worker" THEN done[p] ELSE FinishedShards \cup {s},
                     k[p] + 1, TRUE)
     ELSE Forget(p, "failed") /\ UNCHANGED finished
  /\ UNCHANGED <<around, faults, row, durable, handled>>

-----------------------------------------------------------------------------
Step(p) ==
  \/ EnsureTable(p) /\ UNCHANGED <<engine, service, rows, pass, handled, overlapped>>
  \/ DescribePage(p) \/ Snapshot(p) \/ SchedulerDescribe(p)
  \/ Acquire(p) \/ Claim(p)
  \/ ReadSome(p) \/ ReadToEnd(p) \/ ReadNothing(p) \/ ReadTrimmed(p)
  \/ Checkpoint(p) \/ MarkComplete(p)

Service ==
  \/ \E s \in Shards : Write(s) \/ Reshard(s) \/ Trim(s)
  \/ TableActivates /\ UNCHANGED <<engine, service, rows, pass, handled, overlapped>>

Next ==
  \/ Service
  \/ \E p \in Processes :
       Step(p) \/ Fails(p) \/ WorkerLaunch(p) \/ SchedulerLaunch(p) \/ FrontEndLaunch(p)

\* A started process goes on; a table that is being made is active in the end; the
\* shards close ("a bounded/closing set of shards", core/src/lib.rs).  Nothing is
\* assumed of what an answer of GetRecords holds.
Fairness ==
  /\ \A p \in Processes : WF_vars(Step(p))
  /\ WF_vars(TableActivates /\ UNCHANGED <<engine, service, rows, pass, handled, overlapped>>)
  /\ WF_vars(\E s \in Shards : Reshard(s))

Spec == Init /\ [][Next]_vars /\ Fairness

-----------------------------------------------------------------------------
(* Correctness *)

\* Parent before child (worker/src/lib.rs:325, core/src/lib.rs:243): no record of a
\* shard is handled before its parent is complete or has aged out, although snapshots
\* are stale, pages torn and two workers at it.
ParentFirst ==
  \A s \in Shards : handled[s] # {} /\ ParentOf[s] # NoShard =>
    finished[ParentOf[s]] \/ stream[ParentOf[s]] = "trimmed"

\* What the table says was done was done, by whichever worker: the checkpoint was
\* handled, and a complete shard has ended and was handled to its end (in a
\* well-typed state).
RowsTellTheTruth ==
  /\ TypeOK
  /\ \A s \in Shards :
       /\ durable[s] \in handled[s] \cup {0}
       /\ finished[s] => stream[s] \in {"closed", "trimmed"} /\ handled[s] = 1..written[s]

\* run "[r]eturns when every shard's lease is complete" (worker/src/lib.rs:239): a
\* worker that returns Ok leaves nothing of the stream behind, unless another one was
\* running at the same time.
OkMeansDrained ==
  [][\A p \in Processes : pc[p] # "ok" /\ pc'[p] = "ok" /\ ~overlapped
       => Listed \subseteq FinishedShards]_vars

\* Until two workers overlap, the engine keeps the promise of ShardLog, over crashes
\* and restarts: records in order without a gap, finished shards left alone.
Log == INSTANCE ShardLog
  WITH closed <- [s \in Shards |-> stream[s] \in {"closed", "trimmed"}]
ImplementsUntilOverlap == Log!Init /\ [][Log!Next \/ overlapped]_(Log!vars)

\* However the stream changes under a describe: the lineage does not depend on where
\* the pages are cut or on shards that two pages repeat, the incremental path
\* (merge_child_shards) arrives at the same graph as the full one, and
\* close_open_parents closes every listed parent and only shards that have ended,
\* whichever of the others still look open.
LineageAgrees ==
  \A p \in Processes : \A late \in SUBSET {s \in Shards : stream[s] # "open"} :
    At(p, "snap") =>
      LET raw == Raw(listing[p], late \cup {s \in Shards : stream[s] = "open"})
          normal == CloseOpenParents(raw) IN
      /\ \A i \in 0..Len(raw) : \A j \in 1..i + 1 :
           LET known == SubSeq(raw, 1, i)
               rest == SubSeq(raw, j, Len(raw)) IN
           /\ BuildShardGraph(<<known, rest>>) = Graph(p)
           /\ MergeChildShards(BuildShardGraph(<<known>>), rest) = Graph(p)
      /\ \A e \in ToSet(normal) :
           /\ e.open => \A f \in ToSet(raw) : f.parent # e.id
           /\ ~e.open => stream[e.id] # "open"

\* A process that was started settles: it ends, or, as part of a fleet, it is ready.
\* Only empty batches without end keep a run going: each of them lets go of the shard,
\* which is then read from TRIM_HORIZON again (worker/src/lib.rs:317).
Settles ==
  \A p \in Processes :
    \/ []<><<ReadNothing(p)>>_vars
    \/ Up(p) ~> (Down(p) \/ (engine = "fleet" /\ At(p, "ready")))
=============================================================================
