---------------------------- MODULE StreamSource ----------------------------
(***************************************************************************)
(* Reading one shard: get_records of source-ddbstreams/src/aws.rs with its *)
(* cursor cache, under passes (process_shard) of workers that take turns,  *)
(* each with a cache of its own.                                           *)
(*                                                                         *)
(* Records are 1..written; the service drops the oldest ones (trimmed) and *)
(* lets iterators expire.  An iterator is the number of records before it, *)
(* and whether it is still good.  A checkpoint is None (0), the LATEST     *)
(* sentinel (-1) or a sequence number.  Every call of the service is an    *)
(* action, so the stream moves on between them.  Throttling is retried     *)
(* inside a call, and a call that fails for good ends the pass.  Whether   *)
(* the text of an SDK error names the exception, which is_recoverable      *)
(* looks for in it, is left open (named).                                  *)
(* Who may run a pass is Fleet's subject: here passes do not overlap.      *)
(***************************************************************************)
EXTENDS Integers

CONSTANTS
  Workers, Nobody,
  LastSeq,      \* bound: records of the shard
  MaxRecords,   \* max_records, at most so many in one batch
  MaxExpiries,  \* bound on iterators that expire
  MaxBreaks     \* bound on passes and processes that end early

ASSUME SourceAssumption ==
  /\ Nobody \notin Workers /\ LastSeq \in Nat /\ MaxRecords \in Nat \ {0}
  /\ MaxExpiries \in Nat /\ MaxBreaks \in Nat

None == 0
Latest == -1

VARIABLES
  written, closed, trimmed,  \* the shard
  named,                     \* the SDK: the text of an error names its exception
  checkpoint, completed,     \* its lease row
  cursor,                    \* cursor[w]: w's cached iterator and what it continues
  reader, pc, after,         \* the worker that runs a pass, where it is, its position
  iter,                      \* the iterator in use
  lo, hi, end,               \* the batch: records lo+1..hi, and shard_end
  delivered,                 \* history: records a consumer acknowledged
  tip,                       \* history: where the last LATEST iterator began
  expiries, breaks

stream == <<written, closed, trimmed, named>>
lease == <<checkpoint, completed>>
pass == <<reader, pc, after>>
batch == <<lo, hi, end>>
history == <<delivered, tip>>
budget == <<expiries, breaks>>
vars == <<stream, lease, cursor, pass, iter, batch, history, budget>>

-----------------------------------------------------------------------------
Pos == Latest..LastSeq
Iterator == [at : 0..LastSeq, good : BOOLEAN]
NoIter == [at |-> 0, good |-> FALSE]
NoCursor == [on |-> FALSE, after |-> None, iter |-> NoIter]

TypeOK ==
  /\ written \in 0..LastSeq /\ closed \in BOOLEAN /\ trimmed \in 0..written
  /\ named \in BOOLEAN
  /\ checkpoint \in Pos /\ completed \in BOOLEAN
  /\ cursor \in [Workers -> [on : BOOLEAN, after : Pos, iter : Iterator]]
  /\ reader \in Workers \cup {Nobody} /\ after \in Pos
  /\ pc \in {"off", "fetch", "horizon", "read", "again", "retry", "deliver"}
  /\ iter \in Iterator
  /\ lo \in 0..LastSeq /\ hi \in lo..LastSeq /\ end \in BOOLEAN
  /\ delivered \in SUBSET (1..LastSeq) /\ tip \in 0..LastSeq
  /\ expiries \in 0..MaxExpiries /\ breaks \in 0..MaxBreaks

\* A lease seeded at either initial position (seed_checkpoint).
Init ==
  /\ written \in 0..LastSeq /\ closed = FALSE /\ trimmed = 0
  /\ named \in BOOLEAN
  /\ checkpoint \in {None, Latest} /\ completed = FALSE
  /\ cursor = [w \in Workers |-> NoCursor]
  /\ reader = Nobody /\ pc = "off" /\ after = None
  /\ iter = NoIter
  /\ lo = 0 /\ hi = 0 /\ end = FALSE
  /\ delivered = {} /\ tip = 0
  /\ expiries = 0 /\ breaks = 0

-----------------------------------------------------------------------------
(* The service *)

Append ==
  /\ ~closed /\ written < LastSeq
  /\ written' = written + 1
  /\ UNCHANGED <<closed, trimmed, named, lease, cursor, pass, iter, batch, history, budget>>

CloseShard ==
  /\ ~closed
  /\ closed' = TRUE
  /\ UNCHANGED <<written, trimmed, named, lease, cursor, pass, iter, batch, history, budget>>

Trim ==
  /\ trimmed < written
  /\ trimmed' = trimmed + 1
  /\ UNCHANGED <<written, closed, named, lease, cursor, pass, iter, batch, history, budget>>

ExpireCached(w) ==
  /\ cursor[w].on /\ cursor[w].iter.good /\ expiries < MaxExpiries
  /\ expiries' = expiries + 1
  /\ cursor' = [cursor EXCEPT ![w].iter.good = FALSE]
  /\ UNCHANGED <<stream, lease, pass, iter, batch, history, breaks>>

-----------------------------------------------------------------------------
(* get_records *)

\* from_checkpoint, and GetShardIterator for each kind of position.
Origin(cp) == IF cp = Latest THEN written ELSE IF cp = None THEN trimmed ELSE cp

\* AFTER_SEQUENCE_NUMBER below the trim horizon is refused.
Refused(cp) == cp > 0 /\ cp < trimmed

\* is_recoverable: it finds the exception it looks for in the text of the error.
Recoverable == named

\* Mutant: any cached iterator of the shard is taken.
CachedAny(w, cp) == cursor[w].on

\* cached_iterator: only one that continues from the requested position.
Cached(w, cp) == cursor[w].on /\ cursor[w].after = cp

\* Ghost: remember where a LATEST iterator begins.
NoteTip(cp) == tip' = IF cp = Latest THEN written ELSE tip

StartPass(w) ==
  /\ reader = Nobody /\ ~completed
  /\ reader' = w /\ pc' = "fetch" /\ after' = checkpoint
  /\ UNCHANGED <<stream, lease, cursor, iter, batch, history, budget>>

Reuse ==
  /\ pc = "fetch" /\ Cached(reader, after)
  /\ iter' = cursor[reader].iter
  /\ pc' = "read"
  /\ UNCHANGED <<stream, lease, cursor, reader, after, batch, history, budget>>

NoBatch == lo' = 0 /\ hi' = 0 /\ end' = FALSE

\* The pass is over, and what it held is gone.
Over == pc' = "off" /\ reader' = Nobody /\ after' = None /\ iter' = NoIter /\ NoBatch

\* derive_iterator, not refused: an iterator to go on with, or none, which counts as
\* the end of the shard (the service has none to give only there).
Derived(cp, next) ==
  /\ NoteTip(cp)
  /\ \/ /\ iter' = [at |-> Origin(cp), good |-> TRUE]
        /\ pc' = next
        /\ UNCHANGED batch
     \/ /\ closed /\ Origin(cp) = written
        /\ lo' = 0 /\ hi' = 0 /\ end' = TRUE
        /\ pc' = "deliver"
        /\ UNCHANGED iter

Derive ==
  /\ pc = "fetch" /\ ~Cached(reader, after) /\ ~Refused(after)
  /\ Derived(after, "read")
  /\ cursor' = IF pc' = "deliver" THEN [cursor EXCEPT ![reader] = NoCursor] ELSE cursor
  /\ UNCHANGED <<stream, lease, reader, after, delivered, budget>>

\* The position was trimmed: TRIM_HORIZON instead, if the error is recognised.
DeriveRefused ==
  /\ pc = "fetch" /\ ~Cached(reader, after) /\ Refused(after)
  /\ IF Recoverable THEN pc' = "horizon" /\ UNCHANGED <<reader, after, iter, batch>> ELSE Over
  /\ UNCHANGED <<stream, lease, cursor, history, budget>>

DeriveHorizon ==
  /\ pc = "horizon"
  /\ Derived(None, "read")
  /\ UNCHANGED <<stream, lease, cursor, reader, after, delivered, budget>>

Readable == iter.good /\ iter.at >= trimmed

\* advanced_after
Advanced(cp, from, to) == IF to > from THEN to ELSE cp

\* Mutant: the cursor is stored at the position that was asked for.
ThreadedBehind(to, last) ==
  cursor' = [cursor EXCEPT ![reader] =
    IF last THEN NoCursor
    ELSE [on |-> TRUE, after |-> after, iter |-> [at |-> to, good |-> TRUE]]]

\* store_cursor: thread the next iterator, or forget the shard at its end.
Threaded(to, last) ==
  cursor' = [cursor EXCEPT ![reader] =
    IF last THEN NoCursor
    ELSE [on |-> TRUE, after |-> Advanced(after, iter.at, to),
          iter |-> [at |-> to, good |-> TRUE]]]

\* GetRecords answers with some of what follows; no next iterator is the end of
\* a closed shard.
Respond ==
  /\ Readable
  /\ \E to \in iter.at..written, last \in BOOLEAN :
       /\ to <= iter.at + MaxRecords
       /\ last => closed /\ to = written
       /\ lo' = iter.at /\ hi' = to /\ end' = last
       /\ Threaded(to, last)
  /\ pc' = "deliver" /\ iter' = NoIter
  /\ UNCHANGED <<stream, lease, reader, after, history, budget>>

Read == pc = "read" /\ Respond

\* Mutant: the failed read ends the pass, and the expired cursor stays.
HealKeeps ==
  /\ pc = "read" /\ ~Readable
  /\ Over
  /\ UNCHANGED <<stream, lease, cursor, history, budget>>

\* The iterator expired or fell behind the trim horizon.  A recognised error drops
\* the cursor; any other one ends the call, and the cursor stays.
Heal ==
  /\ pc = "read" /\ ~Readable
  /\ IF Recoverable
     THEN /\ cursor' = [cursor EXCEPT ![reader] = NoCursor]
          /\ pc' = "again" /\ iter' = NoIter
          /\ UNCHANGED <<reader, after, batch>>
     ELSE Over /\ UNCHANGED cursor
  /\ UNCHANGED <<stream, lease, history, budget>>

\* ... and a fresh iterator is derived, once.
DeriveAgain ==
  /\ pc = "again" /\ ~Refused(after)
  /\ Derived(after, "retry")
  /\ UNCHANGED <<stream, lease, cursor, reader, after, delivered, budget>>

\* A position that was trimmed is refused here; the next pass starts over at
\* TRIM_HORIZON.
AgainRefused ==
  /\ pc = "again" /\ Refused(after)
  /\ Over
  /\ UNCHANGED <<stream, lease, cursor, history, budget>>

Retry == pc = "retry" /\ Respond

RetryFails ==
  /\ pc = "retry" /\ ~Readable
  /\ Over
  /\ UNCHANGED <<stream, lease, cursor, history, budget>>

-----------------------------------------------------------------------------
(* The pass around it *)

\* The batch is acknowledged and its checkpoint written (the default, without a
\* checkpoint interval); an empty batch ends the pass, the last one the shard.
Deliver ==
  /\ pc = "deliver"
  /\ delivered' = delivered \cup (lo + 1)..hi
  /\ checkpoint' = Advanced(after, lo, hi)
  /\ completed' = end
  /\ IF end \/ hi = lo THEN Over
     ELSE pc' = "fetch" /\ after' = checkpoint' /\ NoBatch /\ UNCHANGED <<reader, iter>>
  /\ UNCHANGED <<stream, cursor, tip, budget>>

\* The batch is acknowledged, and the checkpoint write fails.
CheckpointFails ==
  /\ pc = "deliver" /\ hi > lo /\ breaks < MaxBreaks
  /\ breaks' = breaks + 1
  /\ delivered' = delivered \cup (lo + 1)..hi
  /\ Over
  /\ UNCHANGED <<stream, lease, cursor, tip, expiries>>

\* Delivery or a call fails, or the lease is lost.
PassStops ==
  /\ reader # Nobody /\ breaks < MaxBreaks
  /\ breaks' = breaks + 1
  /\ Over
  /\ UNCHANGED <<stream, lease, cursor, history, expiries>>

\* A process ends, and its cache with it.
Crash(w) ==
  /\ breaks < MaxBreaks
  /\ breaks' = breaks + 1
  /\ cursor' = [cursor EXCEPT ![w] = NoCursor]
  /\ IF reader = w THEN Over ELSE UNCHANGED <<pass, iter, batch>>
  /\ UNCHANGED <<stream, lease, history, expiries>>

-----------------------------------------------------------------------------
PassStep ==
  \/ Reuse \/ Derive \/ DeriveRefused \/ DeriveHorizon \/ Read
  \/ Heal \/ DeriveAgain \/ AgainRefused \/ Retry \/ RetryFails \/ Deliver

Next ==
  \/ Append \/ CloseShard \/ Trim
  \/ \E w \in Workers : ExpireCached(w) \/ StartPass(w) \/ Crash(w)
  \/ PassStep \/ CheckpointFails \/ PassStops

Spec == Init /\ [][Next]_vars

\* A shard is closed one day, passes are run and go on; and GetRecords does not
\* answer with nothing for ever when there is something, or an end, to report.
Fairness ==
  /\ WF_vars(CloseShard) /\ WF_vars(PassStep)
  /\ WF_vars(\E w \in Workers : StartPass(w))
  /\ SF_vars((Read \/ Retry) /\ (end' \/ hi' > lo'))

FairSpec == Spec /\ Fairness

-----------------------------------------------------------------------------
(* Correctness *)

\* Records a reader at position n may have passed over: acknowledged ones, ones
\* the service trimmed, and for LATEST what was there when the tip was taken.
Excused == delivered \cup 1..trimmed \cup 1..tip

\* What lies below a position.
Below(n) == 1..n

\* Nothing is skipped: below the durable checkpoint, below the position of the
\* pass and below the start of its next batch there is no record that was neither
\* acknowledged nor out of reach, whichever cursor was reused, expired, trimmed or
\* lost with its process (get_records promises to continue from `after`); and a
\* complete shard was read to its end.  The state is well typed.
NothingPassedOver ==
  /\ TypeOK
  /\ Below(checkpoint) \subseteq Excused
  /\ pc # "off" => Below(after) \subseteq Excused
  /\ pc \in {"read", "retry"} => Below(iter.at) \subseteq Excused
  /\ pc = "deliver" => Below(lo) \subseteq Excused
  /\ completed => closed /\ Below(written) \subseteq Excused

\* A cached cursor leads on from the position it is filed under: what lies between
\* the two was trimmed, or was behind the tip.
CursorsContinue ==
  \A w \in Workers : cursor[w].on =>
    Below(cursor[w].iter.at) \subseteq Below(cursor[w].after) \cup 1..trimmed \cup 1..tip

\* "Self-heals the two recoverable iterator failures", source-ddbstreams/src/aws.rs:242:
\* whatever expires or is trimmed, the shard is read to its end, unless there was such
\* a failure whose text is_recoverable did not recognise.
ReadUnlessUnnamed == <>(completed \/ (~named /\ (expiries > 0 \/ trimmed > 0)))
=============================================================================
