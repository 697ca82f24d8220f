----------------------------- MODULE LeaseStore -----------------------------
(***************************************************************************)
(* The rows of the DynamoDB lease table and the conditional writes that    *)
(* lease-dynamodb/src/dynamodb.rs issues on them, as operators on a row.   *)
(* A row is a record with at least the fields                              *)
(*    owner       leaseOwner, NoOwner when the attribute is absent         *)
(*    counter     leaseCounter, the optimistic lock                        *)
(*    checkpoint  the sequence number last persisted                       *)
(*    completed   the SHARD_END tombstone                                  *)
(* The parents of a shard are in its row too; ShardSync is about those.    *)
(* Every operator named after a write yields the row after the write; its  *)
(* condition expression is a separate predicate, so that the writer's      *)
(* action states both the success and the failure of the condition.        *)
(***************************************************************************)
EXTENDS Integers

CONSTANT NoOwner      \* the absent leaseOwner attribute

TrimHorizon == 0      \* the absent checkpoint attribute: read from the oldest record

\* create_shard_lease: an unowned row at counter 0 with a start checkpoint.
Published(cp) == [owner |-> NoOwner, counter |-> 0, checkpoint |-> cp, completed |-> FALSE]

\* Mutant: the condition expression forgets the counter.
HoldsOwnerOnly(row, w, c) == row.owner = w

\* "leaseCounter = :c AND leaseOwner = :o", the condition of renew, checkpoint,
\* mark_complete and release.
Holds(row, w, c) == row.owner = w /\ row.counter = c

\* "leaseCounter = :c", the only condition of claim: any owner may be displaced.
Unmoved(row, c) == row.counter = c

\* Mutant: a claim that puts a whole new row and so drops the tombstone.
ClaimedReopens(row, w) == [row EXCEPT !.owner = w, !.counter = @ + 1, !.completed = FALSE]

\* claim: SET leaseOwner = :o, leaseCounter = leaseCounter + 1
Claimed(row, w) == [row EXCEPT !.owner = w, !.counter = @ + 1]

\* checkpoint: SET checkpoint = :cp, leaseCounter = leaseCounter + 1
Checkpointed(row, n) == [row EXCEPT !.checkpoint = n, !.counter = @ + 1]

\* mark_complete: SET completed = true (the counter does not move)
Completed(row) == [row EXCEPT !.completed = TRUE]

\* release: REMOVE leaseOwner SET leaseCounter = leaseCounter + 1
Released(row) == [row EXCEPT !.owner = NoOwner, !.counter = @ + 1]
=============================================================================
