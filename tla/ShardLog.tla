------------------------------ MODULE ShardLog ------------------------------
(***************************************************************************)
(* What the consumer promises for each shard, with no workers, leases or   *)
(* failures: a log grows and is closed; its records are handled in order   *)
(* and without a gap; the durable position never passes what was handled;  *)
(* the shard is finished only once everything in the closed log was        *)
(* handled, and then it stays as it is.                                    *)
(***************************************************************************)
EXTENDS Integers

CONSTANTS Shards, LastSeq

VARIABLES
  written,    \* records in the shard so far
  closed,     \* no record will follow (a reshard or a disabled stream)
  handled,    \* records some consumer acknowledged
  durable,    \* position in the lease table
  finished    \* SHARD_END recorded

vars == <<written, closed, handled, durable, finished>>

Init ==
  /\ written = [s \in Shards |-> 0]
  /\ closed = [s \in Shards |-> FALSE]
  /\ handled = [s \in Shards |-> {}]
  /\ durable = [s \in Shards |-> 0]
  /\ finished = [s \in Shards |-> FALSE]

Append(s) ==
  /\ ~closed[s] /\ written[s] < LastSeq
  /\ written' = [written EXCEPT ![s] = @ + 1]
  /\ UNCHANGED <<closed, handled, durable, finished>>

Close(s) ==
  /\ ~closed[s]
  /\ closed' = [closed EXCEPT ![s] = TRUE]
  /\ UNCHANGED <<written, handled, durable, finished>>

\* The handled records are always a prefix of the log, and the prefix only grows.
Handle(s) ==
  /\ \E n \in 1..written[s] :
        /\ handled[s] \subseteq 1..n
        /\ handled' = [handled EXCEPT ![s] = 1..n]
  /\ UNCHANGED <<written, closed, durable, finished>>

Persist(s) ==
  /\ ~finished[s]
  /\ \E n \in handled[s] : durable' = [durable EXCEPT ![s] = n]
  /\ UNCHANGED <<written, closed, handled, finished>>

Finish(s) ==
  /\ closed[s] /\ handled[s] = 1..written[s]
  /\ finished' = [finished EXCEPT ![s] = TRUE]
  /\ UNCHANGED <<written, closed, handled, durable>>

Next == \E s \in Shards : Append(s) \/ Close(s) \/ Handle(s) \/ Persist(s) \/ Finish(s)

Spec == Init /\ [][Next]_vars
=============================================================================
