----------------------------- MODULE SidecarIpc -----------------------------
(***************************************************************************)
(* The sidecar process and its client: sidecar/src/ipc.rs (one connection  *)
(* shared by every shard's deliver_batch, and the reader task that routes  *)
(* the client's acks) under the main loop and graceful_handoff of          *)
(* sidecar/src/main.rs.                                                    *)
(*                                                                         *)
(* A line is a record; the two directions of the connection are queues.    *)
(* Batches of a shard are numbered, and an ack carries the number          *)
(* (last_seq) of its batch.  The client stands for any of the clients/:    *)
(* it handles the lines in order and acknowledges each batch once it has   *)
(* handled it.  Malformed lines, ready and the lines that only inform the  *)
(* client of a completed shard or a lost lease change nothing here.        *)
(***************************************************************************)
EXTENDS Integers, Sequences

CONSTANTS
  Shards,         \* the shards this worker owns
  LastBatch,      \* bound: batches per shard
  ClientMayStop,  \* the client may send stop
  ClientMayVanish \* the client may disconnect

ASSUME IpcAssumption ==
  LastBatch \in Nat /\ ClientMayStop \in BOOLEAN /\ ClientMayVanish \in BOOLEAN

VARIABLES
  toClient, toSidecar,  \* the connection
  waiter,               \* waiter[s]: Ipc.pending, the batch whose ack is awaited (0: none)
  answer,               \* answer[s]: what the oneshot delivered (0: nothing yet)
  task, batch,          \* the pass over s: where it is, and its current batch
  persisted,            \* persisted[s]: last ack handed to the checkpoint
  reading, stopped,     \* the reader task runs; Ipc.stopped
  main,                 \* where the main loop is
  owned, noticed,       \* the handoff: shards list_owned returned, shards notified
  client,               \* "up", "stopping" (stop sent) or "gone"
  handled               \* handled[s]: batches the client handled

lines == <<toClient, toSidecar>>
handoff == <<owned, noticed>>
deliver == <<waiter, answer, task, batch, persisted>>
vars == <<lines, deliver, reading, stopped, main, handoff, client, handled>>

\* The worker's heartbeat row (__hb__:<worker>), whose owner is the worker.
HeartbeatRow == "__hb__"

Line == [type : {"records", "shutdown_requested", "shutdown", "checkpoint", "stop"},
         shard : Shards \cup {HeartbeatRow, "-"}, n : 0..LastBatch]

TypeOK ==
  /\ toClient \in Seq(Line) /\ toSidecar \in Seq(Line)
  /\ waiter \in [Shards -> 0..LastBatch] /\ answer \in [Shards -> 0..LastBatch]
  /\ task \in [Shards -> {"idle", "registered", "waiting", "over"}]
  /\ batch \in [Shards -> 0..LastBatch] /\ persisted \in [Shards -> 0..LastBatch]
  /\ reading \in BOOLEAN /\ stopped \in BOOLEAN
  /\ main \in {"cycle", "sleep", "notify", "window", "release", "end"}
  /\ owned \in SUBSET (Shards \cup {HeartbeatRow}) /\ noticed \in SUBSET owned
  /\ client \in {"up", "stopping", "gone"} /\ handled \in [Shards -> 0..LastBatch]

Init ==
  /\ toClient = <<>> /\ toSidecar = <<>>
  /\ waiter = [s \in Shards |-> 0] /\ answer = [s \in Shards |-> 0]
  /\ task = [s \in Shards |-> "idle"] /\ batch = [s \in Shards |-> 0]
  /\ persisted = [s \in Shards |-> 0]
  /\ reading = TRUE /\ stopped = FALSE
  /\ main = "cycle" /\ owned = {} /\ noticed = {}
  /\ client = "up" /\ handled = [s \in Shards |-> 0]

Msg(type, s, n) == [type |-> type, shard |-> s, n |-> n]

-----------------------------------------------------------------------------
(* deliver_batch, once per shard at a time *)

\* Mutant: the batch is sent before its waiter is in the map.
RegisterLate(s) ==
  /\ main = "cycle" /\ task[s] = "idle" /\ batch[s] < LastBatch /\ client # "gone"
  /\ batch' = [batch EXCEPT ![s] = @ + 1]
  /\ toClient' = Append(toClient, Msg("records", s, batch[s] + 1))
  /\ task' = [task EXCEPT ![s] = "waiting"]
  /\ UNCHANGED <<toSidecar, waiter, answer, persisted, reading, stopped, main, handoff, client, handled>>

\* The waiter goes into the map first.
Register(s) ==
  /\ main = "cycle" /\ task[s] = "idle" /\ batch[s] < LastBatch
  /\ batch' = [batch EXCEPT ![s] = @ + 1]
  /\ waiter' = [waiter EXCEPT ![s] = batch[s] + 1]
  /\ task' = [task EXCEPT ![s] = "registered"]
  /\ UNCHANGED <<lines, answer, persisted, reading, stopped, main, handoff, client, handled>>

Send(s) ==
  /\ task[s] = "registered" /\ client # "gone"
  /\ toClient' = Append(toClient, Msg("records", s, batch[s]))
  /\ task' = [task EXCEPT ![s] = "waiting"]
  /\ UNCHANGED <<toSidecar, waiter, answer, batch, persisted, reading, stopped, main,
                 handoff, client, handled>>

\* The write failed: the waiter is removed and the batch has no ack.
SendFails(s) ==
  /\ task[s] = "registered" /\ client = "gone"
  /\ waiter' = [waiter EXCEPT ![s] = 0]
  /\ task' = [task EXCEPT ![s] = "idle"]
  /\ UNCHANGED <<lines, answer, batch, persisted, reading, stopped, main,
                 handoff, client, handled>>

\* The oneshot fired: the ack is what the fleet persists.
Acked(s) ==
  /\ task[s] = "waiting" /\ answer[s] # 0
  /\ persisted' = [persisted EXCEPT ![s] = answer[s]]
  /\ answer' = [answer EXCEPT ![s] = 0]
  /\ task' = [task EXCEPT ![s] = "idle"]
  /\ UNCHANGED <<lines, waiter, batch, reading, stopped, main, handoff, client, handled>>

\* The pass returns: the shard has nothing to read for now.
PassReturns(s) ==
  /\ main = "cycle" /\ task[s] = "idle"
  /\ task' = [task EXCEPT ![s] = "over"]
  /\ UNCHANGED <<lines, waiter, answer, batch, persisted, reading, stopped, main,
                 handoff, client, handled>>

-----------------------------------------------------------------------------
(* The reader task *)

\* Mutant: the ack wakes every shard's waiter.
ReadCheckpointAny ==
  /\ reading /\ toSidecar # <<>> /\ Head(toSidecar).type = "checkpoint"
  /\ answer' = [s \in Shards |-> IF waiter[s] # 0 THEN Head(toSidecar).n ELSE answer[s]]
  /\ waiter' = [s \in Shards |-> 0]
  /\ toSidecar' = Tail(toSidecar)
  /\ UNCHANGED <<toClient, task, batch, persisted, reading, stopped, main, handoff, client, handled>>

\* A checkpoint line: its shard's waiter, if there is one, gets the number.
ReadCheckpoint ==
  /\ reading /\ toSidecar # <<>> /\ Head(toSidecar).type = "checkpoint"
  /\ LET s == Head(toSidecar).shard IN
       /\ answer' = IF waiter[s] # 0 THEN [answer EXCEPT ![s] = Head(toSidecar).n] ELSE answer
       /\ waiter' = [waiter EXCEPT ![s] = 0]
  /\ toSidecar' = Tail(toSidecar)
  /\ UNCHANGED <<toClient, task, batch, persisted, reading, stopped, main, handoff, client, handled>>

\* stop, or the end of the stream: signal_stop, and the reader is done.
ReadStop ==
  /\ reading
  /\ \/ toSidecar # <<>> /\ Head(toSidecar).type = "stop" /\ toSidecar' = Tail(toSidecar)
     \/ toSidecar = <<>> /\ client = "gone" /\ UNCHANGED toSidecar
  /\ reading' = FALSE /\ stopped' = TRUE
  /\ UNCHANGED <<toClient, deliver, main, handoff, client, handled>>

\* request_stop from the signal handler.
Signal ==
  /\ ~stopped
  /\ stopped' = TRUE
  /\ UNCHANGED <<lines, deliver, reading, main, handoff, client, handled>>

-----------------------------------------------------------------------------
(* main: run cycles until stopped, then hand off *)

\* run_cycle returns when every task has.
CycleReturns ==
  /\ main = "cycle" /\ \A s \in Shards : task[s] = "over"
  /\ main' = "sleep"
  /\ UNCHANGED <<lines, deliver, reading, stopped, handoff, client, handled>>

\* Mutant: the loop starts a cycle without testing is_stopped.
NextCycleAnyway ==
  /\ main = "sleep"
  /\ main' = "cycle"
  /\ task' = [s \in Shards |-> "idle"]
  /\ UNCHANGED <<lines, waiter, answer, batch, persisted, reading, stopped,
                 handoff, client, handled>>

\* The select: the sleep ends (the loop tests is_stopped), or stopped() resolves.
\* A stop that arrives between stopped()'s test and its wait wakes nobody, so the
\* stop is seen at the latest when the sleep ends.
NextCycle ==
  /\ main = "sleep" /\ ~stopped
  /\ main' = "cycle"
  /\ task' = [s \in Shards |-> "idle"]
  /\ UNCHANGED <<lines, waiter, answer, batch, persisted, reading, stopped,
                 handoff, client, handled>>

\* What owned_shards can answer: fewer shards than it worked on (stolen or completed
\* leases), and none when the lookup fails.  The filter excludes the leader's sentinel
\* and not the heartbeat row.
OwnedShards == SUBSET (Shards \cup {HeartbeatRow})

\* The loop ends: stopped is seen, or the cycle reported every shard complete.
\* graceful_handoff looks up the owned shards; without any, the release comes at once.
HandoffBegins ==
  /\ \/ main = "sleep" /\ stopped
     \/ main = "cycle" /\ \A s \in Shards : task[s] = "over"
  /\ owned' \in OwnedShards
  /\ main' = IF owned' = {} THEN "release" ELSE "notify"
  /\ UNCHANGED <<lines, deliver, reading, stopped, noticed, client, handled>>

\* Best effort: the line is lost when the client is gone.
ToClient(m) == toClient' = IF client = "gone" THEN toClient ELSE Append(toClient, m)

\* A notice per owned shard, a bounded window, the release.
Notice(s) ==
  /\ main = "notify" /\ s \in owned \ noticed
  /\ noticed' = noticed \cup {s}
  /\ ToClient(Msg("shutdown_requested", s, 0))
  /\ UNCHANGED <<toSidecar, deliver, reading, stopped, main, owned, client, handled>>

\* Mutant: the window opens while notices are still to be sent.
WindowEarly ==
  /\ main = "notify"
  /\ main' = "window"
  /\ UNCHANGED <<lines, deliver, reading, stopped, handoff, client, handled>>

\* The window in which the client can finish and ack.
Window ==
  /\ main = "notify" /\ noticed = owned
  /\ main' = "window"
  /\ UNCHANGED <<lines, deliver, reading, stopped, handoff, client, handled>>

Release ==
  /\ main = "window"
  /\ main' = "release"
  /\ UNCHANGED <<lines, deliver, reading, stopped, handoff, client, handled>>

Exit ==
  /\ main = "release"
  /\ main' = "end"
  /\ ToClient(Msg("shutdown", "-", 0))
  /\ UNCHANGED <<toSidecar, deliver, reading, stopped, handoff, client, handled>>

-----------------------------------------------------------------------------
(* The client *)

\* Handle the next line, also after stop was sent (stop() is called from another
\* thread than run()); a batch is acknowledged once it is handled.
ClientHandles ==
  /\ client # "gone" /\ toClient # <<>>
  /\ toClient' = Tail(toClient)
  /\ LET m == Head(toClient) IN
       IF m.type = "records"
       THEN /\ handled' = [handled EXCEPT ![m.shard] = m.n]
            /\ toSidecar' = Append(toSidecar, Msg("checkpoint", m.shard, m.n))
       ELSE UNCHANGED <<handled, toSidecar>>
  /\ UNCHANGED <<deliver, reading, stopped, main, handoff, client>>

ClientStops ==
  /\ ClientMayStop /\ client = "up"
  /\ toSidecar' = Append(toSidecar, Msg("stop", "-", 0))
  /\ client' = "stopping"
  /\ UNCHANGED <<toClient, deliver, reading, stopped, main, handoff, handled>>

\* The client's end closes: what it sent can still be read, what was sent to it
\* is lost.
ClientGone ==
  /\ ClientMayVanish /\ client # "gone"
  /\ client' = "gone"
  /\ toClient' = <<>>
  /\ UNCHANGED <<toSidecar, deliver, reading, stopped, main, handoff, handled>>

-----------------------------------------------------------------------------
DeliverStep(s) == Register(s) \/ Send(s) \/ SendFails(s) \/ Acked(s) \/ PassReturns(s)
MainStep ==
  \/ CycleReturns \/ NextCycle \/ HandoffBegins \/ Window \/ Release \/ Exit
  \/ \E s \in Shards \cup {HeartbeatRow} : Notice(s)

Next ==
  \/ \E s \in Shards : DeliverStep(s)
  \/ ReadCheckpoint \/ ReadStop \/ Signal
  \/ MainStep
  \/ ClientHandles \/ ClientStops \/ ClientGone

Spec == Init /\ [][Next]_vars

\* Tasks, the reader, the main loop and a client that stays are scheduled; nothing
\* obliges a client to stop or to leave, or a signal to arrive.
Fairness ==
  /\ \A s \in Shards : WF_vars(DeliverStep(s))
  /\ WF_vars(ReadCheckpoint) /\ WF_vars(ReadStop) /\ WF_vars(MainStep) /\ WF_vars(ClientHandles)

FairSpec == Spec /\ Fairness

-----------------------------------------------------------------------------
(* Correctness *)

\* At least once across the connection: what the fleet persists for a shard was
\* handled by the client, also when acks of several shards are interleaved (in a
\* well-typed state).
PersistedWasHandled ==
  /\ TypeOK
  /\ \A s \in Shards : persisted[s] <= handled[s]

\* "Register the waiter BEFORE sending so an immediate ack can't race past us",
\* sidecar/src/ipc.rs:136: every ack the reader takes off the connection finds the
\* waiter of exactly its batch.
AckFindsItsWaiter ==
  reading /\ toSidecar # <<>> /\ Head(toSidecar).type = "checkpoint" =>
     waiter[Head(toSidecar).shard] = Head(toSidecar).n

\* "Every notification MUST precede the release", sidecar/src/main.rs:90: when the
\* leases go, every row list_owned found was announced, and no batch is still in flight.
HandoffInOrder ==
  main \in {"release", "end"} => noticed = owned /\ \A s \in Shards : task[s] = "over"

\* With a client that stays, the stop of a signal leads to the end of the process:
\* neither the batches in flight nor a notification nobody was waiting for can hold
\* the loop up.
StopEnds == [](client = "up") => (stopped ~> main = "end")
=============================================================================
