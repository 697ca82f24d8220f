-------------------------- MODULE SidecarIpcProofs --------------------------
(***************************************************************************)
(* Proofs about SidecarIpc for any shards, any number of batches and any   *)
(* behaviour of the client.                                                *)
(***************************************************************************)
EXTENDS SidecarIpc, SequenceTheorems, TLAPS

-----------------------------------------------------------------------------
(* The inductive invariant *)

\* Line m belongs to the batch its shard's task is waiting for, and the waiter is
\* still in the map.
Awaited(m) ==
  m.shard \in Shards /\ task[m.shard] = "waiting" /\ m.n = waiter[m.shard] /\ m.n # 0

IsRecords(i) == toClient[i].type = "records"
IsAck(i) == toSidecar[i].type = "checkpoint"

\* Every batch on its way to the client, and every ack on its way back, is awaited;
\* what is acknowledged was handled.
LinesAwaited ==
  /\ \A i \in 1..Len(toClient) : IsRecords(i) => Awaited(toClient[i])
  /\ \A i \in 1..Len(toSidecar) : IsAck(i) =>
        Awaited(toSidecar[i]) /\ toSidecar[i].n <= handled[toSidecar[i].shard]

\* A shard has at most one line on the connection: a batch, or the ack for it.
OneLinePerShard ==
  /\ \A i, j \in 1..Len(toClient) :
        IsRecords(i) /\ IsRecords(j) /\ i # j => toClient[i].shard # toClient[j].shard
  /\ \A i, j \in 1..Len(toSidecar) :
        IsAck(i) /\ IsAck(j) /\ i # j => toSidecar[i].shard # toSidecar[j].shard
  /\ \A i \in 1..Len(toClient), j \in 1..Len(toSidecar) :
        IsRecords(i) /\ IsAck(j) => toClient[i].shard # toSidecar[j].shard

\* The state of one deliver_batch call.
DeliverInOrder ==
  \A s \in Shards :
    /\ task[s] = "registered" => waiter[s] = batch[s] /\ batch[s] # 0
    /\ waiter[s] # 0 => waiter[s] = batch[s] /\ task[s] \in {"registered", "waiting"}
    /\ answer[s] # 0 => waiter[s] = 0 /\ task[s] = "waiting"
    /\ persisted[s] <= handled[s] /\ answer[s] <= handled[s] /\ handled[s] <= batch[s]

\* The phases of the main loop.
MainInOrder ==
  /\ main # "cycle" => \A s \in Shards : task[s] = "over"
  /\ main \in {"cycle", "sleep"} => noticed = {}
  /\ main \in {"window", "release", "end"} => noticed = owned

Inv == TypeOK /\ LinesAwaited /\ OneLinePerShard /\ DeliverInOrder /\ MainInOrder

USE IpcAssumption DEF IpcAssumption

-----------------------------------------------------------------------------
(* The connection *)

LEMMA AppendLine ==
  ASSUME NEW q \in Seq(Line), NEW m \in Line
  PROVE  /\ Append(q, m) \in Seq(Line) /\ Len(Append(q, m)) = Len(q) + 1 /\ Len(q) \in Nat
         /\ Append(q, m)[Len(q) + 1] = m
         /\ \A i \in 1..Len(q) : Append(q, m)[i] = q[i]
BY AppendProperties

LEMMA TailLines ==
  ASSUME NEW q \in Seq(Line), q # <<>>
  PROVE  /\ Tail(q) \in Seq(Line) /\ Len(q) \in Nat /\ Len(q) >= 1 /\ Len(Tail(q)) = Len(q) - 1
         /\ Head(q) = q[1] /\ q[1] \in Line
         /\ \A i \in 1..Len(Tail(q)) : Tail(q)[i] = q[i + 1] /\ i + 1 \in 1..Len(q)
<1>1. Head(q) \in Line /\ Tail(q) \in Seq(Line)
  BY HeadTailProperties
<1>2. Len(q) \in Nat /\ Len(q) # 0
  BY EmptySeq, LenProperties
<1> QED
  BY <1>1, <1>2, HeadTailProperties

LEMMA MsgLine ==
  ASSUME NEW s \in Shards \cup {HeartbeatRow, "-"}, NEW n \in 0..LastBatch,
         NEW t \in {"records", "shutdown_requested", "shutdown", "checkpoint", "stop"}
  PROVE  /\ Msg(t, s, n) \in Line
         /\ Msg(t, s, n).type = t /\ Msg(t, s, n).shard = s /\ Msg(t, s, n).n = n
BY DEF Msg, Line

\* When the lines stay as they are, it is enough that what was awaited still is.
LEMMA LinesKeep ==
  ASSUME LinesAwaited, OneLinePerShard, UNCHANGED <<lines, handled>>,
         \A s \in Shards : task[s] = "waiting" /\ waiter[s] # 0 =>
                             task'[s] = "waiting" /\ waiter'[s] = waiter[s]
  PROVE  LinesAwaited' /\ OneLinePerShard'
BY DEF LinesAwaited, OneLinePerShard, IsRecords, IsAck, Awaited, lines

\* A line that is neither a batch nor an ack changes nothing.
LEMMA OtherLines ==
  ASSUME TypeOK, LinesAwaited, OneLinePerShard,
         UNCHANGED <<deliver, handled>>,
         \/ toClient' = toClient \/ toClient' = <<>>
         \/ \E m \in Line : m.type # "records" /\ toClient' = Append(toClient, m),
         \/ toSidecar' = toSidecar
         \/ \E m \in Line : m.type # "checkpoint" /\ toSidecar' = Append(toSidecar, m)
  PROVE  LinesAwaited' /\ OneLinePerShard'
<1>0. UNCHANGED <<task, waiter, handled>>
  BY DEF deliver
<1>1. \A i \in 1..Len(toClient') : IsRecords(i)' =>
            i \in 1..Len(toClient) /\ IsRecords(i) /\ toClient'[i] = toClient[i]
  <2>1. CASE toClient' = toClient
    BY <2>1 DEF IsRecords
  <2>2. CASE toClient' = <<>>
    BY <2>2
  <2>3. ASSUME NEW m \in Line, m.type # "records", toClient' = Append(toClient, m)
        PROVE  \A i \in 1..Len(toClient') : IsRecords(i)' =>
                 i \in 1..Len(toClient) /\ IsRecords(i) /\ toClient'[i] = toClient[i]
    <3>1. /\ Len(toClient') = Len(toClient) + 1 /\ Len(toClient) \in Nat
          /\ toClient'[Len(toClient) + 1] = m
          /\ \A i \in 1..Len(toClient) : toClient'[i] = toClient[i]
      BY <2>3, AppendLine DEF TypeOK
    <3> QED
      BY <2>3, <3>1 DEF IsRecords
  <2> QED
    BY <2>1, <2>2, <2>3
<1>2. \A i \in 1..Len(toSidecar') : IsAck(i)' =>
            i \in 1..Len(toSidecar) /\ IsAck(i) /\ toSidecar'[i] = toSidecar[i]
  <2>1. CASE toSidecar' = toSidecar
    BY <2>1 DEF IsAck
  <2>3. ASSUME NEW m \in Line, m.type # "checkpoint", toSidecar' = Append(toSidecar, m)
        PROVE  \A i \in 1..Len(toSidecar') : IsAck(i)' =>
                 i \in 1..Len(toSidecar) /\ IsAck(i) /\ toSidecar'[i] = toSidecar[i]
    <3>1. /\ Len(toSidecar') = Len(toSidecar) + 1 /\ Len(toSidecar) \in Nat
          /\ toSidecar'[Len(toSidecar) + 1] = m
          /\ \A i \in 1..Len(toSidecar) : toSidecar'[i] = toSidecar[i]
      BY <2>3, AppendLine DEF TypeOK
    <3> QED
      BY <2>3, <3>1 DEF IsAck
  <2> QED
    BY <2>1, <2>3
<1>3. LinesAwaited'
  BY <1>0, <1>1, <1>2 DEF LinesAwaited, Awaited
<1>4. OneLinePerShard'
  BY <1>1, <1>2 DEF OneLinePerShard, IsRecords, IsAck
<1> QED
  BY <1>3, <1>4

-----------------------------------------------------------------------------
(* deliver_batch *)

LEMMA QuietDeliver ==
  ASSUME Inv, NEW s \in Shards,
         Register(s) \/ SendFails(s) \/ Acked(s) \/ PassReturns(s)
  PROVE  Inv'
<1>0. TypeOK /\ task[s] \in {"idle", "registered", "waiting"}
  BY DEF Inv, Register, SendFails, Acked, PassReturns
<1>a. /\ UNCHANGED <<lines, handled, main, handoff, reading, stopped, client>>
      /\ batch'[s] \in {batch[s], batch[s] + 1}
      /\ \A s1 \in Shards : s1 # s =>
           /\ task'[s1] = task[s1] /\ waiter'[s1] = waiter[s1] /\ answer'[s1] = answer[s1]
           /\ batch'[s1] = batch[s1] /\ persisted'[s1] = persisted[s1]
  BY <1>0 DEF TypeOK, Register, SendFails, Acked, PassReturns
<1>b. \A s1 \in Shards : /\ waiter[s1] \in 0..LastBatch /\ answer[s1] \in 0..LastBatch
                         /\ batch[s1] \in 0..LastBatch /\ persisted[s1] \in 0..LastBatch
                         /\ handled[s1] \in 0..LastBatch
  BY <1>0 DEF TypeOK
<1>c. /\ task[s] = "registered" => waiter[s] = batch[s] /\ batch[s] # 0
      /\ waiter[s] # 0 => waiter[s] = batch[s] /\ task[s] \in {"registered", "waiting"}
      /\ answer[s] # 0 => waiter[s] = 0 /\ task[s] = "waiting"
      /\ persisted[s] <= handled[s] /\ answer[s] <= handled[s] /\ handled[s] <= batch[s]
  BY DEF Inv, DeliverInOrder
<1>1. TypeOK'
  <2>1. CASE Register(s)
    <3>1. batch[s] + 1 \in 0..LastBatch
      BY <1>b, <2>1 DEF Register
    <3> QED
      BY <1>0, <2>1, <3>1 DEF TypeOK, Register, lines, handoff
  <2>2. CASE SendFails(s)
    <3>1. 0 \in 0..LastBatch
      OBVIOUS
    <3> QED
      BY <1>0, <2>2, <3>1 DEF TypeOK, SendFails, lines, handoff
  <2>3. CASE Acked(s)
    <3>1. 0 \in 0..LastBatch
      OBVIOUS
    <3> QED
      BY <1>0, <1>b, <2>3, <3>1 DEF TypeOK, Acked, lines, handoff
  <2>4. CASE PassReturns(s)
    BY <1>0, <2>4 DEF TypeOK, PassReturns, lines, handoff
  <2> QED
    BY <2>1, <2>2, <2>3, <2>4
<1>2. LinesAwaited' /\ OneLinePerShard'
  <2>1. ~(task[s] = "waiting" /\ waiter[s] # 0)
    BY <1>c DEF Register, SendFails, Acked, PassReturns
  <2> QED
    BY <1>a, <2>1, LinesKeep DEF Inv
<1>3. DeliverInOrder'
  <2>1. /\ task'[s] = "registered" => waiter'[s] = batch'[s] /\ batch'[s] # 0
        /\ waiter'[s] # 0 => waiter'[s] = batch'[s] /\ task'[s] \in {"registered", "waiting"}
        /\ answer'[s] # 0 => waiter'[s] = 0 /\ task'[s] = "waiting"
        /\ persisted'[s] <= handled[s] /\ answer'[s] <= handled[s] /\ handled[s] <= batch'[s]
    <3>1. CASE Register(s)
      <4>1. /\ task'[s] = "registered" /\ batch'[s] = batch[s] + 1 /\ waiter'[s] = batch[s] + 1
            /\ answer'[s] = answer[s] /\ persisted'[s] = persisted[s] /\ task[s] = "idle"
        BY <1>0, <3>1 DEF TypeOK, Register
      <4> QED
        BY <1>b, <1>c, <4>1
    <3>2. CASE SendFails(s)
      <4>1. /\ task'[s] = "idle" /\ batch'[s] = batch[s] /\ waiter'[s] = 0
            /\ answer'[s] = answer[s] /\ persisted'[s] = persisted[s] /\ task[s] = "registered"
        BY <1>0, <3>2 DEF TypeOK, SendFails
      <4> QED
        BY <1>b, <1>c, <4>1
    <3>3. CASE Acked(s)
      <4>1. /\ task'[s] = "idle" /\ batch'[s] = batch[s] /\ waiter'[s] = waiter[s]
            /\ answer'[s] = 0 /\ persisted'[s] = answer[s] /\ answer[s] # 0
        BY <1>0, <3>3 DEF TypeOK, Acked
      <4> QED
        BY <1>b, <1>c, <4>1
    <3>4. CASE PassReturns(s)
      <4>1. /\ task'[s] = "over" /\ batch'[s] = batch[s] /\ waiter'[s] = waiter[s]
            /\ answer'[s] = answer[s] /\ persisted'[s] = persisted[s] /\ task[s] = "idle"
        BY <1>0, <3>4 DEF TypeOK, PassReturns
      <4> QED
        BY <1>b, <1>c, <4>1
    <3> QED
      BY <3>1, <3>2, <3>3, <3>4
  <2> QED
    BY <1>a, <2>1 DEF Inv, DeliverInOrder
<1>4. MainInOrder'
  <2>1. main = "cycle"
    BY <1>0 DEF Inv, MainInOrder
  <2> QED
    BY <1>a, <2>1 DEF Inv, MainInOrder, handoff
<1> QED
  BY <1>1, <1>2, <1>3, <1>4 DEF Inv

LEMMA SendKeeps ==
  ASSUME Inv, NEW s \in Shards, Send(s)
  PROVE  Inv'
<1> DEFINE m == Msg("records", s, batch[s])
<1>0. TypeOK /\ task[s] = "registered" /\ waiter[s] = batch[s] /\ batch[s] # 0
  BY DEF Inv, DeliverInOrder, Send
<1>1. m \in Line /\ m.type = "records" /\ m.shard = s /\ m.n = batch[s]
  BY <1>0, MsgLine DEF TypeOK
<1>2. /\ toClient' = Append(toClient, m) /\ toSidecar' = toSidecar
      /\ UNCHANGED <<waiter, answer, batch, persisted, reading, stopped, main, owned, noticed,
                     client, handled>>
      /\ task'[s] = "waiting" /\ \A s1 \in Shards : s1 # s => task'[s1] = task[s1]
  BY <1>0 DEF Send, TypeOK, handoff
<1> HIDE DEF m
<1>3. /\ toClient' \in Seq(Line)
      /\ Len(toClient') = Len(toClient) + 1 /\ Len(toClient) \in Nat
      /\ toClient'[Len(toClient) + 1] = m
      /\ \A i \in 1..Len(toClient) : toClient'[i] = toClient[i]
  BY <1>0, <1>1, <1>2, AppendLine DEF TypeOK
<1>4. TypeOK'
  BY <1>0, <1>2, <1>3 DEF TypeOK, Send, handoff
<1>5. /\ \A i \in 1..Len(toClient) : toClient[i].type = "records" =>
           /\ toClient[i].shard \in Shards /\ toClient[i].shard # s
           /\ task[toClient[i].shard] = "waiting"
           /\ toClient[i].n = waiter[toClient[i].shard] /\ toClient[i].n # 0
      /\ \A i \in 1..Len(toSidecar) : toSidecar[i].type = "checkpoint" =>
           /\ toSidecar[i].shard \in Shards /\ toSidecar[i].shard # s
           /\ task[toSidecar[i].shard] = "waiting"
           /\ toSidecar[i].n = waiter[toSidecar[i].shard] /\ toSidecar[i].n # 0
           /\ toSidecar[i].n <= handled[toSidecar[i].shard]
  BY <1>0 DEF Inv, LinesAwaited, Awaited, IsRecords, IsAck
<1>6. LinesAwaited'
  <2>1. ASSUME NEW i \in 1..Len(toClient'), toClient'[i].type = "records"
        PROVE  Awaited(toClient[i])' 
    <3>1. CASE i \in 1..Len(toClient)
      BY <1>2, <1>3, <1>5, <2>1, <3>1 DEF Awaited
    <3>2. CASE i = Len(toClient) + 1
      BY <1>0, <1>1, <1>2, <1>3, <3>2 DEF Awaited
    <3> QED
      BY <1>3, <3>1, <3>2
  <2>2. ASSUME NEW i \in 1..Len(toSidecar'), toSidecar'[i].type = "checkpoint"
        PROVE  Awaited(toSidecar[i])' /\ toSidecar'[i].n <= handled'[toSidecar'[i].shard]
    BY <1>2, <1>5, <2>2 DEF Awaited
  <2> QED
    BY <2>1, <2>2 DEF LinesAwaited, IsRecords, IsAck
<1>7. OneLinePerShard'
  BY <1>1, <1>2, <1>3, <1>5 DEF Inv, OneLinePerShard, IsRecords, IsAck
<1>8. DeliverInOrder'
  BY <1>0, <1>2 DEF Inv, DeliverInOrder
<1>9. MainInOrder'
  BY <1>0, <1>2 DEF Inv, MainInOrder
<1> QED
  BY <1>4, <1>6, <1>7, <1>8, <1>9 DEF Inv

-----------------------------------------------------------------------------
(* The reader task *)

LEMMA ReadCheckpointKeeps ==
  ASSUME Inv, ReadCheckpoint
  PROVE  Inv'
<1> DEFINE s == Head(toSidecar).shard
           n == Head(toSidecar).n
<1>0. TypeOK /\ toSidecar # <<>> /\ Head(toSidecar).type = "checkpoint"
  BY DEF Inv, ReadCheckpoint
<1>1. /\ Tail(toSidecar) \in Seq(Line) /\ Len(toSidecar) \in Nat /\ Len(toSidecar) >= 1
      /\ Len(Tail(toSidecar)) = Len(toSidecar) - 1 /\ Head(toSidecar) = toSidecar[1]
      /\ \A i \in 1..Len(Tail(toSidecar)) :
            Tail(toSidecar)[i] = toSidecar[i + 1] /\ i + 1 \in 1..Len(toSidecar)
  BY <1>0, TailLines DEF TypeOK
<1>2. s \in Shards /\ task[s] = "waiting" /\ n = waiter[s] /\ n # 0 /\ n <= handled[s]
  BY <1>0, <1>1 DEF Inv, LinesAwaited, IsAck, Awaited
<1>3. /\ toSidecar' = Tail(toSidecar)
      /\ answer' = [answer EXCEPT ![s] = n] /\ waiter' = [waiter EXCEPT ![s] = 0]
      /\ UNCHANGED <<toClient, task, batch, persisted, reading, stopped, main, owned, noticed,
                     client, handled>>
  BY <1>2 DEF ReadCheckpoint, handoff
<1> HIDE DEF s, n
<1>4. /\ answer'[s] = n /\ waiter'[s] = 0 /\ n \in 0..LastBatch
      /\ \A s1 \in Shards : s1 # s => answer'[s1] = answer[s1] /\ waiter'[s1] = waiter[s1]
  BY <1>0, <1>2, <1>3 DEF TypeOK
<1>5. TypeOK'
  <2>1. answer' \in [Shards -> 0..LastBatch] /\ waiter' \in [Shards -> 0..LastBatch]
    BY <1>0, <1>2, <1>3, <1>4 DEF TypeOK
  <2> QED
    BY <1>0, <1>1, <1>3, <2>1 DEF TypeOK
<1>6. /\ \A i \in 1..Len(toClient) : toClient[i].type = "records" => toClient[i].shard # s
      /\ \A i \in 2..Len(toSidecar) : toSidecar[i].type = "checkpoint" => toSidecar[i].shard # s
  BY <1>0, <1>1 DEF Inv, OneLinePerShard, IsRecords, IsAck, s
<1>7. LinesAwaited'
  <2>1. ASSUME NEW i \in 1..Len(toClient'), toClient'[i].type = "records"
        PROVE  Awaited(toClient[i])'
    BY <1>3, <1>4, <1>6, <2>1 DEF Inv, LinesAwaited, Awaited, IsRecords
  <2>2. ASSUME NEW i \in 1..Len(toSidecar'), toSidecar'[i].type = "checkpoint"
        PROVE  Awaited(toSidecar[i])' /\ toSidecar'[i].n <= handled'[toSidecar'[i].shard]
    <3>1. toSidecar'[i] = toSidecar[i + 1] /\ i + 1 \in 1..Len(toSidecar) /\ i + 1 \in 2..Len(toSidecar)
      BY <1>1, <1>3, <2>2
    <3>2. Awaited(toSidecar[i + 1]) /\ toSidecar[i + 1].n <= handled[toSidecar[i + 1].shard]
      BY <2>2, <3>1 DEF Inv, LinesAwaited, IsAck
    <3>3. toSidecar[i + 1].shard # s
      BY <1>6, <2>2, <3>1
    <3> QED
      BY <1>3, <1>4, <3>1, <3>2, <3>3 DEF Awaited
  <2> QED
    BY <2>1, <2>2 DEF LinesAwaited, IsRecords, IsAck
<1>8. OneLinePerShard'
  <2>1. \A i \in 1..Len(toSidecar') : toSidecar'[i] = toSidecar[i + 1] /\ i + 1 \in 1..Len(toSidecar)
    BY <1>1, <1>3
  <2>2. \A i, j \in 1..Len(toSidecar') : i # j => i + 1 # j + 1
    OBVIOUS
  <2> QED
    BY <1>3, <2>1, <2>2 DEF Inv, OneLinePerShard, IsRecords, IsAck
<1>9. DeliverInOrder'
  BY <1>2, <1>3, <1>4 DEF Inv, DeliverInOrder
<1>10. MainInOrder'
  BY <1>3 DEF Inv, MainInOrder
<1> QED
  BY <1>5, <1>7, <1>8, <1>9, <1>10 DEF Inv

LEMMA ReadStopKeeps ==
  ASSUME Inv, ReadStop \/ Signal
  PROVE  Inv'
<1>0. TypeOK
  BY DEF Inv
<1>1. /\ UNCHANGED <<toClient, waiter, answer, task, batch, persisted, main, owned, noticed,
                     client, handled>>
      /\ reading' \in BOOLEAN /\ stopped' \in BOOLEAN
      /\ toSidecar' = toSidecar \/ (toSidecar # <<>> /\ toSidecar' = Tail(toSidecar))
  BY <1>0 DEF ReadStop, Signal, deliver, handoff, lines, TypeOK
<1>2. DeliverInOrder' /\ MainInOrder'
  BY <1>1 DEF Inv, DeliverInOrder, MainInOrder
<1>3. CASE toSidecar' = toSidecar
  <2>1. TypeOK'
    BY <1>0, <1>1, <1>3 DEF TypeOK
  <2>2. LinesAwaited' /\ OneLinePerShard'
    BY <1>1, <1>3 DEF Inv, LinesAwaited, OneLinePerShard, IsRecords, IsAck, Awaited
  <2> QED
    BY <1>2, <2>1, <2>2 DEF Inv
<1>4. CASE toSidecar # <<>> /\ toSidecar' = Tail(toSidecar)
  <2>1. /\ Tail(toSidecar) \in Seq(Line)
        /\ \A i \in 1..Len(Tail(toSidecar)) :
              Tail(toSidecar)[i] = toSidecar[i + 1] /\ i + 1 \in 1..Len(toSidecar)
    BY <1>0, <1>4, TailLines DEF TypeOK
  <2>2. TypeOK'
    BY <1>0, <1>1, <1>4, <2>1 DEF TypeOK
  <2>3. \A i, j \in 1..Len(toSidecar') : i # j => i + 1 # j + 1
    OBVIOUS
  <2>4. LinesAwaited'
    BY <1>1, <1>4, <2>1 DEF Inv, LinesAwaited, IsRecords, IsAck, Awaited
  <2>5. OneLinePerShard'
    BY <1>1, <1>4, <2>1, <2>3 DEF Inv, OneLinePerShard, IsRecords, IsAck
  <2> QED
    BY <1>2, <2>2, <2>4, <2>5 DEF Inv
<1> QED
  BY <1>1, <1>3, <1>4

-----------------------------------------------------------------------------
(* The main loop *)

LEMMA NextCycleKeeps ==
  ASSUME Inv, NextCycle
  PROVE  Inv'
<1>0. TypeOK /\ main = "sleep" /\ noticed = {} /\ \A s \in Shards : task[s] = "over"
  BY DEF Inv, MainInOrder, NextCycle
<1>1. /\ UNCHANGED <<lines, handled, waiter, answer, batch, persisted, reading, stopped, owned,
                     noticed, client>>
      /\ main' = "cycle" /\ task' = [s \in Shards |-> "idle"]
  BY DEF NextCycle, handoff
<1>2. TypeOK'
  BY <1>0, <1>1 DEF TypeOK, lines
<1>3. LinesAwaited' /\ OneLinePerShard'
  BY <1>0, <1>1, LinesKeep DEF Inv
<1>4. DeliverInOrder'
  BY <1>0, <1>1 DEF Inv, DeliverInOrder
<1>5. MainInOrder'
  BY <1>0, <1>1 DEF MainInOrder
<1> QED
  BY <1>2, <1>3, <1>4, <1>5 DEF Inv

LEMMA MainKeeps ==
  ASSUME Inv, MainStep
  PROVE  Inv'
<1>0. TypeOK
  BY DEF Inv
<1>1. CASE NextCycle
  BY <1>1, NextCycleKeeps
<1>2. ASSUME ~NextCycle
      PROVE  Inv'
  <2>1. UNCHANGED <<toSidecar, deliver, handled, reading, stopped, client>>
    BY <1>2 DEF MainStep, CycleReturns, HandoffBegins, Notice, Window, Release, Exit, lines
  <2>2. \/ toClient' = toClient
        \/ \E m \in Line : m.type # "records" /\ toClient' = Append(toClient, m)
    <3>1. CASE \E s \in Shards \cup {HeartbeatRow} : Notice(s)
      <4>1. PICK s \in Shards \cup {HeartbeatRow} : ToClient(Msg("shutdown_requested", s, 0))
        BY <3>1 DEF Notice
      <4>2. Msg("shutdown_requested", s, 0) \in Line
            /\ Msg("shutdown_requested", s, 0).type = "shutdown_requested"
        BY MsgLine, 0 \in 0..LastBatch
      <4> QED
        BY <4>1, <4>2 DEF ToClient
    <3>2. CASE Exit
      <4>1. Msg("shutdown", "-", 0) \in Line /\ Msg("shutdown", "-", 0).type = "shutdown"
        BY MsgLine, 0 \in 0..LastBatch
      <4> QED
        BY <3>2, <4>1 DEF Exit, ToClient
    <3>3. CASE CycleReturns \/ HandoffBegins \/ Window \/ Release
      BY <3>3 DEF CycleReturns, HandoffBegins, Window, Release, lines
    <3> QED
      BY <1>2, <3>1, <3>2, <3>3 DEF MainStep
  <2>3. toClient' \in Seq(Line)
    <3>1. toClient \in Seq(Line)
      BY <1>0 DEF TypeOK
    <3> QED
      BY <2>2, <3>1, AppendLine
  <2>4. /\ main' \in {"cycle", "sleep", "notify", "window", "release", "end"}
        /\ owned' \in SUBSET (Shards \cup {HeartbeatRow}) /\ noticed' \in SUBSET owned'
        /\ MainInOrder'
    <3>1. CASE CycleReturns
      BY <1>0, <2>1, <3>1 DEF Inv, TypeOK, MainInOrder, CycleReturns, handoff, deliver
    <3>2. CASE HandoffBegins
      BY <1>0, <2>1, <3>2 DEF Inv, TypeOK, MainInOrder, HandoffBegins, OwnedShards, deliver
    <3>3. CASE \E s \in Shards \cup {HeartbeatRow} : Notice(s)
      BY <1>0, <2>1, <3>3 DEF Inv, TypeOK, MainInOrder, Notice, deliver
    <3>4. CASE Window \/ Release \/ Exit
      BY <1>0, <2>1, <3>4 DEF Inv, TypeOK, MainInOrder, Window, Release, Exit, handoff, deliver
    <3> QED
      BY <1>2, <3>1, <3>2, <3>3, <3>4 DEF MainStep
  <2>5. TypeOK'
    BY <1>0, <2>1, <2>3, <2>4 DEF TypeOK, deliver
  <2>6. LinesAwaited' /\ OneLinePerShard'
    BY <1>0, <2>1, <2>2, OtherLines DEF Inv
  <2>7. DeliverInOrder'
    BY <2>1 DEF Inv, DeliverInOrder, deliver
  <2> QED
    BY <2>4, <2>5, <2>6, <2>7 DEF Inv
<1> QED
  BY <1>1, <1>2

-----------------------------------------------------------------------------
(* The client *)

\* A batch leaves the connection and its ack enters it.
LEMMA ClientHandlesKeeps ==
  ASSUME Inv, ClientHandles
  PROVE  Inv'
<1> DEFINE m == toClient[1]
<1>0. TypeOK /\ toClient # <<>>
  BY DEF Inv, ClientHandles
<1>1. /\ Tail(toClient) \in Seq(Line) /\ Len(toClient) \in Nat /\ Len(toClient) >= 1
      /\ Len(Tail(toClient)) = Len(toClient) - 1 /\ Head(toClient) = m /\ m \in Line
      /\ \A i \in 1..Len(Tail(toClient)) :
            Tail(toClient)[i] = toClient[i + 1] /\ i + 1 \in 1..Len(toClient)
  BY <1>0, TailLines DEF TypeOK
<1>2. /\ toClient' = Tail(toClient)
      /\ UNCHANGED <<waiter, answer, task, batch, persisted, reading, stopped, main, owned,
                     noticed, client>>
  BY DEF ClientHandles, deliver, handoff
<1>3. \A i \in 1..Len(toClient') :
         toClient'[i] = toClient[i + 1] /\ i + 1 \in 1..Len(toClient) /\ i + 1 # 1
  BY <1>1, <1>2
<1>a. \A i, j \in 1..Len(toClient') : i # j => i + 1 # j + 1
  OBVIOUS
<1>4. MainInOrder'
  BY <1>2 DEF Inv, MainInOrder
<1>5. CASE m.type # "records"
  <2>1. UNCHANGED <<handled, toSidecar>>
    BY <1>1, <1>5 DEF ClientHandles
  <2>2. TypeOK'
    BY <1>0, <1>1, <1>2, <2>1 DEF TypeOK
  <2>3. LinesAwaited'
    BY <1>2, <1>3, <2>1 DEF Inv, LinesAwaited, IsRecords, IsAck, Awaited
  <2>4. OneLinePerShard'
    BY <1>2, <1>3, <1>a, <2>1 DEF Inv, OneLinePerShard, IsRecords, IsAck
  <2>5. DeliverInOrder'
    BY <1>2, <2>1 DEF Inv, DeliverInOrder
  <2> QED
    BY <1>4, <2>2, <2>3, <2>4, <2>5 DEF Inv
<1>6. CASE m.type = "records"
  <2> DEFINE s == m.shard
             a == Msg("checkpoint", s, m.n)
             k == Len(toSidecar)
  <2>1. s \in Shards /\ task[s] = "waiting" /\ m.n = waiter[s] /\ m.n # 0 /\ m.n \in 0..LastBatch
    <3>1. 1 \in 1..Len(toClient)
      BY <1>1
    <3>2. m.n \in 0..LastBatch
      BY <1>1 DEF Line
    <3> QED
      BY <1>6, <3>1, <3>2 DEF Inv, LinesAwaited, IsRecords, Awaited
  <2>2. a \in Line /\ a.type = "checkpoint" /\ a.shard = s /\ a.n = m.n
    BY <2>1, MsgLine
  <2>3. toSidecar' = Append(toSidecar, a) /\ handled' = [handled EXCEPT ![s] = m.n]
    BY <1>1, <1>6 DEF ClientHandles
  <2> HIDE DEF a
  <2>4. /\ toSidecar' \in Seq(Line) /\ Len(toSidecar') = k + 1 /\ k \in Nat
        /\ toSidecar'[k + 1] = a /\ \A i \in 1..k : toSidecar'[i] = toSidecar[i]
    BY <1>0, <2>2, <2>3, AppendLine DEF TypeOK
  <2>5. handled'[s] = m.n /\ \A s1 \in Shards : s1 # s => handled'[s1] = handled[s1]
    BY <1>0, <2>1, <2>3 DEF TypeOK
  <2>6. TypeOK'
    <3>1. handled' \in [Shards -> 0..LastBatch]
      BY <1>0, <2>1, <2>3 DEF TypeOK
    <3> QED
      BY <1>0, <1>1, <1>2, <2>4, <3>1 DEF TypeOK
  <2>7. /\ \A i \in 1..Len(toClient') : toClient'[i].type = "records" => toClient'[i].shard # s
        /\ \A i \in 1..k : toSidecar[i].type = "checkpoint" => toSidecar[i].shard # s
    <3>1. 1 \in 1..Len(toClient)
      BY <1>1
    <3> QED
      BY <1>3, <1>6, <3>1 DEF Inv, OneLinePerShard, IsRecords, IsAck
  <2> HIDE DEF s, m, k
  <2>8. LinesAwaited'
    <3>1. ASSUME NEW i \in 1..Len(toClient'), toClient'[i].type = "records"
          PROVE  Awaited(toClient[i])'
      BY <1>2, <1>3, <3>1 DEF Inv, LinesAwaited, Awaited, IsRecords
    <3>2. ASSUME NEW i \in 1..Len(toSidecar'), toSidecar'[i].type = "checkpoint"
          PROVE  Awaited(toSidecar[i])' /\ toSidecar'[i].n <= handled'[toSidecar'[i].shard]
      <4>1. CASE i \in 1..k
        <5>1. toSidecar'[i] = toSidecar[i] /\ toSidecar[i].shard # s
          BY <2>4, <2>7, <3>2, <4>1
        <5>2. Awaited(toSidecar[i]) /\ toSidecar[i].n <= handled[toSidecar[i].shard]
          BY <3>2, <4>1, <5>1 DEF Inv, LinesAwaited, IsAck, k
        <5> QED
          BY <1>2, <2>5, <5>1, <5>2 DEF Awaited
      <4>2. CASE i = k + 1
        <5>1. m.n <= m.n
          BY <2>1
        <5> QED
          BY <1>2, <2>1, <2>2, <2>4, <2>5, <4>2, <5>1 DEF Awaited
      <4> QED
        BY <2>4, <4>1, <4>2
    <3> QED
      BY <3>1, <3>2 DEF LinesAwaited, IsRecords, IsAck
  <2>9. OneLinePerShard'
    <3>1. \A i, j \in 1..Len(toClient') :
            toClient'[i].type = "records" /\ toClient'[j].type = "records" /\ i # j
               => toClient'[i].shard # toClient'[j].shard
      <4>1. ASSUME NEW i \in 1..Len(toClient'), NEW j \in 1..Len(toClient'), i # j,
                   toClient'[i].type = "records", toClient'[j].type = "records"
            PROVE  toClient'[i].shard # toClient'[j].shard
        <5>1. /\ toClient'[i] = toClient[i + 1] /\ toClient'[j] = toClient[j + 1]
              /\ i + 1 \in 1..Len(toClient) /\ j + 1 \in 1..Len(toClient) /\ i + 1 # j + 1
          BY <1>3, <4>1
        <5> QED
          BY <4>1, <5>1 DEF Inv, OneLinePerShard, IsRecords
      <4> QED
        BY <4>1
    <3>2. \A i, j \in 1..Len(toSidecar') :
            toSidecar'[i].type = "checkpoint" /\ toSidecar'[j].type = "checkpoint" /\ i # j
               => toSidecar'[i].shard # toSidecar'[j].shard
      BY <2>2, <2>4, <2>7 DEF Inv, OneLinePerShard, IsAck, k
    <3>3. \A i \in 1..Len(toClient'), j \in 1..Len(toSidecar') :
            toClient'[i].type = "records" /\ toSidecar'[j].type = "checkpoint"
               => toClient'[i].shard # toSidecar'[j].shard
      <4>1. ASSUME NEW i \in 1..Len(toClient'), NEW j \in 1..Len(toSidecar'),
                   toClient'[i].type = "records", toSidecar'[j].type = "checkpoint"
            PROVE  toClient'[i].shard # toSidecar'[j].shard
        <5>1. CASE j \in 1..k
          <6>1. toClient'[i] = toClient[i + 1] /\ i + 1 \in 1..Len(toClient)
                /\ toSidecar'[j] = toSidecar[j]
            BY <1>3, <2>4, <5>1
          <6> QED
            BY <4>1, <5>1, <6>1 DEF Inv, OneLinePerShard, IsAck, IsRecords, k
        <5>2. CASE j = k + 1
          BY <2>2, <2>4, <2>7, <4>1, <5>2
        <5> QED
          BY <2>4, <5>1, <5>2
      <4> QED
        BY <4>1
    <3> QED
      BY <3>1, <3>2, <3>3 DEF OneLinePerShard, IsRecords, IsAck
  <2>10. DeliverInOrder'
    <3>1. handled[s] <= m.n /\ m.n = batch[s]
      BY <2>1 DEF Inv, DeliverInOrder
    <3>2. /\ handled[s] \in 0..LastBatch /\ persisted[s] \in 0..LastBatch
          /\ answer[s] \in 0..LastBatch
      BY <1>0, <2>1 DEF TypeOK
    <3>3. persisted[s] <= handled[s] /\ answer[s] <= handled[s]
      BY <2>1 DEF Inv, DeliverInOrder
    <3>4. persisted[s] <= m.n /\ answer[s] <= m.n /\ m.n <= batch[s]
      BY <2>1, <3>1, <3>2, <3>3
    <3> QED
      BY <1>2, <2>1, <2>5, <3>4 DEF Inv, DeliverInOrder
  <2> QED
    BY <1>4, <2>6, <2>8, <2>9, <2>10 DEF Inv
<1> QED
  BY <1>5, <1>6

LEMMA ClientLeavesKeeps ==
  ASSUME Inv, ClientStops \/ ClientGone
  PROVE  Inv'
<1>0. TypeOK
  BY DEF Inv
<1>1. /\ UNCHANGED <<deliver, reading, stopped, main, owned, noticed, handled>>
      /\ client' \in {"up", "stopping", "gone"}
  BY DEF ClientStops, ClientGone, handoff
<1>2. /\ toClient' = toClient \/ toClient' = <<>>
      /\ \/ toSidecar' = toSidecar
         \/ \E m \in Line : m.type # "checkpoint" /\ toSidecar' = Append(toSidecar, m)
  <2>1. Msg("stop", "-", 0) \in Line /\ Msg("stop", "-", 0).type = "stop"
    BY MsgLine, 0 \in 0..LastBatch
  <2> QED
    BY <2>1 DEF ClientStops, ClientGone
<1>3. toClient' \in Seq(Line) /\ toSidecar' \in Seq(Line)
  <2>1. toClient \in Seq(Line) /\ toSidecar \in Seq(Line) /\ <<>> \in Seq(Line)
    BY <1>0, EmptySeq DEF TypeOK
  <2> QED
    BY <1>2, <2>1, AppendLine
<1>4. TypeOK'
  BY <1>0, <1>1, <1>3 DEF TypeOK, deliver
<1>5. LinesAwaited' /\ OneLinePerShard'
  BY <1>0, <1>1, <1>2, OtherLines DEF Inv
<1>6. DeliverInOrder' /\ MainInOrder'
  BY <1>1 DEF Inv, DeliverInOrder, MainInOrder, deliver
<1> QED
  BY <1>4, <1>5, <1>6 DEF Inv

-----------------------------------------------------------------------------
(* The theorems *)

LEMMA InitInv ==
  ASSUME Init
  PROVE  Inv
<1>1. Len(<<>>) = 0 /\ <<>> \in Seq(Line)
  BY EmptySeq
<1>2. TypeOK
  <2>1. 0 \in 0..LastBatch
    OBVIOUS
  <2> QED
    BY <1>1, <2>1 DEF Init, TypeOK
<1>3. LinesAwaited /\ OneLinePerShard
  BY <1>1 DEF Init, LinesAwaited, OneLinePerShard
<1>4. DeliverInOrder /\ MainInOrder
  BY DEF Init, DeliverInOrder, MainInOrder
<1> QED
  BY <1>2, <1>3, <1>4 DEF Inv

LEMMA StepInv ==
  ASSUME Inv, [Next]_vars
  PROVE  Inv'
<1>1. CASE \E s \in Shards : DeliverStep(s)
  BY <1>1, QuietDeliver, SendKeeps DEF DeliverStep
<1>2. CASE ReadCheckpoint \/ ReadStop \/ Signal
  BY <1>2, ReadCheckpointKeeps, ReadStopKeeps
<1>3. CASE MainStep
  BY <1>3, MainKeeps
<1>4. CASE ClientHandles \/ ClientStops \/ ClientGone
  BY <1>4, ClientHandlesKeeps, ClientLeavesKeeps
<1>5. CASE UNCHANGED vars
  BY <1>5 DEF Inv, TypeOK, LinesAwaited, OneLinePerShard, DeliverInOrder, MainInOrder, Awaited,
              IsRecords, IsAck, vars, lines, deliver, handoff
<1> QED
  BY <1>1, <1>2, <1>3, <1>4, <1>5 DEF Next

\* Every state of the sidecar has its type; every batch and every ack on the
\* connection belongs to the one delivery its shard is waiting in.
THEOREM IpcInv == Spec => []Inv
<1>1. Init => Inv
  BY InitInv
<1>2. Inv /\ [Next]_vars => Inv'
  BY StepInv
<1> QED
  BY <1>1, <1>2, PTL DEF Spec

\* At least once over the shared connection (sidecar/src/ipc.rs, deliver_batch): no
\* interleaving of shards and no disconnect makes the fleet persist an ack beyond what
\* the client handled of that shard.
THEOREM AtLeastOnce == Spec => []PersistedWasHandled
<1>1. Inv => PersistedWasHandled
  BY DEF Inv, DeliverInOrder, PersistedWasHandled
<1> QED
  BY <1>1, IpcInv, PTL

\* "Register the waiter BEFORE sending so an immediate ack can't race past us": the
\* reader always finds the waiter of the batch a checkpoint line acknowledges.
THEOREM NoAckIsLost == Spec => []AckFindsItsWaiter
<1>1. Inv => AckFindsItsWaiter
  <2> SUFFICES ASSUME Inv, toSidecar # <<>>, Head(toSidecar).type = "checkpoint"
               PROVE  waiter[Head(toSidecar).shard] = Head(toSidecar).n
    BY DEF AckFindsItsWaiter
  <2>1. Head(toSidecar) = toSidecar[1] /\ 1 \in 1..Len(toSidecar)
    BY TailLines DEF Inv, TypeOK
  <2> QED
    BY <2>1 DEF Inv, LinesAwaited, IsAck, Awaited
<1> QED
  BY <1>1, IpcInv, PTL

\* "Every notification MUST precede the release" (graceful_handoff): the leases go when
\* every row list_owned found was announced and no batch is in flight.
THEOREM NoticesBeforeRelease == Spec => []HandoffInOrder
<1>1. Inv => HandoffInOrder
  BY DEF Inv, MainInOrder, HandoffInOrder
<1> QED
  BY <1>1, IpcInv, PTL
=============================================================================
