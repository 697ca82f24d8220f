-------------------------- MODULE StandaloneProofs --------------------------
(***************************************************************************)
(* What Standalone does for any lineage, any number of processes and any   *)
(* bounds: the start-up over one lease table (who may use it when, and who *)
(* may change it), the two engines (EngineInv, by induction over the       *)
(* steps), the lineage of a listing of any length (by induction over its   *)
(* shards, with SetInduction), and what holds as long as one process runs  *)
(* at a time (SoloInv).                                                    *)
(***************************************************************************)
EXTENDS Standalone, FiniteSetTheorems, WellFoundedInduction, TLAPS

-----------------------------------------------------------------------------
(* The start-up *)

Tables == [status : {"absent", "creating", "active"}, billing : Billing,
           pitr : BOOLEAN, by : Processes \cup {User}]

\* A process past its wait has seen the table ACTIVE, which it stays.
PastWait == \A p \in Processes :
  pc[p] \in {"pitr", "ready"} \cup (EnginePC \ {"ok"}) => table.status = "active"

\* The process that remembers having made the table did make the one that is there.
MakerKnows == \A p \in Processes :
  /\ pc[p] = "pitr" => created[p]
  /\ pc[p] \in {"wait", "pitr"} /\ created[p] => table.status # "absent" /\ table.by # User

SetupInv ==
  /\ pc \in [Processes -> SetupPC \cup EnginePC]
  /\ config \in [Processes -> [billing : Billing, pitr : BOOLEAN]]
  /\ created \in [Processes -> BOOLEAN]
  /\ table \in Tables
  /\ engine = "scheduler" => table.status = "active"
  /\ PastWait
  /\ MakerKnows
  /\ ForeignUntouched

-----------------------------------------------------------------------------
EngineGoto(p) == \E l \in {"ready", "failed"} \cup EnginePC : pc' = [pc EXCEPT ![p] = l]

\* What a step of an engine may change of the start-up: where a process that is past
\* its wait is.
EngineMove(p) ==
  /\ UNCHANGED <<table, config, created, engine>>
  /\ pc[p] \in {"ready"} \cup (EnginePC \ {"ok"})
  /\ UNCHANGED pc \/ EngineGoto(p)

\* An engine's step touches of the start-up only where its own process is.
LEMMA EngineMoves ==
  ASSUME NEW p \in Processes,
         \/ DescribePage(p) \/ Snapshot(p) \/ SchedulerDescribe(p)
         \/ Acquire(p) \/ Claim(p)
         \/ ReadSome(p) \/ ReadToEnd(p) \/ ReadNothing(p) \/ ReadTrimmed(p)
         \/ Checkpoint(p) \/ MarkComplete(p) \/ Fails(p)
  PROVE  EngineMove(p)
<1>1. \A l \in {"ready", "failed"} \cup EnginePC : Goto(p, l) => EngineGoto(p)
  BY DEF Goto, EngineGoto
<1>2. \A l \in {"ready", "failed"} \cup EnginePC : Forget(p, l) => EngineGoto(p)
  BY <1>1 DEF Forget
<1>3. {"snap", "acquire", "claim", "read", "ckpt", "finish", "ok"} = EnginePC
  BY DEF EnginePC
<1>4. ASSUME NEW list, NEW completed, NEW i, NEW worked, Proceed(p, list, completed, i, worked)
      PROVE  EngineGoto(p)
  BY <1>1, <1>2, <1>3, <1>4 DEF Proceed
<1>5. CASE DescribePage(p)
  <2>1. ASSUME NEW list, DescribeEnds(p, list)
        PROVE  EngineGoto(p)
    BY <1>1, <1>2, <1>3, <2>1 DEF DescribeEnds
  <2>2. QED
    BY <1>5, <2>1 DEF DescribePage, At, around, setup, EngineMove
<1>6. CASE Snapshot(p)
  BY <1>2, <1>3, <1>4, <1>6 DEF Snapshot, At, around, setup, EngineMove
<1>7. CASE SchedulerDescribe(p)
  BY <1>2, <1>3, <1>4, <1>7 DEF SchedulerDescribe, At, around, setup, EngineMove
<1>8. CASE Acquire(p) \/ Claim(p)
  BY <1>1, <1>2, <1>3, <1>8 DEF Acquire, Claim, At, around, setup, EngineMove
<1>9. CASE ReadSome(p) \/ ReadToEnd(p)
  <2>1. PICK n, end : Batch(p, n, end) /\ At(p, "read")
    BY <1>9 DEF ReadSome, ReadToEnd
  <2>2. QED
    BY <1>1, <1>3, <2>1 DEF Batch, At, around, setup, EngineMove
<1>10. CASE ReadNothing(p) \/ ReadTrimmed(p)
  BY <1>2, <1>3, <1>4, <1>10 DEF ReadNothing, ReadTrimmed, At, around, setup, EngineMove
<1>11. CASE Checkpoint(p)
  BY <1>1, <1>2, <1>3, <1>11 DEF Checkpoint, At, around, setup, EngineMove
<1>12. CASE MarkComplete(p)
  BY <1>2, <1>3, <1>4, <1>12 DEF MarkComplete, At, around, setup, EngineMove
<1>13. CASE Fails(p)
  BY <1>2, <1>13 DEF Fails, Running, around, setup, EngineMove
<1>14. QED
  BY <1>5, <1>6, <1>7, <1>8, <1>9, <1>10, <1>11, <1>12, <1>13

\* ... which is past its wait, on a table that is ACTIVE.
LEMMA EngineKeepsSetup ==
  ASSUME SetupInv, NEW p \in Processes, EngineMove(p)
  PROVE  SetupInv'
<1>1. table.status = "active" /\ UNCHANGED <<table, config, created, engine>>
  BY DEF SetupInv, PastWait, EngineMove
<1>2. pc' \in [Processes -> SetupPC \cup EnginePC]
  BY DEF SetupInv, EngineMove, EngineGoto, SetupPC
<1>3. \A q \in Processes : pc'[q] \in {"wait", "pitr"} => pc'[q] = pc[q]
  BY DEF SetupInv, EngineMove, EngineGoto, EnginePC
<1>4. PastWait' /\ MakerKnows' /\ ForeignUntouched'
  BY <1>1, <1>3 DEF SetupInv, PastWait, MakerKnows, ForeignUntouched
<1>5. QED
  BY <1>1, <1>2, <1>4 DEF SetupInv

-----------------------------------------------------------------------------
\* ensure_table, call by call.
LEMMA EnsureKeepsSetup ==
  ASSUME SetupInv, NEW p \in Processes, EnsureTable(p), UNCHANGED engine
  PROVE  SetupInv'
<1> DEFINE PCs == SetupPC \cup EnginePC
<1>0. /\ pc \in [Processes -> PCs]
      /\ config \in [Processes -> [billing : Billing, pitr : BOOLEAN]]
      /\ created \in [Processes -> BOOLEAN]
      /\ table \in Tables
      /\ engine = "scheduler" => table.status = "active"
      /\ PastWait /\ MakerKnows /\ ForeignUntouched
  BY DEF SetupInv
<1>1. ASSUME NEW l \in {"failed", "ready"}, Leave(p, l)
      PROVE  /\ pc' = [pc EXCEPT ![p] = l] /\ pc' \in [Processes -> PCs]
             /\ config' \in [Processes -> [billing : Billing, pitr : BOOLEAN]]
             /\ created' \in [Processes -> BOOLEAN]
             /\ \A q \in Processes : q # p => pc'[q] = pc[q] /\ created'[q] = created[q]
  BY <1>0, <1>1 DEF Leave, Goto, DefaultConfig, Billing, SetupPC
<1>2. CASE Describe(p)
  <2>1. /\ UNCHANGED <<table, config>> /\ created' \in [Processes -> BOOLEAN]
        /\ \E l \in {"wait", "create"} : pc' = [pc EXCEPT ![p] = l]
        /\ \A q \in Processes : q # p => pc'[q] = pc[q] /\ created'[q] = created[q]
        /\ pc'[p] = "wait" => ~created'[p]
        /\ pc'[p] \in {"wait", "create"}
    BY <1>0, <1>2 DEF Describe, Goto
  <2>2. pc' \in [Processes -> PCs]
    BY <1>0, <2>1 DEF SetupPC
  <2>3. PastWait' /\ MakerKnows' /\ ForeignUntouched'
    BY <1>0, <2>1 DEF PastWait, MakerKnows, ForeignUntouched, EnginePC
  <2>4. QED
    BY <1>0, <2>1, <2>2, <2>3 DEF SetupInv
<1>3. ASSUME table.status = "absent", table' = NewTable(p)
      PROVE  /\ table' \in Tables
             /\ table'.status = "creating" /\ table'.by = p /\ p # User
             /\ engine # "scheduler"
             /\ \A q \in Processes : pc[q] \notin {"pitr", "ready"} \cup (EnginePC \ {"ok"})
  BY <1>0, <1>3, SetupAssumption DEF NewTable, Tables, PastWait
<1>4. CASE CreateTable(p)
  <2>1. /\ UNCHANGED <<config, created>> /\ pc' = [pc EXCEPT ![p] = "wait"]
        /\ table.status = "absent" /\ table' = NewTable(p)
    BY <1>4 DEF CreateTable, Goto, setup
  <2>2. pc' \in [Processes -> PCs]
    BY <1>0, <2>1 DEF SetupPC
  <2>3. PastWait' /\ MakerKnows' /\ ForeignUntouched'
    BY <1>0, <1>3, <2>1, <2>2 DEF PastWait, MakerKnows, ForeignUntouched, EnginePC
  <2>4. QED
    BY <1>0, <1>3, <2>1, <2>2, <2>3 DEF SetupInv
<1>5. CASE CreateRefused(p) \/ WaitFails(p) \/ BackupsFail(p)
           \/ (BackupsUnavailable(p) /\ Leave(p, "failed"))
  <2>1. table' = table /\ Leave(p, "failed")
    BY <1>5 DEF CreateRefused, WaitFails, BackupsFail, BackupsUnavailable
  <2>2. PastWait' /\ MakerKnows' /\ ForeignUntouched'
    <3>1. /\ pc'[p] = "failed"
          /\ \A q \in Processes : q # p => pc'[q] = pc[q] /\ created'[q] = created[q]
      BY <1>0, <1>1, <2>1
    <3>2. PastWait'
      BY <1>0, <2>1, <3>1 DEF PastWait, EnginePC
    <3>3. MakerKnows'
      BY <1>0, <2>1, <3>1 DEF MakerKnows
    <3>4. QED
      BY <1>0, <2>1, <3>2, <3>3 DEF ForeignUntouched
  <2>3. QED
    BY <1>0, <1>1, <2>1, <2>2 DEF SetupInv
<1>6. CASE CreateFails(p)
  <2>1. /\ Leave(p, "failed")
        /\ table' = table \/ (table.status = "absent" /\ table' = NewTable(p))
    BY <1>6 DEF CreateFails
  <2>2. pc'[p] = "failed"
    BY <1>0, <1>1, <2>1
  <2>3. PastWait' /\ MakerKnows' /\ ForeignUntouched'
    BY <1>0, <1>1, <1>3, <2>1, <2>2 DEF PastWait, MakerKnows, ForeignUntouched, EnginePC
  <2>4. QED
    BY <1>0, <1>1, <1>3, <2>1, <2>3 DEF SetupInv
<1>7. CASE WaitActive(p)
  <2>1. /\ pc[p] = "wait" /\ table.status = "active" /\ table' = table
        /\ \/ /\ AfterActive(p) = "pitr" /\ pc' = [pc EXCEPT ![p] = "pitr"]
              /\ UNCHANGED <<config, created>>
           \/ Leave(p, "ready")
    BY <1>7 DEF WaitActive, At, Goto, setup
  <2>2. AfterActive(p) = "pitr" => created[p]
    BY DEF AfterActive
  <2>3. pc' \in [Processes -> PCs]
    BY <1>0, <1>1, <2>1 DEF SetupPC
  <2>4. PastWait' /\ MakerKnows' /\ ForeignUntouched'
    BY <1>0, <1>1, <2>1, <2>2, <2>3 DEF PastWait, MakerKnows, ForeignUntouched, EnginePC
  <2>5. QED
    BY <1>0, <1>1, <2>1, <2>3, <2>4 DEF SetupInv
<1>8. CASE UpdateContinuousBackups(p)
  <2>1. /\ pc[p] = "pitr" /\ Leave(p, "ready")
        /\ table' = [table EXCEPT !.pitr = TRUE]
    BY <1>8 DEF UpdateContinuousBackups, At
  <2>2. table.status = "active" /\ table.by # User
    BY <1>0, <2>1 DEF PastWait, MakerKnows
  <2>3. table' \in Tables /\ table'.status = "active" /\ table'.by # User
    BY <1>0, <2>1, <2>2 DEF Tables
  <2>4. PastWait' /\ MakerKnows' /\ ForeignUntouched'
    BY <1>0, <1>1, <2>1, <2>2, <2>3 DEF PastWait, MakerKnows, ForeignUntouched, EnginePC
  <2>5. QED
    BY <1>0, <1>1, <2>1, <2>3, <2>4 DEF SetupInv
<1>9. CASE BackupsUnavailable(p) /\ ~Leave(p, "failed")
  BY <1>0, <1>9 DEF BackupsUnavailable, SetupInv, PastWait, MakerKnows, ForeignUntouched
<1>10. QED
  BY <1>2, <1>4, <1>5, <1>6, <1>7, <1>8, <1>9 DEF EnsureTable

\* The start-up invariant, action by action.
LEMMA SetupStep ==
  ASSUME SetupInv, [Next]_vars
  PROVE  SetupInv'
<1>1. ASSUME UNCHANGED <<table, pc, config, created, engine>>
      PROVE  SetupInv'
  BY <1>1 DEF SetupInv, PastWait, MakerKnows, ForeignUntouched
<1>2. ASSUME NEW s \in Shards, Write(s) \/ Reshard(s) \/ Trim(s)
      PROVE  SetupInv'
  BY <1>1, <1>2 DEF Write, Reshard, Trim, setupVars, setup
<1>3. CASE TableActivates /\ UNCHANGED engine
  <2>1. /\ UNCHANGED <<pc, config, created, engine>>
        /\ table.status = "creating" /\ table' = [table EXCEPT !.status = "active"]
    BY <1>3 DEF TableActivates, setup
  <2>2. /\ table' \in Tables /\ table'.status = "active"
        /\ table'.by = table.by /\ table'.billing = table.billing /\ table'.pitr = table.pitr
    BY <2>1 DEF SetupInv, Tables
  <2>3. PastWait' /\ MakerKnows' /\ ForeignUntouched'
    BY <2>1, <2>2 DEF SetupInv, PastWait, MakerKnows, ForeignUntouched
  <2>4. QED
    BY <2>1, <2>2, <2>3 DEF SetupInv
<1>4. ASSUME NEW p \in Processes, WorkerLaunch(p) \/ FrontEndLaunch(p)
      PROVE  SetupInv'
  <2>1. /\ UNCHANGED <<table, created, engine>>
        /\ config' \in [Processes -> [billing : Billing, pitr : BOOLEAN]]
        /\ \E l \in {"look", "failed"} : pc' = [pc EXCEPT ![p] = l]
    <3>1. ASSUME NEW c \in [billing : Billing, pitr : BOOLEAN], Launch(p, c)
          PROVE  /\ UNCHANGED <<table, created>>
                 /\ config' \in [Processes -> [billing : Billing, pitr : BOOLEAN]]
                 /\ pc' = [pc EXCEPT ![p] = "look"]
      BY <3>1 DEF Launch, Goto, SetupInv
    <3>2. /\ DefaultConfig \in [billing : Billing, pitr : BOOLEAN]
          /\ EnvConfigs \subseteq [billing : Billing, pitr : BOOLEAN]
      <4>1. DefaultConfig \in [billing : Billing, pitr : BOOLEAN]
        BY DEF DefaultConfig, Billing
      <4>2. ASSUME NEW mode, NEW flag
            PROVE  EnvConfig(mode, flag) \in [billing : Billing, pitr : BOOLEAN]
        <5>1. (flag \in {"1", "true", "yes", "on"}) \in BOOLEAN
          OBVIOUS
        <5>2. QED
          BY <5>1 DEF EnvConfig, Billing
      <4>3. ASSUME NEW c \in EnvConfigs
            PROVE  c \in [billing : Billing, pitr : BOOLEAN]
        <5>1. PICK env \in {"", "PROVISIONED"} \X {"", "true"} : c = EnvConfig(env[1], env[2])
          BY DEF EnvConfigs
        <5>2. QED
          BY <4>2, <5>1
      <4>4. QED
        BY <4>1, <4>3
    <3>3. LaunchFails(p) => /\ UNCHANGED <<table, created, config>>
                            /\ pc' = [pc EXCEPT ![p] = "failed"]
      BY DEF LaunchFails, Goto, setup
    <3>4. engine' = engine
      BY <1>4 DEF WorkerLaunch, FrontEndLaunch
    <3>5. QED
      <4>1. \/ \E c \in [billing : Billing, pitr : BOOLEAN] : Launch(p, c)
            \/ LaunchFails(p)
        BY <1>4, <3>2 DEF WorkerLaunch, FrontEndLaunch, Starting, SidecarLaunch, ClientLaunch
      <4>2. CASE \E c \in [billing : Billing, pitr : BOOLEAN] : Launch(p, c)
        BY <3>1, <3>4, <4>2
      <4>3. CASE LaunchFails(p)
        BY <3>3, <3>4, <4>3 DEF SetupInv
      <4>4. QED
        BY <4>1, <4>2, <4>3
  <2>2. pc' \in [Processes -> SetupPC \cup EnginePC]
    BY <2>1 DEF SetupInv, SetupPC
  <2>3. PastWait' /\ MakerKnows' /\ ForeignUntouched'
    BY <2>1 DEF SetupInv, PastWait, MakerKnows, ForeignUntouched, EnginePC
  <2>4. QED
    BY <2>1, <2>2, <2>3 DEF SetupInv
<1>5. ASSUME NEW p \in Processes, SchedulerLaunch(p)
      PROVE  SetupInv'
  <2>1. /\ UNCHANGED <<table, config, created, engine>> /\ engine = "scheduler"
        /\ pc' = [pc EXCEPT ![p] = "ready"]
    BY <1>5 DEF SchedulerLaunch, Goto, setup
  <2>2. pc' \in [Processes -> SetupPC \cup EnginePC]
    BY <2>1 DEF SetupInv, SetupPC
  <2>3. PastWait' /\ MakerKnows' /\ ForeignUntouched'
    BY <2>1 DEF SetupInv, PastWait, MakerKnows, ForeignUntouched
  <2>4. QED
    BY <2>1, <2>2, <2>3 DEF SetupInv
<1>6. ASSUME NEW p \in Processes, Step(p) \/ Fails(p)
      PROVE  SetupInv'
  BY <1>6, EngineMoves, EngineKeepsSetup, EnsureKeepsSetup DEF Step
<1>7. CASE UNCHANGED vars
  BY <1>1, <1>7 DEF vars, setupVars, setup
<1>8. QED
  BY <1>2, <1>3, <1>4, <1>5, <1>6, <1>7 DEF Next, Service

\* The start-up invariant: past its wait a process works on an ACTIVE table, and only
\* the process that made the table goes on to switch PITR on.
THEOREM SetupSafe == Spec => []SetupInv
<1>1. Init => SetupInv
  <2>1. SUFFICES ASSUME Init PROVE SetupInv
    OBVIOUS
  <2>2. /\ table \in Tables /\ table.by = User /\ table.billing = "on-demand" /\ ~table.pitr
        /\ engine = "scheduler" => table.status = "active"
    <3>1. table \in {Absent, [Absent EXCEPT !.status = "active"]}
      BY <2>1 DEF Init, SetupInit
    <3>2. /\ table.status \in {"absent", "active"} /\ table.billing = "on-demand"
          /\ table.pitr = FALSE /\ table.by = User /\ table \in Tables
      <4>1. /\ Absent \in Tables /\ [Absent EXCEPT !.status = "active"] \in Tables
            /\ Absent.status = "absent" /\ [Absent EXCEPT !.status = "active"].status = "active"
        BY DEF Absent, Tables, Billing
      <4>2. /\ Absent.billing = "on-demand" /\ Absent.pitr = FALSE /\ Absent.by = User
            /\ [Absent EXCEPT !.status = "active"].billing = "on-demand"
            /\ [Absent EXCEPT !.status = "active"].pitr = FALSE
            /\ [Absent EXCEPT !.status = "active"].by = User
        BY DEF Absent
      <4>3. QED
        BY <3>1, <4>1, <4>2
    <3>3. engine = "scheduler" => table.status = "active"
      BY <2>1 DEF Init
    <3>4. QED
      BY <3>2, <3>3
  <2>3. /\ pc = [p \in Processes |-> "off"] /\ config = [p \in Processes |-> DefaultConfig]
        /\ created = [p \in Processes |-> FALSE]
    BY <2>1 DEF Init, SetupInit
  <2>4. config \in [Processes -> [billing : Billing, pitr : BOOLEAN]]
    BY <2>3 DEF DefaultConfig, Billing
  <2>5. QED
    BY <2>2, <2>3, <2>4
       DEF SetupInv, SetupPC, EnginePC, PastWait, MakerKnows, ForeignUntouched
<1>2. SetupInv /\ [Next]_vars => SetupInv'
  BY SetupStep
<1>3. QED
  BY <1>1, <1>2, PTL DEF Spec

\* "never mutate a pre-existing, user-managed table", dynamodb.rs:164: a describe that
\* fails on the user's table, and every race of starts, leaves its settings alone.
THEOREM UsersTableKept == Spec => []ForeignUntouched
<1>1. SetupInv => ForeignUntouched
  BY DEF SetupInv
<1>2. QED
  BY <1>1, SetupSafe, PTL

-----------------------------------------------------------------------------
(* Induction, on sets of natural numbers *)

\* Every set of natural numbers has a least element: < is well-founded.
LEMMA Least ==
  ASSUME NEW T, T \subseteq Nat, T # {}
  PROVE  \E x \in T : \A y \in T : x <= y
<1> DEFINE R == OpToRel(<, Nat)
<1>1. IsWellFoundedOn(R, Nat)
  BY NatLessThanWellFounded
<1>2. PICK x \in T : \A y \in T : ~(<<y, x>> \in R)
  <2> HIDE DEF R
  <2>1. QED
    BY <1>1, WFMin
<1>3. \A y \in T : y < x => <<y, x>> \in R
  BY DEF OpToRel
<1>4. \A y \in T : ~(y < x)
  BY <1>2, <1>3
<1>5. ASSUME NEW y \in T
      PROVE  x <= y
  <2> HIDE DEF R
  <2>1. x \in Nat /\ y \in Nat /\ ~(y < x)
    BY <1>4
  <2>2. QED
    BY <2>1
<1>6. QED
  BY <1>5

\* Induction over the natural numbers, for a set.
LEMMA SetInduction ==
  ASSUME NEW S, 0 \in S, \A n \in Nat : n \in S => n + 1 \in S
  PROVE  Nat \subseteq S
<1> SUFFICES ASSUME Nat \ S # {}
             PROVE  FALSE
  OBVIOUS
<1>1. PICK x \in Nat \ S : \A y \in Nat \ S : x <= y
  BY Least
<1>2. x - 1 \in Nat /\ x - 1 \notin Nat \ S
  BY <1>1
<1>3. QED
  BY <1>1, <1>2

\* Every bounded one has a greatest: what Max of the fold chooses.
LEMMA Greatest ==
  ASSUME NEW n \in Nat, NEW S \in SUBSET (1..n), S # {}
  PROVE  Max(S) \in S /\ \A y \in S : Max(S) >= y
<1> DEFINE T == {t \in Nat : \A y \in S : y <= t}
<1>1. T \subseteq Nat /\ n \in T
  OBVIOUS
<1>2. PICK t \in T : \A y \in T : t <= y
  <2> HIDE DEF T
  <2>1. QED
    BY <1>1, Least
<1>3. ASSUME t \notin S
      PROVE  FALSE
  <2>1. t \in Nat /\ \A y \in S : y \in 1..n /\ y <= t /\ y # t
    BY <1>3
  <2>2. PICK y \in S : TRUE
    OBVIOUS
  <2>3. t # 0
    BY <2>1, <2>2
  <2>4. t - 1 \in T
    BY <2>1, <2>3
  <2>5. t <= t - 1
    <3> HIDE DEF T
    <3>1. QED
      BY <1>2, <2>4
  <2>6. QED
    BY <2>1, <2>5
<1>4. \A y \in S : t >= y
  OBVIOUS
<1>5. QED
  BY <1>3, <1>4 DEF Max

-----------------------------------------------------------------------------
(* The lineage of a listing *)

\* f[m]: what was seen for the first time on the first m places.
Sights(f, shards, seen) ==
  /\ FirstSights(shards, seen) = f[Len(shards)]
  /\ f[0] = <<>>
  /\ \A m \in 1..Len(shards) :
       f[m] = IF shards[m].id \in seen \cup Ids(f[m - 1])
              THEN f[m - 1] ELSE Append(f[m - 1], shards[m])

\* FirstSights goes through the listing shard by shard: the recursion of its fold.
LEMMA SightBySight ==
  ASSUME NEW R, NEW shards \in Seq(R), NEW seen
  PROVE  \E f : Sights(f, shards, seen)
<1> DEFINE n == Len(shards)
<1>0. n \in Nat /\ DOMAIN shards = 1..n
  OBVIOUS
<1> HIDE DEF n
<1> DEFINE U(x, v) == IF shards[x].id \in seen \cup Ids(v) THEN v ELSE Append(v, shards[x])
           D(f, s) == IF s = {} THEN <<>> ELSE U(Max(s), f[s \ {Max(s)}])
           iter == CHOOSE f : f = [s \in SUBSET (DOMAIN shards) |-> D(f, s)]
           F(m) == \E g : g = [s \in SUBSET (1..m) |-> D(g, s)]
           Good == {m \in Nat : F(m)}
<1>1. FirstSights(shards, seen) = iter[DOMAIN shards]
  BY DEF FirstSights, FoldLeft, MapThenFoldSet
<1>2. F(0)
  <2>1. SUBSET (1..0) = {{}}
    OBVIOUS
  <2> DEFINE g == [s \in SUBSET (1..0) |-> <<>>]
  <2>2. \A s \in SUBSET (1..0) : D(g, s) = <<>>
    BY <2>1
  <2>3. g = [s \in SUBSET (1..0) |-> D(g, s)]
    BY <2>2
  <2>4. QED
    BY <2>3
<1>3. ASSUME NEW m \in Nat, F(m)
      PROVE  F(m + 1)
  <2>1. PICK g : g = [s \in SUBSET (1..m) |-> D(g, s)]
    BY <1>3
  <2> DEFINE h == [s \in SUBSET (1..(m + 1)) |-> IF m + 1 \in s THEN D(g, s) ELSE g[s]]
  <2>2. \A s \in SUBSET (1..m) : h[s] = g[s] /\ g[s] = D(g, s) /\ m + 1 \notin s
    <3> HIDE DEF D
    <3>1. QED
      BY <2>1
  <2>3. ASSUME NEW s \in SUBSET (1..(m + 1))
        PROVE  h[s] = D(h, s)
    <3>1. s = {} \/ (Max(s) \in s /\ \A y \in s : Max(s) >= y)
      BY Greatest, m + 1 \in Nat
    <3>2. ASSUME s # {}
          PROVE  h[s \ {Max(s)}] = g[s \ {Max(s)}]
      <4>1. ASSUME NEW y \in s \ {Max(s)}
            PROVE  y \in 1..m
        <5>1. /\ y \in 1..(m + 1) /\ Max(s) \in 1..(m + 1)
              /\ Max(s) >= y /\ y # Max(s)
          BY <3>1, <3>2
        <5>2. QED
          BY <5>1
      <4>2. s \ {Max(s)} \in SUBSET (1..m)
        BY <4>1
      <4> HIDE DEF h
      <4>3. QED
        BY <2>2, <4>2
    <3>3. D(h, s) = D(g, s)
      <4> HIDE DEF h, U
      <4>1. QED
        BY <3>2
    <3>4. CASE m + 1 \in s
      <4> HIDE DEF D
      <4>1. QED
        BY <3>3, <3>4
    <3>5. CASE m + 1 \notin s
      <4>1. s \in SUBSET (1..m)
        BY <3>5
      <4> HIDE DEF D, h
      <4>2. QED
        BY <2>2, <3>3, <4>1
    <3>6. QED
      BY <3>4, <3>5
  <2>4. h = [s \in SUBSET (1..(m + 1)) |-> D(h, s)]
    <3> HIDE DEF D
    <3>1. QED
      BY <2>3
  <2>5. QED
    <3> HIDE DEF D, h
    <3>1. QED
      BY <2>4
<1>4. F(n)
  <2>1. 0 \in Good /\ \A m \in Nat : m \in Good => m + 1 \in Good
    <3> HIDE DEF F
    <3>1. QED
      BY <1>2, <1>3
  <2>2. Nat \subseteq Good
    <3> HIDE DEF Good
    <3>1. QED
      BY <2>1, SetInduction
  <2>3. QED
    <3> HIDE DEF F
    <3>1. QED
      BY <1>0, <2>2
<1>5. iter = [s \in SUBSET (1..n) |-> D(iter, s)]
  <2> HIDE DEF D
  <2>1. QED
    BY <1>0, <1>4
<1> HIDE DEF iter
<1>6. \A s \in SUBSET (1..n) : iter[s] = D(iter, s)
  <2> HIDE DEF D
  <2>1. QED
    BY <1>5
<1>7. iter[1..0] = <<>>
  <2>1. (1..0) \in SUBSET (1..n) /\ (1..0) = {}
    BY <1>0
  <2>2. QED
    BY <1>6, <2>1
<1>8. ASSUME NEW m \in 1..n
      PROVE  iter[1..m] = U(m, iter[1..(m - 1)])
  <2> HIDE DEF U, D, F, Good
  <2>1. m \in Nat /\ m \in 1..m /\ 1..m \in SUBSET (1..m)
    BY <1>0
  <2>2. Max(1..m) \in 1..m /\ \A y \in 1..m : Max(1..m) >= y
    BY <2>1, Greatest
  <2>3. Max(1..m) = m /\ (1..m) \ {m} = 1..(m - 1)
    BY <2>1, <2>2
  <2>4. \A y \in 1..m : y \in 1..n
    BY <1>0
  <2>5. 1..m \in SUBSET (1..n) /\ 1..m # {}
    BY <2>1, <2>4
  <2>6. iter[1..m] = D(iter, 1..m)
    BY <1>6, <2>5
  <2>7. QED
    BY <2>3, <2>5, <2>6 DEF D
<1> DEFINE f == [m \in 0..n |-> iter[1..m]]
<1>9. f[n] = iter[1..n] /\ f[0] = <<>>
  BY <1>0, <1>7
<1>10. ASSUME NEW m \in 1..n
       PROVE  f[m] = U(m, f[m - 1])
  <2>1. m \in 0..n /\ m - 1 \in 0..n
    BY <1>0
  <2> HIDE DEF U
  <2>2. QED
    BY <1>8, <2>1
<1>11. QED
  <2> HIDE DEF f
  <2>1. Sights(f, shards, seen)
    BY <1>0, <1>1, <1>9, <1>10 DEF Sights, n
  <2>2. QED
    BY <2>1

Distinct(raw) == \A a, b \in DOMAIN raw : raw[a].id = raw[b].id => a = b

\* Arithmetic and sequences, for the steps that need no more than this.
LEMMA NotTheLast ==
  ASSUME NEW n \in Nat, NEW x \in 1..n, x # n
  PROVE  x \in 1..(n - 1)
OBVIOUS

LEMMA IsASequence ==
  ASSUME NEW S, NEW n \in Nat, NEW f \in [1..n -> S]
  PROVE  f \in Seq(S) /\ Len(f) = n
OBVIOUS

LEMMA Concatenation ==
  ASSUME NEW S, NEW s \in Seq(S), NEW t \in Seq(S)
  PROVE  /\ s \o t \in Seq(S) /\ Len(s \o t) = Len(s) + Len(t)
         /\ \A m \in 1..(Len(s) + Len(t)) : (s \o t)[m] = IF m <= Len(s) THEN s[m] ELSE t[m - Len(s)]
OBVIOUS

Heads(raw, b) == {raw[a].id : a \in 1..b}
Between(raw, b, e) == [x \in 1..(e - b) |-> raw[b + x]]

\* t goes through the entries of raw in order from b on, now and then repeating earlier
\* ones; c[m] is where it is after m of its own.
Retraces(t, raw, b, c) ==
  /\ c \in [0..Len(t) -> b..Len(raw)] /\ c[0] = b
  /\ \A m \in 1..Len(t) :
       \/ c[m] = c[m - 1] /\ \E a \in 1..c[m - 1] : t[m] = raw[a]
       \/ c[m] = c[m - 1] + 1 /\ t[m] = raw[c[m]]

\* Such a sequence is reduced to the entries of raw that were not seen before.
LEMMA SightsGrow ==
  ASSUME NEW R, NEW raw \in Seq(R), Distinct(raw),
         NEW b \in 0..Len(raw), NEW t \in Seq(R), NEW c, Retraces(t, raw, b, c)
  PROVE  FirstSights(t, Heads(raw, b)) = Between(raw, b, c[Len(t)])
<1> USE DEF Heads, Between, Retraces
<1> DEFINE seen == {raw[a].id : a \in 1..b}
           Sub(m) == [x \in 1..(c[m] - b) |-> raw[b + x]]
<1>0. DOMAIN t = 1..Len(t) /\ Len(t) \in Nat /\ DOMAIN raw = 1..Len(raw) /\ Len(raw) \in Nat
  OBVIOUS
<1>1. PICK f : Sights(f, t, seen)
  <2> HIDE DEF seen
  <2>1. QED
    BY SightBySight
<1> DEFINE Good == {m \in Nat : m <= Len(t) => f[m] = Sub(m)}
<1>2. ASSUME NEW m \in 0..Len(t)
      PROVE  /\ c[m] \in b..Len(raw) /\ Sub(m) \in Seq(R) /\ Len(Sub(m)) = c[m] - b
             /\ seen \cup Ids(Sub(m)) = {raw[a].id : a \in 1..c[m]}
  <2>1. c[m] \in b..Len(raw) /\ c[m] - b \in Nat
    OBVIOUS
  <2>2. \A x \in 1..(c[m] - b) : b + x \in 1..Len(raw)
    BY <1>0, <2>1
  <2>3. Sub(m) \in Seq(R) /\ Len(Sub(m)) = c[m] - b
    <3>1. Sub(m) \in [1..(c[m] - b) -> R]
      BY <2>2
    <3> HIDE DEF Sub
    <3>2. QED
      BY <2>1, <3>1, IsASequence
  <2>4. Ids(Sub(m)) = {raw[b + x].id : x \in 1..(c[m] - b)}
    BY <2>1 DEF Ids
  <2>5. {raw[b + x].id : x \in 1..(c[m] - b)} = {raw[a].id : a \in (b + 1)..c[m]}
    <3>1. ASSUME NEW a \in (b + 1)..c[m]
          PROVE  a - b \in 1..(c[m] - b) /\ a = b + (a - b)
      BY <2>1
    <3>2. \A x \in 1..(c[m] - b) : b + x \in (b + 1)..c[m]
      BY <2>1
    <3>3. QED
      BY <3>1, <3>2
  <2>6. {raw[a].id : a \in 1..b} \cup {raw[a].id : a \in (b + 1)..c[m]} = {raw[a].id : a \in 1..c[m]}
    <3>1. \A a \in 1..c[m] : a \in 1..b \/ a \in (b + 1)..c[m]
      BY <2>1
    <3>2. (1..b) \subseteq (1..c[m]) /\ ((b + 1)..c[m]) \subseteq (1..c[m])
      BY <2>1
    <3>3. QED
      BY <3>1, <3>2
  <2>7. QED
    BY <2>1, <2>3, <2>4, <2>5, <2>6
<1>3. 0 \in Good
  <2>1. Sub(0) = <<>>
    BY <1>0
  <2>2. QED
    BY <1>1, <2>1 DEF Sights
<1>4. ASSUME NEW n \in Nat, n \in Good
      PROVE  n + 1 \in Good
  <2> SUFFICES ASSUME n + 1 <= Len(t)
               PROVE  f[n + 1] = Sub(n + 1)
    OBVIOUS
  <2> DEFINE m == n + 1
  <2>1. m \in 1..Len(t) /\ m - 1 = n /\ n \in 0..Len(t) /\ m \in 0..Len(t) /\ f[n] = Sub(n)
    BY <1>0, <1>4
  <2>2. /\ c[n] \in b..Len(raw) /\ Sub(n) \in Seq(R) /\ Len(Sub(n)) = c[n] - b
        /\ seen \cup Ids(Sub(n)) = {raw[a].id : a \in 1..c[n]}
        /\ c[m] \in b..Len(raw)
    <3> HIDE DEF Sub, seen, m
    <3>1. QED
      BY <1>2, <2>1
  <2>3. f[m] = IF t[m].id \in {raw[a].id : a \in 1..c[n]} THEN Sub(n) ELSE Append(Sub(n), t[m])
    <3> HIDE DEF Sub, seen, m
    <3>1. QED
      BY <1>1, <2>1, <2>2 DEF Sights
  <2>4. CASE c[m] = c[n] /\ \E a \in 1..c[n] : t[m] = raw[a]
    <3>1. t[m].id \in {raw[a].id : a \in 1..c[n]}
      BY <2>4
    <3>2. Sub(m) = Sub(n)
      BY <2>4
    <3> HIDE DEF Sub, m
    <3>3. QED
      BY <2>3, <3>1, <3>2 DEF m
  <2>5. CASE c[m] = c[n] + 1 /\ t[m] = raw[c[m]]
    <3>1. c[m] \in DOMAIN raw /\ \A a \in 1..c[n] : a \in DOMAIN raw /\ a # c[m]
      BY <1>0, <2>2, <2>5
    <3>2. t[m].id \notin {raw[a].id : a \in 1..c[n]}
      <4> HIDE DEF m
      <4>1. QED
        BY <2>5, <3>1 DEF Distinct
    <3>3. Append(Sub(n), t[m]) = Sub(m)
      <4>1. Append(Sub(n), t[m]) = [x \in 1..(Len(Sub(n)) + 1) |->
                                      IF x = Len(Sub(n)) + 1 THEN t[m] ELSE Sub(n)[x]]
        <5> HIDE DEF Sub, m
        <5>1. QED
          BY <2>2
      <4>2. Len(Sub(n)) + 1 = c[m] - b /\ b + (c[m] - b) = c[m] /\ c[n] - b = c[m] - b - 1
        <5> HIDE DEF Sub, m
        <5>1. QED
          BY <2>2, <2>5
      <4>3. \A x \in 1..(c[m] - b) : (IF x = c[m] - b THEN t[m] ELSE Sub(n)[x]) = raw[b + x]
        <5>1. \A x \in 1..(c[m] - b) : x # c[m] - b => x \in 1..(c[n] - b)
          <6> HIDE DEF Sub, m
          <6>1. c[m] - b \in Nat
            BY <2>2
          <6>2. QED
            BY <4>2, <6>1, NotTheLast
        <5> HIDE DEF m
        <5>2. QED
          BY <2>5, <4>2, <5>1
      <4> HIDE DEF m
      <4>4. QED
        <5>1. Append(Sub(n), t[m]) = [x \in 1..(c[m] - b) |-> IF x = c[m] - b THEN t[m] ELSE Sub(n)[x]]
          <6> HIDE DEF Sub
          <6>1. QED
            BY <4>1, <4>2
        <5>2. Sub(m) = [x \in 1..(c[m] - b) |-> raw[b + x]]
          OBVIOUS
        <5> HIDE DEF Sub
        <5>3. QED
          BY <4>3, <5>1, <5>2
    <3> HIDE DEF Sub, m
    <3>4. QED
      BY <2>3, <3>2, <3>3 DEF m
  <2>6. QED
    <3> HIDE DEF Sub, m
    <3>1. QED
      BY <2>1, <2>4, <2>5
<1>5. Nat \subseteq Good
  <2> HIDE DEF Good
  <2>1. QED
    BY <1>3, <1>4, SetInduction
<1>6. f[Len(t)] = Sub(Len(t))
  <2> HIDE DEF Sub
  <2>1. QED
    BY <1>0, <1>5
<1>7. QED
  BY <1>1, <1>6 DEF Sights

\* FlattenSeq, for as many pages as there are here.
LEMMA FlattenOne ==
  ASSUME NEW s
  PROVE  FlattenSeq(<<s>>) = s
<1> DEFINE seqs == <<s>>
           F(f) == [i \in 1..Len(seqs) |-> IF i = 1 THEN seqs[i] ELSE f[i - 1] \o seqs[i]]
           flatten == CHOOSE f : f = F(f)
<1>1. FlattenSeq(seqs) = flatten[Len(seqs)]
  BY DEF FlattenSeq
<1>2. Len(seqs) = 1 /\ 1..1 = {1} /\ seqs[1] = s
  OBVIOUS
<1>3. [i \in 1..1 |-> s] = F([i \in 1..1 |-> s])
  BY <1>2
<1>4. flatten = F(flatten)
  BY <1>3
<1> HIDE DEF flatten, seqs
<1>5. QED
  BY <1>1, <1>2, <1>4 DEF seqs

LEMMA FlattenTwo ==
  ASSUME NEW s, NEW t
  PROVE  FlattenSeq(<<s, t>>) = s \o t
<1> DEFINE seqs == <<s, t>>
           F(f) == [i \in 1..Len(seqs) |-> IF i = 1 THEN seqs[i] ELSE f[i - 1] \o seqs[i]]
           flatten == CHOOSE f : f = F(f)
           g == [i \in 1..2 |-> IF i = 1 THEN s ELSE s \o t]
<1>1. FlattenSeq(seqs) = flatten[Len(seqs)]
  BY DEF FlattenSeq
<1>2. Len(seqs) = 2 /\ 1..2 = {1, 2} /\ seqs[1] = s /\ seqs[2] = t
  OBVIOUS
<1> HIDE DEF seqs
<1>3. g = F(g)
  BY <1>2
<1>4. flatten = F(flatten)
  BY <1>3
<1> HIDE DEF flatten
<1>5. flatten[1] = s /\ flatten[2] = flatten[1] \o t
  <2>1. flatten[1] = F(flatten)[1] /\ flatten[2] = F(flatten)[2]
    <3> HIDE DEF F
    <3>1. QED
      BY <1>4
  <2>2. F(flatten)[1] = s
    BY <1>2
  <2>3. F(flatten)[2] = flatten[1] \o t
    <3>1. 2 \in 1..Len(seqs) /\ 2 # 1 /\ 2 - 1 = 1
      BY <1>2
    <3>2. F(flatten)[2] = flatten[2 - 1] \o seqs[2]
      BY <3>1
    <3>3. QED
      BY <1>2, <3>1, <3>2
  <2> HIDE DEF F
  <2>4. QED
    BY <2>1, <2>2, <2>3
<1>6. QED
  BY <1>1, <1>2, <1>5 DEF seqs

\* The listings are the sequences of shards in order of their ids.
LEMMA ListingIs ==
  ASSUME NEW list
  PROVE  list \in Listings <=> list \in Seq(Shards) /\ InOrder(list)
<1> DEFINE N == Cardinality(Shards)
<1>1. N \in Nat
  BY LineageAssumption, FS_CardinalityType
<1>2. \A l \in Seq(Shards) : l \o <<>> = l
  OBVIOUS
<1>3. ASSUME NEW l, l \in SeqOf(Shards, N)
      PROVE  l \in Seq(Shards)
  <2>1. PICK m \in 0..N : l \in [1..m -> Shards]
    BY <1>3 DEF SeqOf
  <2>2. QED
    BY <1>1, <2>1
<1>4. ASSUME list \in Listings
      PROVE  list \in Seq(Shards) /\ InOrder(list)
  <2>1. PICK l \in SeqOf(Shards, N) : InOrder(l) /\ list = l \o <<>>
    BY <1>4 DEF Listings
  <2>2. l \in Seq(Shards)
    BY <1>3, <2>1
  <2>3. QED
    BY <1>2, <2>1, <2>2
<1>5. ASSUME list \in Seq(Shards), InOrder(list)
      PROVE  list \in Listings
  <2>1. Len(list) \in Nat /\ list \in [1..Len(list) -> Shards] /\ DOMAIN list = 1..Len(list)
    BY <1>5
  <2>2. \A i, j \in 1..Len(list) : list[i] = list[j] => i = j
    <3>1. ASSUME NEW i \in 1..Len(list), NEW j \in 1..Len(list), i < j
          PROVE  list[i] < list[j] /\ list[i] \in Nat /\ list[j] \in Nat
      BY <1>5, <2>1, <3>1, LineageAssumption DEF InOrder
    <3>2. \A i, j \in 1..Len(list) : i < j => list[i] # list[j]
      BY <3>1
    <3>3. \A i, j \in 1..Len(list) : i = j \/ i < j \/ j < i
      BY <2>1
    <3>4. QED
      BY <3>2, <3>3
  <2>3. list \in Injection(1..Len(list), Shards)
    BY <2>1, <2>2 DEF Injection, IsInjective
  <2>4. Cardinality(1..Len(list)) <= N
    BY <2>3, FS_Injection, LineageAssumption
  <2>5. Cardinality(1..Len(list)) = Len(list)
    <3>1. Cardinality(1..Len(list)) = IF 1 > Len(list) THEN 0 ELSE Len(list) - 1 + 1
      BY <2>1, FS_Interval
    <3>2. QED
      BY <2>1, <3>1
  <2>6. Len(list) \in 0..N
    BY <1>1, <2>1, <2>4, <2>5
  <2>7. list \in SeqOf(Shards, N)
    BY <2>1, <2>6 DEF SeqOf
  <2>8. QED
    BY <1>2, <1>5, <2>7 DEF Listings
<1>6. QED
  BY <1>4, <1>5

\* The lineage of a listing: the parents that are on it.
Lineage(list) ==
  [i \in 1..Len(list) |-> [id |-> list[i], parents |-> {ParentOf[list[i]]} \cap ToSet(list)]]

Entry == [id : Shards, parent : Shards \cup {NoShard}, open : BOOLEAN]

\* raw reports the shards of list, whichever of them look open.
Reports(raw, list) ==
  /\ raw \in Seq(Entry) /\ Len(raw) = Len(list)
  /\ \A i \in 1..Len(list) : raw[i].id = list[i] /\ raw[i].parent = ParentOf[list[i]]

\* What the steps use of a listing.
LEMMA ListingFacts ==
  ASSUME NEW list \in Listings
  PROVE  /\ list \in Seq(Shards) /\ Len(list) \in Nat /\ DOMAIN list = 1..Len(list)
         /\ \A i \in 1..Len(list) : list[i] \in Shards /\ list[i] \in Nat
         /\ \A i, j \in 1..Len(list) : i < j => list[i] < list[j]
         /\ \A i, j \in 1..Len(list) : list[i] = list[j] => i = j
         /\ ToSet(list) = {list[i] : i \in 1..Len(list)}
<1>1. list \in Seq(Shards) /\ InOrder(list)
  BY ListingIs
<1>2. Len(list) \in Nat /\ DOMAIN list = 1..Len(list)
  BY <1>1
<1>3. \A i \in 1..Len(list) : list[i] \in Shards /\ list[i] \in Nat
  <2>1. \A i \in 1..Len(list) : list[i] \in Shards
    BY <1>1, <1>2
  <2>2. Shards \subseteq Nat
    BY LineageAssumption
  <2>3. QED
    BY <2>1, <2>2
<1>4. \A i, j \in 1..Len(list) : i < j => list[i] < list[j]
  BY <1>1, <1>2 DEF InOrder
<1>5. \A i, j \in 1..Len(list) : list[i] = list[j] => i = j
  <2>1. \A i, j \in 1..Len(list) : i < j => list[i] # list[j]
    BY <1>3, <1>4
  <2>2. \A i, j \in 1..Len(list) : i = j \/ i < j \/ j < i
    BY <1>2
  <2>3. QED
    BY <2>1, <2>2
<1>6. QED
  BY <1>1, <1>2, <1>3, <1>4, <1>5 DEF ToSet

\* What the service reports, and what close_open_parents leaves of it, is a report.
LEMMA RawReports ==
  ASSUME NEW list \in Listings, NEW open
  PROVE  Reports(Raw(list, open), list) /\ Reports(CloseOpenParents(Raw(list, open)), list)
<1> DEFINE raw == Raw(list, open)
           normal == CloseOpenParents(raw)
<1>1. /\ Len(list) \in Nat /\ DOMAIN list = 1..Len(list)
      /\ \A i \in 1..Len(list) : list[i] \in Shards /\ ParentOf[list[i]] \in Shards \cup {NoShard}
  BY ListingFacts, LineageAssumption
<1>2. /\ raw = [i \in 1..Len(list) |->
                  [id |-> list[i], parent |-> ParentOf[list[i]], open |-> list[i] \in open]]
  BY <1>1 DEF Raw
<1>3. ASSUME NEW i \in 1..Len(list)
      PROVE  /\ raw[i] \in Entry
             /\ raw[i].id = list[i] /\ raw[i].parent = ParentOf[list[i]] /\ raw[i].open \in BOOLEAN
  <2>1. raw[i] = [id |-> list[i], parent |-> ParentOf[list[i]], open |-> list[i] \in open]
    BY <1>2
  <2>2. (list[i] \in open) \in BOOLEAN
    OBVIOUS
  <2>3. QED
    BY <1>1, <2>1, <2>2 DEF Entry
<1>4. raw \in [1..Len(list) -> Entry]
  BY <1>2, <1>3
<1> HIDE DEF raw
<1>5. raw \in Seq(Entry) /\ Len(raw) = Len(list)
  BY <1>1, <1>4, IsASequence
<1> DEFINE par == {raw[x].parent : x \in 1..Len(list)}
<1>6. normal = [i \in 1..Len(list) |->
                  [raw[i] EXCEPT !.open = raw[i].open /\ raw[i].id \notin par]]
  BY <1>4 DEF CloseOpenParents
<1>7. ASSUME NEW i \in 1..Len(list)
      PROVE  /\ normal[i] \in Entry
             /\ normal[i].id = list[i] /\ normal[i].parent = ParentOf[list[i]]
  <2>1. normal[i] = [raw[i] EXCEPT !.open = raw[i].open /\ raw[i].id \notin par]
    BY <1>6
  <2> HIDE DEF par, normal
  <2>2. (raw[i].open /\ raw[i].id \notin par) \in BOOLEAN
    OBVIOUS
  <2>3. QED
    BY <1>3, <2>1, <2>2 DEF Entry
<1>8. normal \in [1..Len(list) -> Entry]
  <2>1. normal = [i \in 1..Len(list) |-> normal[i]]
    BY <1>6
  <2> HIDE DEF normal
  <2>2. QED
    BY <1>7, <2>1
<1> HIDE DEF normal
<1>9. normal \in Seq(Entry) /\ Len(normal) = Len(list)
  BY <1>1, <1>8, IsASequence
<1>10. QED
  BY <1>3, <1>5, <1>7, <1>9 DEF Reports, raw, normal

\* What the steps use of a report.
LEMMA ReportFacts ==
  ASSUME NEW list \in Listings, NEW raw, Reports(raw, list)
  PROVE  /\ raw \in Seq(Entry) /\ Len(raw) = Len(list) /\ DOMAIN raw = 1..Len(list) /\ Len(list) \in Nat
         /\ Distinct(raw)
         /\ \A i \in 1..Len(list) : raw[i].id = list[i] /\ raw[i].parent = ParentOf[list[i]]
         /\ Ids(raw) = ToSet(list)
         /\ Metas(raw, Ids(raw)) = Lineage(list)
<1>1. /\ raw \in Seq(Entry) /\ Len(raw) = Len(list) /\ DOMAIN raw = 1..Len(list) /\ Len(list) \in Nat
      /\ \A i \in 1..Len(list) : raw[i].id = list[i] /\ raw[i].parent = ParentOf[list[i]]
  BY ListingFacts DEF Reports
<1>2. Distinct(raw)
  BY <1>1, ListingFacts DEF Distinct
<1>3. Ids(raw) = ToSet(list)
  <2>1. ToSet(list) = {list[i] : i \in 1..Len(list)}
    BY ListingFacts
  <2>2. QED
    BY <1>1, <2>1 DEF Ids
<1>4. \A i \in 1..Len(list) :
        Meta(raw[i], ToSet(list)) = [id |-> list[i], parents |-> {ParentOf[list[i]]} \cap ToSet(list)]
  BY <1>1 DEF Meta, ParentsOf
<1>5. QED
  BY <1>1, <1>2, <1>3, <1>4 DEF Metas, Lineage

\* Heads and Between where nothing was seen before.
LEMMA FromTheStart ==
  ASSUME NEW R, NEW raw \in Seq(R)
  PROVE  Heads(raw, 0) = {} /\ Between(raw, 0, Len(raw)) = raw
<1>1. Len(raw) \in Nat /\ raw = [x \in 1..Len(raw) |-> raw[x]]
  OBVIOUS
<1>2. Len(raw) - 0 = Len(raw) /\ \A x \in 1..Len(raw) : 0 + x = x
  BY <1>1
<1>3. QED
  BY <1>1, <1>2 DEF Heads, Between

\* The whole listing on one page.
LEMMA OnePage ==
  ASSUME NEW list \in Listings, NEW raw, Reports(raw, list)
  PROVE  BuildShardGraph(<<raw>>) = Lineage(list)
<1> DEFINE n == Len(list)
           c == [m \in 0..n |-> m]
<1>1. /\ raw \in Seq(Entry) /\ Len(raw) = n /\ n \in Nat /\ DOMAIN raw = 1..n /\ Distinct(raw)
      /\ Metas(raw, Ids(raw)) = Lineage(list)
  BY ReportFacts
<1>2. FirstSights(raw, {}) = raw
  <2> HIDE DEF n
  <2>1. 0 \in 0..Len(raw) /\ c[Len(raw)] = n /\ Retraces(raw, raw, 0, c)
    BY <1>1 DEF Retraces
  <2>2. Heads(raw, 0) = {} /\ Between(raw, 0, n) = raw
    BY <1>1, FromTheStart
  <2> HIDE DEF c
  <2>3. FirstSights(raw, Heads(raw, 0)) = Between(raw, 0, c[Len(raw)])
    BY <1>1, <2>1, SightsGrow
  <2>4. QED
    BY <2>1, <2>2, <2>3
<1>3. QED
  BY <1>1, <1>2, FlattenOne DEF BuildShardGraph

\* What describe_shards makes of a listing.
LEMMA GraphIs ==
  ASSUME NEW list \in Listings
  PROVE  /\ DescribeShards[list] = Lineage(list)
         /\ Len(DescribeShards[list]) = Len(list)
         /\ Ids(DescribeShards[list]) = ToSet(list)
         /\ \A i \in 1..Len(list) :
              /\ DescribeShards[list][i].id = list[i]
              /\ DescribeShards[list][i].parents = {ParentOf[list[i]]} \cap ToSet(list)
<1>1. DescribeShards[list] = BuildShardGraph(<<CloseOpenParents(Raw(list, Shards))>>)
  BY DEF DescribeShards
<1>2. DescribeShards[list] = Lineage(list)
  BY <1>1, RawReports, OnePage
<1>3. Len(list) \in Nat /\ DOMAIN list = 1..Len(list) /\ ToSet(list) = {list[i] : i \in 1..Len(list)}
  BY ListingFacts
<1>4. Lineage(list) \in [1..Len(list) -> [id : {list[i] : i \in 1..Len(list)}, parents : SUBSET ToSet(list)]]
  BY DEF Lineage
<1>5. Len(Lineage(list)) = Len(list)
  BY <1>3, <1>4, IsASequence
<1>6. \A i \in 1..Len(list) : /\ Lineage(list)[i].id = list[i]
                              /\ Lineage(list)[i].parents = {ParentOf[list[i]]} \cap ToSet(list)
  BY DEF Lineage
<1>7. Ids(Lineage(list)) = ToSet(list)
  <2>1. DOMAIN Lineage(list) = 1..Len(list)
    BY DEF Lineage
  <2>2. QED
    BY <1>3, <1>6, <2>1 DEF Ids
<1>8. QED
  BY <1>2, <1>5, <1>6, <1>7

\* Two pages, the second of which repeats some of the first.
LEMMA TwoPages ==
  ASSUME NEW list \in Listings, NEW raw, Reports(raw, list),
         NEW i \in 0..Len(raw), NEW j \in 1..(i + 1)
  PROVE  BuildShardGraph(<<SubSeq(raw, 1, i), SubSeq(raw, j, Len(raw))>>) = Lineage(list)
<1> DEFINE n == Len(raw)
           known == SubSeq(raw, 1, i)
           rest == SubSeq(raw, j, n)
           t == known \o rest
           c == [m \in 0..Len(t) |-> IF m <= i THEN m ELSE IF m - i + j - 1 <= i THEN i ELSE m - i + j - 1]
<1>1. /\ raw \in Seq(Entry) /\ Len(list) = n /\ n \in Nat /\ DOMAIN raw = 1..n /\ Distinct(raw)
      /\ Metas(raw, Ids(raw)) = Lineage(list)
      /\ i \in 0..n /\ j \in 1..(i + 1) /\ i \in Nat /\ j \in Nat
  BY ReportFacts
<1>2. /\ known \in Seq(Entry) /\ Len(known) = i /\ \A x \in 1..i : known[x] = raw[x]
      /\ rest \in Seq(Entry) /\ Len(rest) = n - j + 1
      /\ \A x \in 1..(n - j + 1) : rest[x] = raw[x + j - 1]
  <2> HIDE DEF n
  <2>1. known \in Seq(Entry) /\ Len(known) = i /\ \A x \in 1..i : known[x] = raw[x]
    BY <1>1 DEF n
  <2>2. rest \in Seq(Entry) /\ Len(rest) = n - j + 1
    BY <1>1 DEF n
  <2>3. \A x \in 1..(n - j + 1) : rest[x] = raw[x + j - 1]
    BY <1>1 DEF n
  <2>4. QED
    BY <2>1, <2>2, <2>3
<1> HIDE DEF n, known, rest
<1>3. /\ t \in Seq(Entry) /\ Len(t) = i + n - j + 1
      /\ \A m \in 1..Len(t) : t[m] = IF m <= i THEN raw[m] ELSE raw[m - i + j - 1]
  <2>1. /\ t \in Seq(Entry) /\ Len(t) = i + (n - j + 1)
        /\ \A m \in 1..Len(t) : t[m] = IF m <= i THEN known[m] ELSE rest[m - i]
    <3>1. /\ t \in Seq(Entry) /\ Len(t) = Len(known) + Len(rest)
          /\ \A m \in 1..(Len(known) + Len(rest)) :
               t[m] = IF m <= Len(known) THEN known[m] ELSE rest[m - Len(known)]
      <4>1. known \in Seq(Entry) /\ rest \in Seq(Entry)
        BY <1>2
      <4>2. QED
        BY <4>1, Concatenation
    <3> HIDE DEF t
    <3>2. QED
      BY <1>2, <3>1
  <2>2. \A m \in 1..Len(t) : t[m] = IF m <= i THEN known[m] ELSE rest[m - i]
    BY <2>1
  <2> HIDE DEF t
  <2>3. \A m \in 1..Len(t) : m <= i => m \in 1..i
    BY <1>1, <2>1
  <2>4. \A m \in 1..Len(t) : ~(m <= i) => m - i \in 1..(n - j + 1)
    BY <1>1, <2>1
  <2>5. QED
    BY <1>1, <1>2, <2>1, <2>2, <2>3, <2>4
<1> HIDE DEF t
<1>4. /\ c \in [0..Len(t) -> 0..n] /\ c[0] = 0 /\ c[Len(t)] = n
  BY <1>1, <1>3
<1>5. ASSUME NEW m \in 1..Len(t)
      PROVE  \/ c[m] = c[m - 1] /\ \E a \in 1..c[m - 1] : t[m] = raw[a]
             \/ c[m] = c[m - 1] + 1 /\ t[m] = raw[c[m]]
  <2>1. /\ c[m] = IF m <= i THEN m ELSE IF m - i + j - 1 <= i THEN i ELSE m - i + j - 1
        /\ c[m - 1] = IF m - 1 <= i THEN m - 1 ELSE IF m - 1 - i + j - 1 <= i THEN i ELSE m - 1 - i + j - 1
    BY <1>1, <1>3
  <2> HIDE DEF c
  <2>2. CASE m <= i
    BY <1>1, <1>3, <2>1, <2>2
  <2>3. CASE ~(m <= i) /\ m - i + j - 1 <= i
    <3>1. c[m] = i /\ t[m] = raw[m - i + j - 1]
      BY <1>3, <2>1, <2>3
    <3>2. m \in Nat /\ i \in Nat /\ j \in Nat /\ j >= 1
      BY <1>1, <1>3
    <3>3. m - i + j - 1 \in 1..i /\ m - 1 - i + j - 1 <= i /\ (m - 1 <= i => m - 1 = i)
      BY <2>3, <3>2
    <3>4. c[m - 1] = i
      BY <2>1, <3>3
    <3>5. QED
      BY <3>1, <3>3, <3>4
  <2>4. CASE ~(m <= i) /\ ~(m - i + j - 1 <= i)
    <3>1. c[m] = m - i + j - 1 /\ t[m] = raw[m - i + j - 1]
      BY <1>3, <2>1, <2>4
    <3>2. m \in Nat /\ i \in Nat /\ j \in 1..(i + 1)
      BY <1>1, <1>3
    <3>3. /\ m - 1 <= i => m - 1 = m - i + j - 1 - 1
          /\ m - 1 - i + j - 1 <= i => i = m - i + j - 1 - 1
          /\ m - 1 - i + j - 1 = m - i + j - 1 - 1
      BY <2>4, <3>2
    <3>4. c[m - 1] = m - i + j - 1 - 1
      BY <2>1, <3>3
    <3>5. c[m] = c[m - 1] + 1
      BY <3>1, <3>2, <3>4
    <3>6. QED
      BY <3>1, <3>5
  <2>5. QED
    BY <2>2, <2>3, <2>4
<1>6. FirstSights(t, {}) = raw
  <2> HIDE DEF c
  <2>1. Heads(raw, 0) = {} /\ Between(raw, 0, n) = raw
    BY <1>1, FromTheStart DEF n
  <2>2. 0 \in 0..Len(raw) /\ Retraces(t, raw, 0, c)
    BY <1>1, <1>4, <1>5 DEF Retraces, n
  <2>3. FirstSights(t, Heads(raw, 0)) = Between(raw, 0, c[Len(t)])
    BY <1>1, <1>3, <2>2, SightsGrow
  <2>4. QED
    BY <1>4, <2>1, <2>3
<1>7. BuildShardGraph(<<known, rest>>) = Lineage(list)
  BY <1>1, <1>6, FlattenTwo DEF BuildShardGraph, t
<1>8. QED
  BY <1>7 DEF known, rest, n

\* The first i shards of a listing are a listing, with the same lineage.
LEMMA FrontListing ==
  ASSUME NEW list \in Listings, NEW i \in 0..Len(list), NEW raw, Reports(raw, list)
  PROVE  /\ SubSeq(list, 1, i) \in Listings /\ Len(SubSeq(list, 1, i)) = i
         /\ Reports(SubSeq(raw, 1, i), SubSeq(list, 1, i))
         /\ ToSet(SubSeq(list, 1, i)) = {list[x] : x \in 1..i}
         /\ Lineage(SubSeq(list, 1, i)) = [x \in 1..i |-> Lineage(list)[x]]
<1> DEFINE front == SubSeq(list, 1, i)
<1>1. /\ list \in Seq(Shards) /\ Len(list) \in Nat /\ DOMAIN list = 1..Len(list)
      /\ \A x \in 1..Len(list) : list[x] \in Shards /\ list[x] \in Nat
      /\ \A x, y \in 1..Len(list) : x < y => list[x] < list[y]
      /\ ToSet(list) = {list[x] : x \in 1..Len(list)}
  BY ListingFacts
<1>2. /\ front \in Seq(Shards) /\ Len(front) = i /\ DOMAIN front = 1..i
      /\ \A x \in 1..i : x \in 1..Len(list) /\ front[x] = list[x]
  BY <1>1
<1> HIDE DEF front
<1>3. InOrder(front)
  BY <1>1, <1>2 DEF InOrder
<1>4. front \in Listings
  BY <1>2, <1>3, ListingIs
<1>5. Reports(SubSeq(raw, 1, i), front)
  <2>1. /\ raw \in Seq(Entry) /\ Len(raw) = Len(list)
        /\ \A x \in 1..Len(list) : raw[x].id = list[x] /\ raw[x].parent = ParentOf[list[x]]
    BY DEF Reports
  <2>2. /\ SubSeq(raw, 1, i) \in Seq(Entry) /\ Len(SubSeq(raw, 1, i)) = i
        /\ \A x \in 1..i : SubSeq(raw, 1, i)[x] = raw[x]
    BY <1>1, <2>1
  <2>3. QED
    BY <1>2, <2>1, <2>2 DEF Reports
<1>6. ToSet(front) = {list[x] : x \in 1..i}
  BY <1>2 DEF ToSet
<1>7. \A x \in 1..i : {ParentOf[list[x]]} \cap ToSet(front) = {ParentOf[list[x]]} \cap ToSet(list)
  <2>1. ASSUME NEW x \in 1..i, ParentOf[list[x]] \in ToSet(list)
        PROVE  ParentOf[list[x]] \in ToSet(front)
    <3>1. PICK y \in 1..Len(list) : ParentOf[list[x]] = list[y]
      BY <1>1, <2>1
    <3>2. x \in 1..Len(list) /\ list[x] \in Shards /\ list[y] \in Shards
      BY <1>1, <1>2
    <3>3. list[y] < list[x]
      BY <3>1, <3>2, LineageAssumption
    <3>4. ~(x < y) /\ x # y
      BY <1>1, <3>2, <3>3
    <3>5. y \in 1..i
      BY <1>1, <3>2, <3>4
    <3>6. QED
      BY <1>6, <3>1, <3>5
  <2>2. ToSet(front) \subseteq ToSet(list)
    BY <1>1, <1>2, <1>6
  <2>3. QED
    BY <2>1, <2>2
<1>8. Lineage(front) = [x \in 1..i |-> Lineage(list)[x]]
  <2>1. \A x \in 1..i : Lineage(list)[x] = [id |-> list[x], parents |-> {ParentOf[list[x]]} \cap ToSet(list)]
    BY <1>2 DEF Lineage
  <2>2. \A x \in 1..i :
          Lineage(list)[x] = [id |-> front[x], parents |-> {ParentOf[front[x]]} \cap ToSet(front)]
    BY <1>2, <1>7, <2>1
  <2>3. QED
    BY <1>2, <2>2 DEF Lineage
<1>9. QED
  BY <1>2, <1>4, <1>5, <1>6, <1>8 DEF front

\* The incremental path: what a lookup found, merged into the graph of the first i.
LEMMA Merged ==
  ASSUME NEW list \in Listings, NEW raw, Reports(raw, list),
         NEW i \in 0..Len(raw), NEW j \in 1..(i + 1)
  PROVE  MergeChildShards(BuildShardGraph(<<SubSeq(raw, 1, i)>>), SubSeq(raw, j, Len(raw))) = Lineage(list)
<1> DEFINE n == Len(raw)
           front == SubSeq(list, 1, i)
           rest == SubSeq(raw, j, n)
           c == [m \in 0..Len(rest) |-> IF m + j - 1 <= i THEN i ELSE m + j - 1]
           present == Heads(raw, i) \cup Ids(rest)
           new == Between(raw, i, n)
<1>1. /\ raw \in Seq(Entry) /\ Len(list) = n /\ n \in Nat /\ DOMAIN raw = 1..n /\ Distinct(raw)
      /\ Ids(raw) = ToSet(list)
      /\ \A x \in 1..n : raw[x].id = list[x] /\ raw[x].parent = ParentOf[list[x]]
      /\ i \in 0..n /\ j \in 1..(i + 1) /\ i \in Nat /\ j \in Nat
  BY ReportFacts
<1>2. /\ rest \in Seq(Entry) /\ Len(rest) = n - j + 1
      /\ \A x \in 1..(n - j + 1) : rest[x] = raw[x + j - 1]
  <2> HIDE DEF n
  <2>1. rest \in Seq(Entry) /\ Len(rest) = n - j + 1
    BY <1>1 DEF n
  <2>2. \A x \in 1..(n - j + 1) : rest[x] = raw[x + j - 1]
    BY <1>1 DEF n
  <2>3. QED
    BY <2>1, <2>2
<1>3. /\ front \in Listings /\ Reports(SubSeq(raw, 1, i), front)
      /\ ToSet(front) = {list[x] : x \in 1..i}
      /\ Lineage(front) = [x \in 1..i |-> Lineage(list)[x]]
  BY <1>1, FrontListing
<1> HIDE DEF n, rest, front
<1>4. BuildShardGraph(<<SubSeq(raw, 1, i)>>) = Lineage(front) /\ Ids(Lineage(front)) = Heads(raw, i)
  <2>1. BuildShardGraph(<<SubSeq(raw, 1, i)>>) = Lineage(front)
    BY <1>3, OnePage
  <2>2. Ids(Lineage(front)) = ToSet(front)
    BY <1>3, GraphIs
  <2>3. \A x \in 1..i : x \in 1..n
    BY <1>1
  <2>4. {list[x] : x \in 1..i} = Heads(raw, i)
    BY <1>1, <2>3 DEF Heads
  <2>5. QED
    BY <1>3, <2>1, <2>2, <2>4
<1>5. c \in [0..Len(rest) -> i..n] /\ c[0] = i /\ c[Len(rest)] = n
  BY <1>1, <1>2
<1>6. ASSUME NEW m \in 1..Len(rest)
      PROVE  \/ c[m] = c[m - 1] /\ \E a \in 1..c[m - 1] : rest[m] = raw[a]
             \/ c[m] = c[m - 1] + 1 /\ rest[m] = raw[c[m]]
  <2>1. /\ c[m] = IF m + j - 1 <= i THEN i ELSE m + j - 1
        /\ c[m - 1] = IF m - 1 + j - 1 <= i THEN i ELSE m - 1 + j - 1
        /\ rest[m] = raw[m + j - 1]
    BY <1>1, <1>2
  <2> HIDE DEF c
  <2>2. CASE m + j - 1 <= i
    <3>1. c[m] = i /\ c[m - 1] = i /\ m + j - 1 \in 1..i
      BY <1>1, <1>2, <2>1, <2>2
    <3>2. QED
      BY <2>1, <3>1
  <2>3. CASE ~(m + j - 1 <= i)
    BY <1>1, <1>2, <2>1, <2>3
  <2>4. QED
    BY <2>2, <2>3
<1>7. FirstSights(rest, Heads(raw, i)) = new
  <2> HIDE DEF c
  <2>1. i \in 0..Len(raw) /\ Retraces(rest, raw, i, c)
    BY <1>1, <1>5, <1>6 DEF Retraces, n
  <2>2. FirstSights(rest, Heads(raw, i)) = Between(raw, i, c[Len(rest)])
    BY <1>1, <1>2, <2>1, SightsGrow
  <2>3. QED
    BY <1>5, <2>2
<1>8. present = ToSet(list)
  <2>1. Ids(raw) = {raw[x].id : x \in 1..n}
    BY <1>1 DEF Ids
  <2>2. Ids(rest) = {raw[x + j - 1].id : x \in 1..(n - j + 1)}
    <3>1. DOMAIN rest = 1..(n - j + 1)
      BY <1>2
    <3>2. Ids(rest) = {rest[x].id : x \in 1..(n - j + 1)}
      BY <3>1 DEF Ids
    <3>3. QED
      BY <1>2, <3>2
  <2>3. ASSUME NEW x \in 1..n
        PROVE  x \in 1..i \/ (x - j + 1 \in 1..(n - j + 1) /\ x = (x - j + 1) + j - 1)
    BY <1>1
  <2>4. (\A x \in 1..i : x \in 1..n) /\ \A x \in 1..(n - j + 1) : x + j - 1 \in 1..n
    BY <1>1
  <2>5. ASSUME NEW e \in Ids(raw)
        PROVE  e \in present
    <3>1. PICK x \in 1..n : e = raw[x].id
      BY <2>1
    <3>2. CASE x \in 1..i
      BY <3>1, <3>2 DEF Heads
    <3>3. CASE x - j + 1 \in 1..(n - j + 1) /\ x = (x - j + 1) + j - 1
      BY <2>2, <3>1, <3>3
    <3>4. QED
      BY <2>3, <3>2, <3>3
  <2>6. ASSUME NEW e \in present
        PROVE  e \in Ids(raw)
    BY <2>1, <2>2, <2>4 DEF Heads
  <2>7. QED
    BY <1>1, <2>5, <2>6
<1>9. /\ new = [x \in 1..(n - i) |-> raw[i + x]]
      /\ Metas(new, ToSet(list)) = [x \in 1..(n - i) |-> Lineage(list)[i + x]]
  <2>1. new = [x \in 1..(n - i) |-> raw[i + x]]
    BY DEF Between
  <2>2. \A x \in 1..(n - i) : i + x \in 1..n
    BY <1>1
  <2>3. \A y \in 1..n : Meta(raw[y], ToSet(list)) = Lineage(list)[y]
    BY <1>1 DEF Meta, ParentsOf, Lineage
  <2>4. QED
    BY <2>1, <2>2, <2>3 DEF Metas
<1>10. Lineage(front) \o Metas(new, ToSet(list)) = Lineage(list)
  <2> DEFINE R == {Lineage(list)[x] : x \in 1..n}
             s == Lineage(front)
             u == Metas(new, ToSet(list))
  <2>1. s \in [1..i -> R]
    <3>1. \A x \in 1..i : x \in 1..n
      BY <1>1
    <3>2. QED
      BY <1>3, <3>1
  <2>2. u \in [1..(n - i) -> R]
    <3>1. \A x \in 1..(n - i) : i + x \in 1..n
      BY <1>1
    <3>2. QED
      BY <1>9, <3>1
  <2>3. /\ \A x \in 1..i : s[x] = Lineage(list)[x]
        /\ \A x \in 1..(n - i) : u[x] = Lineage(list)[i + x]
    BY <1>3, <1>9
  <2> HIDE DEF s, u, R
  <2>4. s \in Seq(R) /\ Len(s) = i /\ u \in Seq(R) /\ Len(u) = n - i
    <3>1. s \in Seq(R) /\ Len(s) = i
      BY <1>1, <2>1, IsASequence
    <3>2. n - i \in Nat
      BY <1>1
    <3>3. u \in Seq(R) /\ Len(u) = n - i
      BY <2>2, <3>2, IsASequence
    <3>4. QED
      BY <3>1, <3>3
  <2>5. /\ s \o u \in Seq(R) /\ Len(s \o u) = i + (n - i)
        /\ \A m \in 1..(i + (n - i)) : (s \o u)[m] = IF m <= i THEN s[m] ELSE u[m - i]
    <3>1. /\ s \o u \in Seq(R) /\ Len(s \o u) = Len(s) + Len(u)
          /\ \A m \in 1..(Len(s) + Len(u)) : (s \o u)[m] = IF m <= Len(s) THEN s[m] ELSE u[m - Len(s)]
      <4>1. s \in Seq(R) /\ u \in Seq(R)
        BY <2>4
      <4>2. QED
        BY <4>1, Concatenation
    <3>2. QED
      BY <2>4, <3>1
  <2>6. i + (n - i) = n
    BY <1>1
  <2>7. \A m \in 1..n : (s \o u)[m] = Lineage(list)[m]
    <3>1. ASSUME NEW m \in 1..n
          PROVE  (s \o u)[m] = Lineage(list)[m]
      <4>1. CASE m <= i
        BY <1>1, <2>3, <2>5, <2>6, <4>1
      <4>2. CASE ~(m <= i)
        <5>1. m - i \in 1..(n - i) /\ i + (m - i) = m
          BY <1>1, <4>2
        <5>2. QED
          BY <2>3, <2>5, <2>6, <4>2, <5>1
      <4>3. QED
        BY <4>1, <4>2
    <3>2. QED
      BY <3>1
  <2>8. s \o u = [m \in 1..n |-> (s \o u)[m]]
    <3>1. \A q \in Seq(R) : q = [m \in 1..Len(q) |-> q[m]]
      OBVIOUS
    <3>2. QED
      BY <2>5, <2>6, <3>1
  <2>9. Lineage(list) = [m \in 1..n |-> Lineage(list)[m]]
    BY <1>1 DEF Lineage
  <2>10. QED
    BY <2>7, <2>8, <2>9 DEF s, u
<1>11. MergeChildShards(Lineage(front), rest) = Lineage(list)
  BY <1>4, <1>7, <1>8, <1>10 DEF MergeChildShards
<1>12. QED
  BY <1>4, <1>11 DEF rest, n

-----------------------------------------------------------------------------
(* The engines *)

\* Where a process works on a shard.
Work == {"acquire", "claim", "read", "ckpt", "finish"}

\* Shards come to be in the order of their ids, and a parent has ended before.
StreamInOrder ==
  /\ \A r, s \in Shards : r < s /\ stream[s] # "future" => stream[r] # "future"
  /\ \A s \in Shards : ParentOf[s] # NoShard /\ stream[s] # "future" =>
       stream[ParentOf[s]] \in {"closed", "trimmed"}

\* A describe has left out, before the shards it has, only what is gone.
NoneLeftOut(list) ==
  \A i \in 1..Len(list) :
    /\ stream[list[i]] # "future"
    /\ \A r \in Shards : r < list[i] => r \in ToSet(list) \/ stream[r] = "trimmed"

\* The parent of s is complete or has aged out.
ParentGone(s) ==
  ParentOf[s] # NoShard => finished[ParentOf[s]] \/ stream[ParentOf[s]] = "trimmed"

\* What was handled of a shard is a prefix of it, and the checkpoint lies within.
HandledPrefix ==
  \A s \in Shards :
    /\ \E n \in 0..written[s] : handled[s] = 1..n
    /\ durable[s] \in handled[s] \cup {0}

Drained(s) == stream[s] \in {"closed", "trimmed"} /\ handled[s] = 1..written[s]

\* What p knows of the shard s it is at.
AtShard(p, s) ==
  /\ ParentGone(s)
  /\ pos[p] \in handled[s] \cup {0}
  /\ pc[p] = "ckpt" => pos[p] # 0
  /\ pc[p] = "finish" \/ (pc[p] = "ckpt" /\ ended[p]) => Drained(s)

\* One process and its pass.
PassInv(p) ==
  /\ k[p] <= Len(listing[p])
  /\ NoneLeftOut(listing[p])
  /\ engine = "fleet" => pc[p] \in SetupPC
  /\ pc[p] \in {"snap", "acquire", "claim"} => engine = "worker"
  /\ pc[p] \in {"snap"} \cup Work => k[p] >= 1
  /\ done[p] \subseteq FinishedShards
  /\ pc[p] \in Work => AtShard(p, listing[p][k[p]])

PassTypes ==
  /\ listing \in [Processes -> Listings] /\ k \in [Processes -> Nat]
  /\ done \in [Processes -> SUBSET Shards]
  /\ pos \in [Processes -> 0..LastSeq]
  /\ ended \in [Processes -> BOOLEAN]

RowTypes ==
  /\ engine \in {"worker", "scheduler", "fleet"}
  /\ stream \in [Shards -> {"future", "open", "closed", "trimmed"}]
  /\ written \in [Shards -> 0..LastSeq] /\ durable \in [Shards -> 0..LastSeq]
  /\ row \in [Shards -> BOOLEAN] /\ finished \in [Shards -> BOOLEAN]
  /\ knows \in [Shards -> SUBSET Processes]
  /\ handled \in [Shards -> SUBSET (1..LastSeq)]
  /\ overlapped \in BOOLEAN

ShardInv ==
  /\ StreamInOrder
  /\ HandledPrefix
  /\ \A s \in Shards : finished[s] => Drained(s)
  /\ ParentFirst

EngineInv ==
  /\ pc \in [Processes -> SetupPC \cup EnginePC]
  /\ RowTypes
  /\ PassTypes
  /\ ShardInv
  /\ \A p \in Processes : PassInv(p)

Own(p) == <<pc[p], listing[p], done[p], k[p], pos[p], ended[p]>>

\* What every step does with the shards, if anything.
Advances ==
  /\ engine' = engine
  /\ \A s \in Shards :
       /\ stream[s] = "trimmed" => stream'[s] = "trimmed"
       /\ stream[s] # "future" => stream'[s] # "future"
       /\ finished[s] => finished'[s]
       /\ handled[s] \subseteq handled'[s]
       /\ Drained(s) => Drained(s)'

\* The others do not notice.
LEMMA PassKept ==
  ASSUME NEW q \in Processes, PassTypes, PassInv(q), Advances, Own(q)' = Own(q)
  PROVE  PassInv(q)'
<1>1. /\ pc'[q] = pc[q] /\ listing'[q] = listing[q] /\ done'[q] = done[q] /\ k'[q] = k[q]
      /\ pos'[q] = pos[q] /\ ended'[q] = ended[q]
  BY DEF Own
<1>2. /\ listing[q] \in Listings /\ Len(listing[q]) \in Nat /\ k[q] \in Nat
      /\ \A i \in 1..Len(listing[q]) : listing[q][i] \in Shards
  BY ListingFacts DEF PassTypes
<1>3. NoneLeftOut(listing[q])'
  BY <1>1, <1>2 DEF PassInv, Advances, NoneLeftOut
<1>4. done'[q] \subseteq FinishedShards'
  BY <1>1 DEF PassInv, Advances, FinishedShards
<1>5. ASSUME pc[q] \in Work
      PROVE  AtShard(q, listing[q][k[q]])'
  <2> DEFINE s == listing[q][k[q]]
  <2>1. s \in Shards /\ AtShard(q, s)
    BY <1>2, <1>5 DEF PassInv
  <2>2. s' = s
    BY <1>1
  <2> HIDE DEF s
  <2>3. ParentOf[s] = NoShard \/ ParentOf[s] \in Shards
    BY <2>1, LineageAssumption
  <2>4. ParentGone(s)'
    BY <2>1, <2>2, <2>3 DEF AtShard, ParentGone, Advances
  <2>5. Drained(s) => Drained(s)'
    BY <2>1, <2>2 DEF Advances, Drained
  <2>6. pos'[q] \in handled'[s] \cup {0}
    BY <1>1, <2>1 DEF AtShard, Advances
  <2>7. AtShard(q, s)'
    BY <1>1, <2>1, <2>2, <2>4, <2>5, <2>6 DEF AtShard
  <2>8. QED
    BY <2>7 DEF s
<1>6. QED
  BY <1>1, <1>3, <1>4, <1>5 DEF PassInv, Advances

\* A pass that is over leaves nothing behind.
LEMMA ForgetPass ==
  ASSUME NEW p \in Processes, NEW l, Forget(p, l), PassTypes, EngineInv
  PROVE  /\ PassTypes'
         /\ knows' \in [Shards -> SUBSET Processes]
         /\ \A q \in Processes : q # p => Own(q)' = Own(q)
         /\ (l \in SetupPC \cup {"ok"} /\ (engine' = "fleet" => l \in SetupPC)) => PassInv(p)'
<1>1. /\ pc' = [pc EXCEPT ![p] = l] /\ listing' = [listing EXCEPT ![p] = <<>>]
      /\ done' = [done EXCEPT ![p] = {}] /\ k' = [k EXCEPT ![p] = 0]
      /\ pos' = [pos EXCEPT ![p] = 0] /\ ended' = [ended EXCEPT ![p] = FALSE]
      /\ knows' = [s \in Shards |-> knows[s] \ {p}]
  BY DEF Forget, Goto
<1>2. <<>> \in Listings
  <2>1. <<>> \in Seq(Shards) /\ InOrder(<<>>)
    BY DEF InOrder
  <2>2. QED
    BY <2>1, ListingIs
<1>3. LastSeq \in Nat
  BY LineageAssumption
<1>4. PassTypes'
  BY <1>1, <1>2, <1>3 DEF PassTypes
<1>5. knows' \in [Shards -> SUBSET Processes]
  BY <1>1 DEF EngineInv, RowTypes
<1>6. \A q \in Processes : q # p => Own(q)' = Own(q)
  BY <1>1 DEF EngineInv, PassTypes, Own
<1>7. /\ pc'[p] = l /\ listing'[p] = <<>> /\ done'[p] = {} /\ k'[p] = 0
  BY <1>1 DEF EngineInv, PassTypes
<1>8. ASSUME l \in SetupPC \cup {"ok"}, engine' = "fleet" => l \in SetupPC
      PROVE  PassInv(p)'
  <2>1. Len(<<>>) = 0 /\ 1..0 = {}
    OBVIOUS
  <2>2. NoneLeftOut(listing[p])'
    BY <1>7, <2>1 DEF NoneLeftOut
  <2>3. pc'[p] \notin {"snap"} \cup Work
    BY <1>7, <1>8 DEF SetupPC, Work
  <2>4. QED
    BY <1>7, <1>8, <2>1, <2>2, <2>3 DEF PassInv, Work
<1>9. QED
  BY <1>4, <1>5, <1>6, <1>8

\* What Min chooses.
LEMMA LeastOne ==
  ASSUME NEW T, T \subseteq Nat, T # {}
  PROVE  Min(T) \in T /\ \A y \in T : Min(T) <= y
<1>1. \E x \in T : \A y \in T : x <= y
  BY Least
<1>2. QED
  BY <1>1 DEF Min

\* The shards of the pass from index i on that are eligible.
Eligibles(list, completed, i) ==
  {j \in i..Len(DescribeShards[list]) :
     Eligible(DescribeShards[list][j], completed, Ids(DescribeShards[list]))}

\* ... that is, not complete, and the parent complete or not on the list.
LEMMA EligibleIs ==
  ASSUME NEW list \in Listings, NEW completed, NEW i \in Nat, i >= 1
  PROVE  Eligibles(list, completed, i) =
           {j \in i..Len(list) : /\ list[j] \notin completed
                                 /\ ParentOf[list[j]] \in ToSet(list) => ParentOf[list[j]] \in completed}
<1>1. /\ Len(DescribeShards[list]) = Len(list) /\ Len(list) \in Nat
      /\ Ids(DescribeShards[list]) = ToSet(list)
      /\ \A j \in 1..Len(list) :
           /\ DescribeShards[list][j].id = list[j]
           /\ DescribeShards[list][j].parents = {ParentOf[list[j]]} \cap ToSet(list)
  BY GraphIs, ListingFacts
<1>2. \A j \in i..Len(list) : j \in 1..Len(list)
  BY <1>1
<1>3. \A j \in i..Len(list) :
        Eligible(DescribeShards[list][j], completed, ToSet(list)) <=>
          /\ list[j] \notin completed
          /\ ParentOf[list[j]] \in ToSet(list) => ParentOf[list[j]] \in completed
  BY <1>1, <1>2 DEF Eligible
<1>4. QED
  BY <1>1, <1>3 DEF Eligibles

\* p goes on to the shard at index m.
Takes(p, list, completed, m) ==
  /\ Goto(p, IF engine = "worker" THEN "acquire" ELSE "read")
  /\ knows' = [s \in Shards |-> knows[s] \ {p}]
  /\ listing' = [listing EXCEPT ![p] = list]
  /\ done' = [done EXCEPT ![p] = IF engine = "worker" THEN completed ELSE {}]
  /\ k' = [k EXCEPT ![p] = m]
  /\ pos' = [pos EXCEPT ![p] = 0] /\ ended' = [ended EXCEPT ![p] = FALSE]

\* What Proceed does: the end of the pass, or the next eligible shard.
Proceeds(p, list, completed, i, l) ==
  \/ Eligibles(list, completed, i) = {} /\ Forget(p, l)
  \/ \E m \in Eligibles(list, completed, i) : Takes(p, list, completed, m)

LEMMA ProceedIs ==
  ASSUME NEW p \in Processes, NEW list \in Listings, NEW completed, NEW i \in Nat, i >= 1
  PROVE  /\ Proceed(p, list, completed, i, TRUE) => Proceeds(p, list, completed, i, "ready")
         /\ Proceed(p, list, completed, i, FALSE) => Proceeds(p, list, completed, i, "ok")
<1> DEFINE next == Eligibles(list, completed, i)
<1>1. next \subseteq Nat
  BY GraphIs, ListingFacts DEF Eligibles
<1>2. next # {} => Min(next) \in next
  <2> HIDE DEF next
  <2>1. QED
    BY <1>1, LeastOne
<1>3. CASE next = {}
  BY <1>3 DEF Proceed, Eligibles, Proceeds
<1>4. ASSUME next # {}, Proceed(p, list, completed, i, TRUE) \/ Proceed(p, list, completed, i, FALSE)
      PROVE  \A l : Proceeds(p, list, completed, i, l)
  <2>1. Takes(p, list, completed, Min(next))
    BY <1>4 DEF Proceed, Eligibles, Takes
  <2> HIDE DEF next
  <2>2. QED
    BY <1>2, <1>4, <2>1 DEF next, Proceeds
<1>5. QED
  BY <1>3, <1>4

\* On to a shard whose parent is out of the way, although the completion snapshot may
\* be old and the listing torn.
LEMMA ProceedPass ==
  ASSUME NEW p \in Processes, NEW list \in Listings, NEW completed \in SUBSET Shards,
         NEW i \in Nat, i >= 1, NEW l \in {"ready", "ok"},
         Proceeds(p, list, completed, i, l),
         EngineInv, Advances, UNCHANGED stream, engine # "fleet",
         NoneLeftOut(list), completed \subseteq FinishedShards'
  PROVE  /\ PassTypes'
         /\ knows' \in [Shards -> SUBSET Processes]
         /\ \A q \in Processes : q # p => Own(q)' = Own(q)
         /\ PassInv(p)'
<1>0. PassTypes /\ pc \in [Processes -> SetupPC \cup EnginePC] /\ engine' = engine
  BY DEF EngineInv, Advances
<1>1. CASE Forget(p, l)
  <2>1. l \in SetupPC \cup {"ok"} /\ (engine' = "fleet" => l \in SetupPC)
    BY <1>0 DEF SetupPC
  <2>2. QED
    BY <1>0, <1>1, <2>1, ForgetPass
<1>2. ASSUME NEW m \in Eligibles(list, completed, i), Takes(p, list, completed, m)
      PROVE  /\ PassTypes'
             /\ knows' \in [Shards -> SUBSET Processes]
             /\ \A q \in Processes : q # p => Own(q)' = Own(q)
             /\ PassInv(p)'
  <2> DEFINE s == list[m]
  <2>1. /\ m \in 1..Len(list) /\ m \in Nat /\ Len(list) \in Nat
        /\ ParentOf[s] \in ToSet(list) => ParentOf[s] \in completed
    BY EligibleIs, ListingFacts
  <2>2. s \in Shards /\ s \in Nat /\ \A x \in 1..Len(list) : list[x] \in Shards
    BY <2>1, ListingFacts
  <2>3. PassTypes'
    BY <1>0, <1>2, <2>1, LineageAssumption DEF PassTypes, Takes
  <2>4. knows' \in [Shards -> SUBSET Processes]
    BY <1>2 DEF EngineInv, RowTypes, Takes
  <2>5. \A q \in Processes : q # p => Own(q)' = Own(q)
    BY <1>0, <1>2 DEF PassTypes, Own, Goto, Takes
  <2>6. /\ pc'[p] = IF engine = "worker" THEN "acquire" ELSE "read"
        /\ listing'[p] = list /\ k'[p] = m /\ pos'[p] = 0 /\ ended'[p] = FALSE
        /\ done'[p] = IF engine = "worker" THEN completed ELSE {}
    BY <1>0, <1>2 DEF PassTypes, Goto, Takes
  <2>7. ParentGone(s)'
    <3>1. ParentOf[s] = NoShard \/ (ParentOf[s] \in Shards /\ ParentOf[s] < s)
      BY <2>2, LineageAssumption
    <3>2. CASE ParentOf[s] \in ToSet(list)
      BY <2>1, <3>2 DEF ParentGone, FinishedShards
    <3>3. CASE ParentOf[s] \notin ToSet(list) /\ ParentOf[s] # NoShard
      BY <2>1, <3>1, <3>3 DEF NoneLeftOut, ParentGone
    <3>4. QED
      BY <3>2, <3>3 DEF ParentGone
  <2>8. NoneLeftOut(listing[p])'
    BY <2>6 DEF NoneLeftOut
  <2>9. AtShard(p, listing[p][k[p]])'
    <3>1. listing'[p][k'[p]] = s
      BY <2>6
    <3> HIDE DEF s
    <3>2. AtShard(p, s)'
      BY <2>6, <2>7 DEF AtShard
    <3>3. QED
      BY <3>1, <3>2 DEF AtShard, ParentGone, Drained
  <2>10. PassInv(p)'
    BY <1>0, <2>1, <2>6, <2>8, <2>9 DEF PassInv, Work
  <2>11. QED
    BY <2>3, <2>4, <2>5, <2>10
<1>3. QED
  BY <1>1, <1>2 DEF Proceeds

\* One more process's step, put together.
LEMMA OneMoves ==
  ASSUME NEW p \in Processes, EngineInv, Advances,
         pc' \in [Processes -> SetupPC \cup EnginePC],
         RowTypes', PassTypes', ShardInv',
         \A q \in Processes : q # p => Own(q)' = Own(q),
         PassInv(p)'
  PROVE  EngineInv'
<1>1. \A q \in Processes : q # p => PassInv(q)'
  BY PassKept DEF EngineInv
<1>2. QED
  BY <1>1 DEF EngineInv

\* A step that leaves the shards, their rows' contents and the stream alone.
LEMMA StillAdvances ==
  ASSUME UNCHANGED <<engine, stream, written, durable, finished, handled>>, EngineInv
  PROVE  Advances /\ ShardInv'
<1>1. Advances
  BY DEF Advances, Drained
<1>2. ShardInv'
  BY DEF EngineInv, ShardInv, StreamInOrder, HandledPrefix, Drained, ParentFirst
<1>3. QED
  BY <1>1, <1>2

-----------------------------------------------------------------------------
(* Step by step *)

\* The stream: a shard never comes to be behind one that is listed.
LEMMA ServiceKeeps ==
  ASSUME EngineInv, pc' \in [Processes -> SetupPC \cup EnginePC],
         NEW s \in Shards, Write(s) \/ Reshard(s) \/ Trim(s)
  PROVE  EngineInv'
<1>0. /\ UNCHANGED <<pc, engine, rows, pass, handled, overlapped>>
      /\ UNCHANGED <<listing, done, k, pos, ended, row, knows, durable, finished>>
  BY DEF Write, Reshard, Trim, setupVars, rows, pass
<1>1. RowTypes /\ PassTypes /\ ShardInv /\ \A p \in Processes : PassInv(p)
  BY DEF EngineInv
<1>2. PassTypes' /\ \A q \in Processes : Own(q)' = Own(q)
  BY <1>0, <1>1 DEF PassTypes, Own
<1>3. /\ LastSeq \in Nat /\ Room \in [Shards -> 0..LastSeq]
      /\ \A q \in Shards : ParentOf[q] = NoShard \/ (ParentOf[q] \in Shards /\ ParentOf[q] # q)
  BY LineageAssumption
<1>4. CASE Write(s)
  <2>1. /\ stream' = stream /\ stream[s] = "open" /\ written[s] < Room[s]
        /\ written' = [written EXCEPT ![s] = @ + 1]
    BY <1>4 DEF Write
  <2>2. written' \in [Shards -> 0..LastSeq] /\ \A q \in Shards : written[q] <= written'[q]
    BY <1>1, <1>3, <2>1 DEF RowTypes
  <2>3. RowTypes'
    BY <1>0, <1>1, <2>1, <2>2 DEF RowTypes
  <2>4. \A q \in Shards : Drained(q) => Drained(q)'
    BY <1>0, <1>1, <2>1 DEF Drained, RowTypes
  <2>5. Advances
    BY <1>0, <2>1, <2>4 DEF Advances
  <2>6. HandledPrefix'
    <3>1. \A q \in Shards : 0..written[q] \subseteq 0..written'[q]
      BY <1>1, <2>2 DEF RowTypes
    <3>2. QED
      BY <1>0, <1>1, <3>1 DEF ShardInv, HandledPrefix
  <2>7. ShardInv'
    BY <1>0, <1>1, <2>1, <2>4, <2>6 DEF ShardInv, StreamInOrder, ParentFirst
  <2>8. QED
    BY <1>1, <1>2, <2>3, <2>5, <2>7, PassKept DEF EngineInv
<1>5. ASSUME /\ written' = written
             /\ stream' \in [Shards -> {"future", "open", "closed", "trimmed"}]
             /\ StreamInOrder'
             /\ \A q \in Shards : stream[q] = "trimmed" => stream'[q] = "trimmed"
             /\ \A q \in Shards : stream[q] # "future" => stream'[q] # "future"
             /\ \A q \in Shards : stream[q] \in {"closed", "trimmed"} => stream'[q] \in {"closed", "trimmed"}
      PROVE  EngineInv'
  <2>1. RowTypes'
    BY <1>0, <1>1, <1>5 DEF RowTypes
  <2>2. \A q \in Shards : Drained(q) => Drained(q)'
    BY <1>0, <1>5 DEF Drained
  <2>3. Advances
    BY <1>0, <1>5, <2>2 DEF Advances
  <2>4. ParentFirst'
    BY <1>0, <1>1, <1>3, <1>5 DEF ShardInv, ParentFirst
  <2>5. HandledPrefix'
    BY <1>0, <1>1, <1>5 DEF ShardInv, HandledPrefix
  <2>6. ShardInv'
    BY <1>0, <1>1, <1>5, <2>2, <2>4, <2>5 DEF ShardInv
  <2>7. QED
    BY <1>1, <1>2, <2>1, <2>3, <2>6, PassKept DEF EngineInv
<1>6. CASE Reshard(s)
  <2>1. /\ written' = written /\ stream[s] = "open"
        /\ stream' = [q \in Shards |-> IF q = s THEN "closed"
                                       ELSE IF ParentOf[q] = s THEN "open" ELSE stream[q]]
        /\ \A q, r \in Shards : ParentOf[q] = s /\ r < q => stream[r] # "future" \/ ParentOf[r] = s
    BY <1>6 DEF Reshard
  <2>2. \A q \in Shards : ParentOf[q] = s => stream[q] = "future"
    BY <1>1, <1>3, <2>1, LineageAssumption DEF ShardInv, StreamInOrder
  <2>3. stream' \in [Shards -> {"future", "open", "closed", "trimmed"}]
    BY <1>1, <2>1 DEF RowTypes
  <2>4. /\ \A q \in Shards : stream[q] = "trimmed" => stream'[q] = "trimmed"
        /\ \A q \in Shards : stream[q] # "future" => stream'[q] # "future"
        /\ \A q \in Shards : stream[q] \in {"closed", "trimmed"} => stream'[q] \in {"closed", "trimmed"}
    BY <2>1, <2>2
  <2>5. StreamInOrder'
    <3>1. ASSUME NEW q \in Shards, NEW r \in Shards, r < q, stream'[q] # "future"
          PROVE  stream'[r] # "future"
      <4>1. CASE stream[q] # "future"
        BY <1>1, <2>4, <3>1, <4>1 DEF ShardInv, StreamInOrder
      <4>2. CASE stream[q] = "future"
        BY <2>1, <2>4, <3>1, <4>2
      <4>3. QED
        BY <4>1, <4>2
    <3>2. ASSUME NEW q \in Shards, ParentOf[q] # NoShard, stream'[q] # "future"
          PROVE  stream'[ParentOf[q]] \in {"closed", "trimmed"}
      <4>1. CASE stream[q] # "future"
        BY <1>1, <1>3, <2>4, <3>2, <4>1 DEF ShardInv, StreamInOrder
      <4>2. CASE stream[q] = "future"
        BY <2>1, <3>2, <4>2
      <4>3. QED
        BY <4>1, <4>2
    <3>3. QED
      BY <3>1, <3>2 DEF StreamInOrder
  <2>6. QED
    BY <1>5, <2>1, <2>3, <2>4, <2>5
<1>7. CASE Trim(s)
  <2>1. /\ written' = written /\ stream[s] = "closed" /\ stream' = [stream EXCEPT ![s] = "trimmed"]
    BY <1>7 DEF Trim
  <2>2. /\ stream' \in [Shards -> {"future", "open", "closed", "trimmed"}]
        /\ \A q \in Shards : stream[q] = "trimmed" => stream'[q] = "trimmed"
        /\ \A q \in Shards : stream[q] # "future" <=> stream'[q] # "future"
        /\ \A q \in Shards : stream[q] \in {"closed", "trimmed"} => stream'[q] \in {"closed", "trimmed"}
    BY <1>1, <2>1 DEF RowTypes
  <2>3. StreamInOrder'
    BY <1>1, <1>3, <2>2 DEF ShardInv, StreamInOrder
  <2>4. QED
    BY <1>5, <2>1, <2>2, <2>3
<1>8. QED
  BY <1>4, <1>6, <1>7

\* The start-up: a process comes and goes without a pass.
LEMMA SetupKeeps ==
  ASSUME EngineInv, pc' \in [Processes -> SetupPC \cup EnginePC],
         NEW p \in Processes, UNCHANGED <<engine, service, rows, pass, handled>>, overlapped' \in BOOLEAN,
         \A q \in Processes : q # p => pc'[q] = pc[q],
         pc'[p] = pc[p] \/ pc'[p] \in SetupPC
  PROVE  EngineInv'
<1>1. UNCHANGED <<listing, done, k, pos, ended, row, knows, durable, finished, stream, written>>
  BY DEF service, rows, pass
<1>2. Advances /\ ShardInv'
  BY <1>1, StillAdvances
<1>3. RowTypes' /\ PassTypes'
  BY <1>1 DEF EngineInv, RowTypes, PassTypes
<1>4. \A q \in Processes : q # p => Own(q)' = Own(q)
  BY <1>1 DEF Own
<1>5. PassInv(p)'
  <2>1. CASE pc'[p] = pc[p]
    BY <1>1, <1>2, <2>1, PassKept DEF EngineInv, Own
  <2>2. CASE pc'[p] \in SetupPC
    <3>1. pc'[p] \notin {"snap"} \cup Work
      BY <2>2 DEF SetupPC, Work
    <3>2. PassInv(p) /\ NoneLeftOut(listing[p])' /\ done'[p] \subseteq FinishedShards'
      BY <1>1 DEF EngineInv, PassInv, NoneLeftOut, FinishedShards
    <3>3. QED
      BY <1>1, <2>2, <3>1, <3>2 DEF PassInv, Work
  <2>3. QED
    BY <2>1, <2>2
<1>6. QED
  BY <1>2, <1>3, <1>4, <1>5, OneMoves

\* A process that ends, or a pass that does, with the shards as they were.
LEMMA ForgetKeeps ==
  ASSUME EngineInv, pc' \in [Processes -> SetupPC \cup EnginePC],
         NEW p \in Processes, NEW l \in {"failed", "ready", "ok"}, Forget(p, l), engine # "fleet",
         UNCHANGED <<engine, stream, written, overlapped, row, durable, finished, handled>>
  PROVE  EngineInv'
<1>1. Advances /\ ShardInv'
  BY StillAdvances
<1>2. PassTypes /\ l \in SetupPC \cup {"ok"}
  BY DEF EngineInv, SetupPC
<1>3. /\ PassTypes' /\ knows' \in [Shards -> SUBSET Processes]
      /\ \A q \in Processes : q # p => Own(q)' = Own(q)
      /\ PassInv(p)'
  BY <1>2, ForgetPass
<1>4. RowTypes'
  BY <1>3 DEF EngineInv, RowTypes
<1>5. QED
  BY <1>1, <1>3, <1>4, OneMoves

\* On to the next shard, with the shards as they were.
LEMMA ProceedKeeps ==
  ASSUME EngineInv, pc' \in [Processes -> SetupPC \cup EnginePC],
         NEW p \in Processes, NEW list \in Listings, NEW completed \in SUBSET Shards,
         NEW i \in Nat, i >= 1, NEW l \in {"ready", "ok"},
         Proceeds(p, list, completed, i, l), engine # "fleet",
         NoneLeftOut(list), completed \subseteq FinishedShards,
         UNCHANGED <<engine, stream, written, overlapped, row, durable, finished, handled>>
  PROVE  EngineInv'
<1>1. Advances /\ ShardInv'
  BY StillAdvances
<1>2. completed \subseteq FinishedShards'
  BY DEF FinishedShards
<1>3. /\ PassTypes' /\ knows' \in [Shards -> SUBSET Processes]
      /\ \A q \in Processes : q # p => Own(q)' = Own(q)
      /\ PassInv(p)'
  BY <1>1, <1>2, ProceedPass
<1>4. RowTypes'
  BY <1>3 DEF EngineInv, RowTypes
<1>5. QED
  BY <1>1, <1>3, <1>4, OneMoves

\* One more page.
LEMMA NextPage ==
  ASSUME RowTypes, StreamInOrder, NEW list \in Listings, NoneLeftOut(list), Following(list) # {}
  PROVE  /\ Append(list, Min(Following(list))) \in Listings
         /\ NoneLeftOut(Append(list, Min(Following(list))))
<1> DEFINE f == Min(Following(list))
           more == Append(list, f)
<1>1. /\ list \in Seq(Shards) /\ Len(list) \in Nat /\ DOMAIN list = 1..Len(list)
      /\ \A i \in 1..Len(list) : list[i] \in Shards /\ list[i] \in Nat
      /\ \A i, j \in 1..Len(list) : i < j => list[i] < list[j]
      /\ ToSet(list) = {list[i] : i \in 1..Len(list)}
  BY ListingFacts
<1>2. Shards \subseteq Nat /\ Following(list) \subseteq Nat
  BY LineageAssumption DEF Following, Listed
<1>3. f \in Following(list) /\ \A y \in Following(list) : f <= y
  BY <1>2, LeastOne
<1> HIDE DEF f
<1>4. f \in Shards /\ stream[f] \in {"open", "closed"} /\ \A i \in 1..Len(list) : f > list[i]
  BY <1>1, <1>3 DEF Following, Listed
<1>5. /\ more \in Seq(Shards) /\ Len(more) = Len(list) + 1 /\ more[Len(list) + 1] = f
      /\ \A i \in 1..Len(list) : more[i] = list[i]
      /\ DOMAIN more = 1..(Len(list) + 1)
  BY <1>1, <1>4
<1> HIDE DEF more
<1>6. \A i \in 1..(Len(list) + 1) : i \in 1..Len(list) \/ i = Len(list) + 1
  BY <1>1
<1>7. InOrder(more)
  <2>1. ASSUME NEW i \in 1..(Len(list) + 1), NEW j \in 1..(Len(list) + 1), i < j
        PROVE  more[i] < more[j]
    <3>1. i \in 1..Len(list)
      BY <1>1, <2>1
    <3>2. QED
      BY <1>1, <1>2, <1>4, <1>5, <1>6, <2>1, <3>1
  <2>2. QED
    BY <1>5, <2>1 DEF InOrder
<1>8. more \in Listings
  BY <1>5, <1>7, ListingIs
<1>9. ToSet(more) = ToSet(list) \cup {f}
  BY <1>1, <1>5, <1>6 DEF ToSet
<1>10. ASSUME NEW r \in Shards, r < f
       PROVE  r \in ToSet(list) \/ stream[r] = "trimmed"
  <2>1. stream[r] # "future"
    BY <1>4, <1>10 DEF StreamInOrder
  <2>2. CASE stream[r] # "trimmed"
    <3>1. r \in Listed
      BY <2>1, <2>2 DEF RowTypes, Listed
    <3>2. r \notin Following(list)
      BY <1>2, <1>3, <1>4, <1>10
    <3>3. PICK i \in 1..Len(list) : ~(r > list[i])
      BY <1>1, <3>1, <3>2 DEF Following
    <3>4. r = list[i] \/ r < list[i]
      BY <1>1, <1>2, <3>3
    <3>5. QED
      BY <1>1, <3>4 DEF NoneLeftOut
  <2>3. QED
    BY <2>2
<1>11. NoneLeftOut(more)
  <2>1. ASSUME NEW i \in 1..Len(list)
        PROVE  /\ stream[more[i]] # "future"
               /\ \A r \in Shards : r < more[i] => r \in ToSet(more) \/ stream[r] = "trimmed"
    BY <1>5, <1>9 DEF NoneLeftOut
  <2>2. /\ stream[f] # "future"
        /\ \A r \in Shards : r < f => r \in ToSet(more) \/ stream[r] = "trimmed"
    BY <1>4, <1>9, <1>10
  <2>3. QED
    BY <1>5, <1>6, <2>1, <2>2 DEF NoneLeftOut
<1>12. QED
  BY <1>8, <1>11 DEF more, f

\* What the steps of a running engine leave alone.
LEMMA AroundKept ==
  ASSUME UNCHANGED around
  PROVE  UNCHANGED <<engine, stream, written, overlapped>>
BY DEF around, service

\* p goes on describing, or to its snapshot, with what is listed so far.
Pages(p, list, l, n) ==
  /\ listing' = [listing EXCEPT ![p] = list] /\ pc' = [pc EXCEPT ![p] = l] /\ k' = [k EXCEPT ![p] = n]
  /\ UNCHANGED <<knows, done, pos, ended>>

\* Describe and snapshot.
LEMMA DescribeKeeps ==
  ASSUME EngineInv, pc' \in [Processes -> SetupPC \cup EnginePC],
         NEW p \in Processes, DescribePage(p)
  PROVE  EngineInv'
<1>0. /\ UNCHANGED <<engine, stream, written, overlapped, row, durable, finished, handled>>
      /\ engine = "worker" /\ pc[p] = "ready"
  BY AroundKept DEF DescribePage, At
<1>1. /\ RowTypes /\ PassTypes /\ StreamInOrder /\ PassInv(p) /\ listing[p] \in Listings
      /\ NoneLeftOut(listing[p]) /\ done[p] \subseteq FinishedShards
  BY DEF EngineInv, ShardInv, PassTypes, PassInv
<1>2. Advances /\ ShardInv'
  BY <1>0, StillAdvances
<1>3. ASSUME NEW list \in Listings, NoneLeftOut(list), NEW l \in {"ready", "snap"}, NEW n \in Nat,
             Pages(p, list, l, n), n <= Len(list), l = "snap" => n >= 1
      PROVE  EngineInv'
  <2>1. RowTypes' /\ PassTypes'
    BY <1>0, <1>1, <1>3 DEF RowTypes, PassTypes, Pages
  <2>2. \A q \in Processes : q # p => Own(q)' = Own(q)
    BY <1>1, <1>3 DEF EngineInv, PassTypes, Pages, Own
  <2>3. pc'[p] = l /\ listing'[p] = list /\ k'[p] = n /\ done'[p] = done[p]
    BY <1>1, <1>3 DEF EngineInv, PassTypes, Pages
  <2>4. NoneLeftOut(listing[p])' /\ done'[p] \subseteq FinishedShards'
    BY <1>0, <1>1, <1>3, <2>3 DEF NoneLeftOut, FinishedShards
  <2>5. PassInv(p)'
    BY <1>0, <1>3, <2>3, <2>4 DEF PassInv, Work
  <2>6. QED
    BY <1>2, <2>1, <2>2, <2>5, OneMoves
<1>4. ASSUME NEW list \in Listings, NoneLeftOut(list), DescribeEnds(p, list)
      PROVE  EngineInv'
  <2>1. CASE list = <<>>
    <3>1. Forget(p, "ok")
      BY <1>4, <2>1 DEF DescribeEnds
    <3>2. QED
      BY <1>0, <3>1, ForgetKeeps
  <2>2. CASE list # <<>>
    <3>1. Pages(p, list, "snap", 1)
      BY <1>4, <2>2 DEF DescribeEnds, Goto, Pages
    <3>2. list \in Seq(Shards) /\ 1 <= Len(list)
      <4>1. list \in Seq(Shards)
        BY ListingFacts
      <4>2. QED
        BY <2>2, <4>1
    <3>3. QED
      BY <1>3, <1>4, <3>1, <3>2
  <2>3. QED
    BY <2>1, <2>2
<1>5. CASE Following(listing[p]) = {}
  BY <1>1, <1>4, <1>5 DEF DescribePage
<1>6. CASE Following(listing[p]) # {}
  <2> DEFINE list == Append(listing[p], Min(Following(listing[p])))
  <2>1. list \in Listings /\ NoneLeftOut(list)
    BY <1>1, <1>6, NextPage
  <2>2. \/ DescribeEnds(p, list)
        \/ listing' = [listing EXCEPT ![p] = list] /\ UNCHANGED <<pc, knows, done, k, pos, ended>>
    BY <1>6 DEF DescribePage
  <2>3. Len(listing[p]) <= Len(list) /\ Len(list) \in Nat /\ Len(listing[p]) \in Nat
    <3>1. list \in Seq(Shards) /\ listing[p] \in Seq(Shards)
      BY <1>1, <2>1, ListingFacts
    <3>2. Len(list) = Len(listing[p]) + 1
      BY <3>1
    <3> HIDE DEF list
    <3>3. QED
      BY <3>1, <3>2
  <2> HIDE DEF list
  <2>4. CASE DescribeEnds(p, list)
    BY <1>4, <2>1, <2>4
  <2>5. CASE listing' = [listing EXCEPT ![p] = list] /\ UNCHANGED <<pc, knows, done, k, pos, ended>>
    <3>1. pc' = [pc EXCEPT ![p] = "ready"] /\ k' = [k EXCEPT ![p] = k[p]] /\ k[p] \in Nat
      BY <1>0, <1>1, <2>5 DEF EngineInv, PassTypes
    <3>2. k[p] <= Len(list)
      BY <1>1, <2>3, <3>1 DEF PassInv
    <3>3. Pages(p, list, "ready", k[p])
      BY <2>5, <3>1 DEF Pages
    <3>4. QED
      BY <1>3, <2>1, <3>1, <3>2, <3>3
  <2>6. QED
    BY <2>2, <2>4, <2>5
<1>7. QED
  BY <1>5, <1>6

\* Where a process is on its listing.
LEMMA CurIs ==
  ASSUME EngineInv, NEW p \in Processes, pc[p] \in {"snap"} \cup Work
  PROVE  /\ Cur(p) = listing[p][k[p]] /\ Cur(p) \in Shards /\ listing[p] \in Listings
         /\ k[p] \in 1..Len(listing[p]) /\ k[p] \in Nat /\ Len(Graph(p)) = Len(listing[p])
         /\ Len(listing[p]) \in Nat /\ Ids(Graph(p)) = ToSet(listing[p])
         /\ engine # "fleet" /\ PassInv(p)
<1>1. PassTypes /\ PassInv(p) /\ listing[p] \in Listings /\ k[p] \in Nat
  BY DEF EngineInv, PassTypes
<1>2. Len(listing[p]) \in Nat /\ k[p] \in 1..Len(listing[p])
  BY <1>1, ListingFacts DEF PassInv
<1>3. listing[p][k[p]] \in Shards
  BY <1>1, <1>2, ListingFacts
<1>4. engine # "fleet"
  BY <1>1 DEF PassInv, SetupPC, Work
<1>5. QED
  BY <1>1, <1>2, <1>3, <1>4, GraphIs DEF Cur, Graph

\* One get of the completion snapshot, or the pass that follows the last.
LEMMA SnapshotKeeps ==
  ASSUME EngineInv, pc' \in [Processes -> SetupPC \cup EnginePC],
         NEW p \in Processes, Snapshot(p)
  PROVE  EngineInv'
<1> DEFINE completed == done[p] \cup ({Cur(p)} \cap FinishedShards)
<1>0. /\ UNCHANGED <<engine, stream, written, overlapped, row, durable, finished, handled>>
      /\ pc[p] = "snap"
  BY AroundKept DEF Snapshot, At
<1>1. /\ Cur(p) \in Shards /\ listing[p] \in Listings
      /\ k[p] \in 1..Len(listing[p]) /\ k[p] \in Nat /\ Len(Graph(p)) = Len(listing[p])
      /\ Len(listing[p]) \in Nat /\ engine # "fleet" /\ PassInv(p)
  BY <1>0, CurIs
<1>2. Advances /\ ShardInv'
  BY <1>0, StillAdvances
<1>3. completed \in SUBSET Shards /\ completed \subseteq FinishedShards /\ NoneLeftOut(listing[p])
  BY <1>1 DEF PassInv, FinishedShards
<1>4. \/ /\ k[p] < Len(Graph(p)) /\ done' = [done EXCEPT ![p] = completed]
         /\ k' = [k EXCEPT ![p] = @ + 1] /\ UNCHANGED <<pc, knows, listing, pos, ended>>
      \/ Forget(p, "ok")
      \/ Proceed(p, listing[p], completed, 1, FALSE)
  BY DEF Snapshot
<1> HIDE DEF completed
<1>5. CASE /\ k[p] < Len(Graph(p)) /\ done' = [done EXCEPT ![p] = completed]
           /\ k' = [k EXCEPT ![p] = @ + 1] /\ UNCHANGED <<pc, knows, listing, pos, ended>>
  <2>1. RowTypes' /\ PassTypes'
    BY <1>0, <1>3, <1>5 DEF EngineInv, RowTypes, PassTypes
  <2>2. \A q \in Processes : q # p => Own(q)' = Own(q)
    BY <1>5 DEF EngineInv, PassTypes, Own
  <2>3. /\ pc'[p] = "snap" /\ listing'[p] = listing[p] /\ k'[p] = k[p] + 1 /\ done'[p] = completed
    BY <1>0, <1>5 DEF EngineInv, PassTypes
  <2>4. NoneLeftOut(listing[p])' /\ done'[p] \subseteq FinishedShards'
    BY <1>0, <1>3, <2>3 DEF NoneLeftOut, FinishedShards
  <2>5. k'[p] <= Len(listing'[p]) /\ k'[p] >= 1
    BY <1>1, <1>5, <2>3
  <2>6. PassInv(p)'
    BY <1>0, <1>1, <2>3, <2>4, <2>5 DEF PassInv, Work
  <2>7. QED
    BY <1>2, <2>1, <2>2, <2>6, OneMoves
<1>6. CASE Forget(p, "ok")
  BY <1>0, <1>1, <1>6, ForgetKeeps
<1>7. CASE Proceed(p, listing[p], completed, 1, FALSE)
  <2>1. Proceeds(p, listing[p], completed, 1, "ok")
    <3>1. 1 \in Nat /\ 1 >= 1
      OBVIOUS
    <3>2. Proceed(p, listing[p], completed, 1, FALSE) => Proceeds(p, listing[p], completed, 1, "ok")
      BY <1>1, <3>1, ProceedIs, Zenon
    <3>3. QED
      BY <1>7, <3>2
  <2>2. QED
    BY <1>0, <1>1, <1>3, <2>1, ProceedKeeps
<1>8. QED
  BY <1>4, <1>5, <1>6, <1>7

\* The in-process source lists what there is.
LEMMA SchedulerDescribeKeeps ==
  ASSUME EngineInv, pc' \in [Processes -> SetupPC \cup EnginePC],
         NEW p \in Processes, SchedulerDescribe(p)
  PROVE  EngineInv'
<1>0. /\ UNCHANGED <<engine, stream, written, overlapped, row, durable, finished, handled>>
      /\ engine # "fleet"
  BY AroundKept DEF SchedulerDescribe
<1>1. CASE Forget(p, "ok")
  BY <1>0, <1>1, ForgetKeeps
<1>2. ASSUME NEW list \in Listings, ToSet(list) = Listed, Proceed(p, list, FinishedShards, 1, FALSE)
      PROVE  EngineInv'
  <2>1. \A i \in 1..Len(list) : list[i] \in Listed
    BY <1>2, ListingFacts
  <2>2. NoneLeftOut(list)
    <3>1. ASSUME NEW i \in 1..Len(list), NEW r \in Shards, r < list[i]
          PROVE  r \in Listed \/ stream[r] = "trimmed"
      BY <2>1, <3>1 DEF Listed, EngineInv, ShardInv, StreamInOrder, RowTypes
    <3>2. QED
      BY <1>2, <2>1, <3>1 DEF NoneLeftOut, Listed
  <2>3. FinishedShards \in SUBSET Shards
    BY DEF FinishedShards
  <2>4. Proceeds(p, list, FinishedShards, 1, "ok")
    <3>1. 1 \in Nat /\ 1 >= 1
      OBVIOUS
    <3>2. Proceed(p, list, FinishedShards, 1, FALSE) => Proceeds(p, list, FinishedShards, 1, "ok")
      BY <3>1, ProceedIs, Zenon
    <3>3. QED
      BY <1>2, <3>2
  <2>5. QED
    BY <1>0, <2>2, <2>3, <2>4, ProceedKeeps
<1>3. QED
  BY <1>1, <1>2 DEF SchedulerDescribe

-----------------------------------------------------------------------------
\* acquire and claim: the row changes hands, the shard stays as it is.
LEMMA AcquireKeeps ==
  ASSUME EngineInv, pc' \in [Processes -> SetupPC \cup EnginePC],
         NEW p \in Processes, Acquire(p) \/ Claim(p)
  PROVE  EngineInv'
<1>0. /\ UNCHANGED <<engine, stream, written, overlapped, durable, finished, handled>>
      /\ pc[p] \in {"acquire", "claim"}
  BY AroundKept DEF Acquire, Claim, At
<1>1. Cur(p) = listing[p][k[p]] /\ Cur(p) \in Shards /\ engine = "worker" /\ PassInv(p)
  BY <1>0, CurIs DEF Work, PassInv
<1>2. Advances /\ ShardInv'
  BY <1>0, StillAdvances
<1>3. CASE /\ UNCHANGED pass /\ row' \in [Shards -> BOOLEAN] /\ knows' \in [Shards -> SUBSET Processes]
           /\ \E l \in {"read", "claim"} : pc' = [pc EXCEPT ![p] = l]
  <2>1. UNCHANGED <<listing, done, k, pos, ended>>
    BY <1>3 DEF pass
  <2>2. RowTypes' /\ PassTypes'
    BY <1>0, <1>3, <2>1 DEF EngineInv, RowTypes, PassTypes
  <2>3. \A q \in Processes : q # p => Own(q)' = Own(q)
    BY <1>3, <2>1 DEF EngineInv, Own
  <2>4. pc'[p] \in {"read", "claim"}
    BY <1>3 DEF EngineInv
  <2>5. NoneLeftOut(listing[p])' /\ done'[p] \subseteq FinishedShards'
    BY <1>0, <1>1, <2>1 DEF PassInv, NoneLeftOut, FinishedShards
  <2>6. AtShard(p, listing[p][k[p]])'
    BY <1>0, <1>1, <2>1, <2>4 DEF PassInv, AtShard, ParentGone, Work
  <2>7. PassInv(p)'
    BY <1>0, <1>1, <2>1, <2>4, <2>5, <2>6 DEF PassInv, Work
  <2>8. QED
    BY <1>2, <2>2, <2>3, <2>7, OneMoves
<1>4. CASE Acquire(p)
  <2>1. UNCHANGED pass /\ \E l \in {"read", "claim"} : pc' = [pc EXCEPT ![p] = l]
    BY <1>4 DEF Acquire, Goto
  <2>2. row' \in [Shards -> BOOLEAN] /\ knows' \in [Shards -> SUBSET Processes]
    <3>1. row \in [Shards -> BOOLEAN] /\ knows \in [Shards -> SUBSET Processes]
      BY DEF EngineInv, RowTypes
    <3>2. row' = row \/ row' = [row EXCEPT ![Cur(p)] = TRUE]
      BY <1>4 DEF Acquire
    <3>3. \/ knows' = [knows EXCEPT ![Cur(p)] = {p}]
          \/ knows' = [knows EXCEPT ![Cur(p)] = @ \cup {p}]
      BY <1>4 DEF Acquire
    <3>4. row' \in [Shards -> BOOLEAN]
      BY <3>1, <3>2
    <3>5. knows' \in [Shards -> SUBSET Processes]
      BY <1>1, <3>1, <3>3
    <3>6. QED
      BY <3>4, <3>5
  <2>3. QED
    BY <1>3, <2>1, <2>2
<1>5. CASE Claim(p)
  <2>1. row' = row
    BY <1>5 DEF Claim
  <2>2. CASE p \in knows[Cur(p)]
    <3>1. UNCHANGED pass /\ pc' = [pc EXCEPT ![p] = "read"] /\ knows' \in [Shards -> SUBSET Processes]
      BY <1>1, <1>5, <2>2 DEF Claim, Goto, EngineInv, RowTypes
    <3>2. row' \in [Shards -> BOOLEAN]
      BY <2>1 DEF EngineInv, RowTypes
    <3>3. QED
      BY <1>3, <3>1, <3>2
  <2>3. CASE p \notin knows[Cur(p)]
    <3>1. Forget(p, "failed")
      BY <1>5, <2>3 DEF Claim
    <3>2. QED
      BY <1>0, <1>1, <2>1, <3>1, ForgetKeeps
  <2>4. QED
    BY <2>2, <2>3
<1>6. QED
  BY <1>4, <1>5

-----------------------------------------------------------------------------
(* One shard *)

\* Where p reads on is within what was handled: no gap.
LEMMA AfterIs ==
  ASSUME EngineInv, NEW p \in Processes, pc[p] \in Work
  PROVE  \E h \in 0..written[Cur(p)] :
           handled[Cur(p)] = 1..h /\ After(p) \in 0..h /\ h \in Nat /\ written[Cur(p)] \in 0..LastSeq
<1>1. Cur(p) \in Shards /\ Cur(p) = listing[p][k[p]] /\ PassInv(p)
  BY CurIs
<1> DEFINE s == Cur(p)
<1>2. AtShard(p, s)
  BY <1>1 DEF PassInv
<1> HIDE DEF s
<1>3. s \in Shards /\ written[s] \in 0..LastSeq /\ LastSeq \in Nat
  BY <1>1, LineageAssumption DEF EngineInv, RowTypes, s
<1>4. PICK h \in 0..written[s] : handled[s] = 1..h
  BY <1>3 DEF EngineInv, ShardInv, HandledPrefix
<1>5. pos[p] \in handled[s] \cup {0} /\ durable[s] \in handled[s] \cup {0}
  BY <1>2, <1>3 DEF EngineInv, ShardInv, HandledPrefix, AtShard
<1>6. After(p) \in handled[s] \cup {0}
  BY <1>5 DEF After, s
<1>7. h \in Nat /\ After(p) \in 0..h
  BY <1>3, <1>4, <1>6
<1>8. QED
  BY <1>3, <1>4, <1>7 DEF s

\* A batch n makes what was handled a longer prefix, or the same one.
LEMMA BatchKeeps ==
  ASSUME EngineInv, pc' \in [Processes -> SetupPC \cup EnginePC],
         NEW p \in Processes, pc[p] = "read",
         NEW n \in After(p)..written[Cur(p)], NEW end \in BOOLEAN, Batch(p, n, end),
         n = After(p) => end,
         end => stream[Cur(p)] = "closed" /\ n = written[Cur(p)]
  PROVE  EngineInv'
<1>. PICK s \in Shards : s = Cur(p)
  BY CurIs DEF Work
<1>0. /\ UNCHANGED <<engine, stream, written, overlapped, row, knows, durable, finished, listing, done, k>>
      /\ handled' = [handled EXCEPT ![s] = @ \cup After(p) + 1..n]
      /\ pos' = [pos EXCEPT ![p] = n] /\ ended' = [ended EXCEPT ![p] = end]
      /\ pc' = [pc EXCEPT ![p] = IF n > After(p) THEN "ckpt" ELSE "finish"]
  BY AroundKept DEF Batch, rows, Goto
<1>1. s \in Shards /\ s = listing[p][k[p]] /\ PassInv(p) /\ AtShard(p, s)
  BY CurIs DEF PassInv, Work
<1>2. PICK h \in 0..written[s] :
         handled[s] = 1..h /\ After(p) \in 0..h /\ h \in Nat /\ written[s] \in 0..LastSeq
  BY AfterIs DEF Work
<1>3. n \in After(p)..written[s] /\ (end => stream[s] = "closed" /\ n = written[s])
  OBVIOUS
<1> DEFINE m == IF n > h THEN n ELSE h
<1>4. m \in 0..written[s] /\ n \in 0..m /\ n \in 0..LastSeq /\ written[s] \in Nat /\ LastSeq \in Nat
      /\ m >= h
  BY <1>2, <1>3, LineageAssumption
<1>5. RowTypes /\ PassTypes /\ ShardInv
  BY DEF EngineInv
<1>6. handled'[s] = 1..m /\ \A q \in Shards : q # s => handled'[q] = handled[q]
  <2>1. handled'[s] = 1..h \cup After(p) + 1..n
    BY <1>0, <1>1, <1>2, <1>5 DEF RowTypes
  <2>2. (1..h \cup After(p) + 1..n) = 1..m
    BY <1>2, <1>3
  <2>3. QED
    BY <1>0, <1>5, <2>1, <2>2 DEF RowTypes
<1> HIDE DEF m
<1>7. \A q \in Shards : handled[q] \subseteq handled'[q]
  <2>1. 1..h \subseteq 1..m
    BY <1>2, <1>4
  <2>2. QED
    BY <1>2, <1>6, <2>1
<1>8. \A q \in Shards : Drained(q) => Drained(q)'
  <2>1. handled[s] = 1..written[s] => handled'[s] = 1..written[s]
    <3>1. 1..m \subseteq 1..written[s]
      BY <1>4
    <3>2. QED
      BY <1>1, <1>6, <1>7, <3>1
  <2>2. QED
    BY <1>0, <1>6, <2>1 DEF Drained
<1>9. Advances
  BY <1>0, <1>7, <1>8 DEF Advances
<1>10. HandledPrefix'
  <2>1. \A q \in Shards : durable'[q] \in handled'[q] \cup {0}
    BY <1>0, <1>5, <1>7 DEF ShardInv, HandledPrefix
  <2>2. \A q \in Shards : \E x \in 0..written'[q] : handled'[q] = 1..x
    BY <1>0, <1>4, <1>5, <1>6 DEF ShardInv, HandledPrefix
  <2>3. QED
    BY <2>1, <2>2 DEF HandledPrefix
<1>11. ParentFirst'
  BY <1>0, <1>1, <1>5, <1>6 DEF ShardInv, ParentFirst, AtShard, ParentGone
<1>12. ShardInv'
  BY <1>0, <1>5, <1>8, <1>10, <1>11 DEF ShardInv, StreamInOrder
<1>13. RowTypes'
  <2>1. 1..m \subseteq 1..LastSeq
    BY <1>2, <1>4
  <2>2. handled' \in [Shards -> SUBSET (1..LastSeq)]
    <3>1. handled' = [q \in Shards |-> handled'[q]]
      BY <1>0, <1>5 DEF RowTypes
    <3>2. \A q \in Shards : handled'[q] \in SUBSET (1..LastSeq)
      BY <1>5, <1>6, <2>1 DEF RowTypes
    <3>3. QED
      BY <3>1, <3>2
  <2>3. QED
    BY <1>0, <1>5, <2>2 DEF RowTypes
<1>14. PassTypes'
  BY <1>0, <1>4, <1>5 DEF PassTypes
<1>15. \A q \in Processes : q # p => Own(q)' = Own(q)
  BY <1>0, <1>5 DEF EngineInv, PassTypes, Own
<1>16. /\ pos'[p] = n /\ ended'[p] = end /\ listing'[p] = listing[p] /\ k'[p] = k[p]
       /\ pc'[p] = IF n > After(p) THEN "ckpt" ELSE "finish"
  BY <1>0, <1>5 DEF EngineInv, PassTypes
<1>17. AtShard(p, s)'
  <2>1. ParentGone(s)'
    BY <1>0, <1>1 DEF AtShard, ParentGone
  <2>2. pos'[p] \in handled'[s] \cup {0}
    BY <1>4, <1>6, <1>16
  <2>3. pc'[p] = "ckpt" => pos'[p] # 0
    BY <1>2, <1>3, <1>16
  <2>4. pc'[p] = "finish" \/ (pc'[p] = "ckpt" /\ ended'[p]) => end
    <3>1. ~(n > After(p)) => n = After(p)
      BY <1>2, <1>3
    <3>2. QED
      BY <1>16, <3>1
  <2>5. end => Drained(s)'
    <3>1. n = written[s] => m = written[s]
      BY <1>4
    <3>2. QED
      BY <1>0, <1>3, <1>6, <3>1 DEF Drained
  <2>6. QED
    BY <2>1, <2>2, <2>3, <2>4, <2>5 DEF AtShard
<1>18. AtShard(p, listing[p][k[p]])'
  <2>1. listing'[p][k'[p]] = s
    BY <1>1, <1>16
  <2>2. QED
    BY <1>17, <2>1 DEF AtShard, ParentGone, Drained
<1>19. PassInv(p)'
  <2>1. NoneLeftOut(listing[p])' /\ done'[p] \subseteq FinishedShards'
    BY <1>0, <1>1 DEF PassInv, NoneLeftOut, FinishedShards
  <2>2. QED
    BY <1>0, <1>1, <1>16, <1>18, <2>1 DEF PassInv, Work, SetupPC
<1>20. QED
  BY <1>9, <1>12, <1>13, <1>14, <1>15, <1>19, OneMoves

\* Both kinds of batch.
LEMMA ReadKeeps ==
  ASSUME EngineInv, pc' \in [Processes -> SetupPC \cup EnginePC],
         NEW p \in Processes, ReadSome(p) \/ ReadToEnd(p)
  PROVE  EngineInv'
<1>1. pc[p] = "read" /\ pc[p] \in Work
  BY DEF ReadSome, ReadToEnd, At, Work
<1>2. After(p) \in Nat /\ written[Cur(p)] \in Nat /\ After(p) <= written[Cur(p)]
  <2>1. PICK h \in 0..written[Cur(p)] :
          handled[Cur(p)] = 1..h /\ After(p) \in 0..h /\ h \in Nat /\ written[Cur(p)] \in 0..LastSeq
    BY <1>1, AfterIs
  <2>2. LastSeq \in Nat
    BY LineageAssumption
  <2>3. QED
    BY <2>1, <2>2
<1>3. CASE ReadSome(p)
  <2>1. PICK n \in After(p) + 1..written[Cur(p)] : Batch(p, n, FALSE)
    BY <1>3 DEF ReadSome
  <2>2. n \in After(p)..written[Cur(p)] /\ n # After(p)
    BY <1>2
  <2>3. QED
    BY <1>1, <2>1, <2>2, BatchKeeps
<1>4. CASE ReadToEnd(p)
  <2>1. Batch(p, written[Cur(p)], TRUE) /\ stream[Cur(p)] = "closed"
    BY <1>4 DEF ReadToEnd
  <2>2. written[Cur(p)] \in After(p)..written[Cur(p)]
    BY <1>2
  <2>3. QED
    BY <1>1, <2>1, <2>2, BatchKeeps
<1>5. QED
  BY <1>3, <1>4

\* What the pass goes on with.
LEMMA SnapshotIs ==
  ASSUME EngineInv, NEW p \in Processes, pc[p] \in Work
  PROVE  /\ (IF engine = "worker" THEN done[p] ELSE FinishedShards) \in SUBSET Shards
         /\ (IF engine = "worker" THEN done[p] ELSE FinishedShards) \subseteq FinishedShards
         /\ k[p] + 1 \in Nat /\ k[p] + 1 >= 1 /\ listing[p] \in Listings /\ NoneLeftOut(listing[p])
         /\ engine # "fleet"
<1>1. listing[p] \in Listings /\ k[p] \in Nat /\ engine # "fleet" /\ PassInv(p)
  BY CurIs
<1>2. QED
  BY <1>1 DEF PassInv, FinishedShards

\* An empty batch, and a shard that has aged out.
LEMMA NothingKeeps ==
  ASSUME EngineInv, pc' \in [Processes -> SetupPC \cup EnginePC],
         NEW p \in Processes, ReadNothing(p) \/ ReadTrimmed(p)
  PROVE  EngineInv'
<1> DEFINE completed == IF engine = "worker" THEN done[p] ELSE FinishedShards
<1>0. /\ UNCHANGED <<engine, stream, written, overlapped, row, durable, finished, handled>>
      /\ pc[p] \in Work
  BY AroundKept DEF ReadNothing, ReadTrimmed, At, Work
<1>1. /\ completed \in SUBSET Shards /\ completed \subseteq FinishedShards
      /\ k[p] + 1 \in Nat /\ k[p] + 1 >= 1 /\ listing[p] \in Listings /\ NoneLeftOut(listing[p])
      /\ engine # "fleet"
  BY <1>0, SnapshotIs
<1>2. CASE ReadNothing(p)
  <2>1. Proceed(p, listing[p], completed, k[p] + 1, TRUE)
    BY <1>2 DEF ReadNothing
  <2> HIDE DEF completed
  <2>2. Proceed(p, listing[p], completed, k[p] + 1, TRUE) =>
          Proceeds(p, listing[p], completed, k[p] + 1, "ready")
    BY <1>1, ProceedIs, Zenon
  <2>3. QED
    BY <1>0, <1>1, <2>1, <2>2, ProceedKeeps
<1>3. CASE ReadTrimmed(p)
  <2>1. Forget(p, "failed")
    BY <1>3 DEF ReadTrimmed
  <2>2. QED
    BY <1>0, <1>1, <2>1, ForgetKeeps
<1>4. QED
  BY <1>2, <1>3

\* The checkpoint is the position p was given, which was handled.
LEMMA CheckpointKeeps ==
  ASSUME EngineInv, pc' \in [Processes -> SetupPC \cup EnginePC],
         NEW p \in Processes, Checkpoint(p)
  PROVE  EngineInv'
<1>. PICK s \in Shards : s = Cur(p)
  BY CurIs DEF Checkpoint, At, Work
<1>0. /\ UNCHANGED <<engine, stream, written, overlapped, row, finished, handled>>
      /\ pc[p] = "ckpt"
  BY AroundKept DEF Checkpoint, At
<1>1. s \in Shards /\ s = listing[p][k[p]] /\ PassInv(p) /\ AtShard(p, s) /\ engine # "fleet"
  BY <1>0, CurIs DEF PassInv, Work
<1>2. CASE Holding(p, s)
  <2>1. /\ durable' = [durable EXCEPT ![s] = pos[p]] /\ knows' = [knows EXCEPT ![s] = @ \cap {p}]
        /\ pc' = [pc EXCEPT ![p] = IF ended[p] THEN "finish" ELSE "read"]
        /\ UNCHANGED <<listing, done, k, pos, ended>>
    BY <1>2 DEF Checkpoint, Goto, pass
  <2>2. RowTypes /\ PassTypes /\ ShardInv
    BY DEF EngineInv
  <2>3. Advances
    BY <1>0 DEF Advances, Drained
  <2>4. HandledPrefix'
    BY <1>0, <1>1, <2>1, <2>2 DEF RowTypes, ShardInv, HandledPrefix, AtShard
  <2>5. ShardInv'
    BY <1>0, <2>2, <2>4 DEF ShardInv, StreamInOrder, ParentFirst, Drained
  <2>6. durable' \in [Shards -> 0..LastSeq] /\ knows' \in [Shards -> SUBSET Processes]
    <3>1. pos[p] \in 0..LastSeq
      BY <2>2 DEF PassTypes
    <3>2. knows' \in [Shards -> SUBSET Processes]
      BY <1>1, <2>1, <2>2 DEF RowTypes
    <3>3. QED
      BY <2>1, <2>2, <3>1, <3>2 DEF RowTypes
  <2>7. RowTypes' /\ PassTypes'
    BY <1>0, <2>1, <2>2, <2>6 DEF RowTypes, PassTypes
  <2>8. \A q \in Processes : q # p => Own(q)' = Own(q)
    BY <2>1 DEF EngineInv, Own
  <2>9. pc'[p] = IF ended[p] THEN "finish" ELSE "read"
    BY <2>1 DEF EngineInv
  <2>10. AtShard(p, s)'
    BY <1>0, <1>1, <2>1, <2>9 DEF AtShard, ParentGone, Drained
  <2>11. AtShard(p, listing[p][k[p]])'
    <3>1. listing'[p][k'[p]] = s
      BY <1>1, <2>1
    <3>2. QED
      BY <2>10, <3>1 DEF AtShard, ParentGone, Drained
  <2>12. PassInv(p)'
    <3>1. NoneLeftOut(listing[p])' /\ done'[p] \subseteq FinishedShards'
      BY <1>0, <1>1, <2>1 DEF PassInv, NoneLeftOut, FinishedShards
    <3>2. QED
      BY <1>0, <1>1, <2>1, <2>9, <2>11, <3>1 DEF PassInv, Work
  <2>13. QED
    BY <2>3, <2>5, <2>7, <2>8, <2>12, OneMoves
<1>3. CASE ~Holding(p, s)
  <2>1. Forget(p, "failed") /\ durable' = durable
    BY <1>3 DEF Checkpoint
  <2>2. QED
    BY <1>0, <1>1, <2>1, ForgetKeeps
<1>4. QED
  BY <1>2, <1>3

\* shard_ended is written only by a process that read to the end.
LEMMA MarkCompleteKeeps ==
  ASSUME EngineInv, pc' \in [Processes -> SetupPC \cup EnginePC],
         NEW p \in Processes, MarkComplete(p)
  PROVE  EngineInv'
<1>. PICK s \in Shards : s = Cur(p)
  BY CurIs DEF MarkComplete, At, Work
<1>0. /\ UNCHANGED <<engine, stream, written, overlapped, row, durable, handled>>
      /\ pc[p] = "finish"
  BY AroundKept DEF MarkComplete, At
<1>1. s \in Shards /\ s = listing[p][k[p]] /\ PassInv(p) /\ AtShard(p, s) /\ engine # "fleet"
  BY <1>0, CurIs DEF PassInv, Work
<1>2. CASE Holding(p, s)
  <2> DEFINE completed == IF engine = "worker" THEN done[p] ELSE FinishedShards \cup {s}
  <2>1. /\ finished' = [finished EXCEPT ![s] = TRUE]
        /\ Proceed(p, listing[p], completed, k[p] + 1, TRUE)
    BY <1>2 DEF MarkComplete
  <2>2. RowTypes /\ PassTypes /\ ShardInv /\ Drained(s)
    BY <1>0, <1>1 DEF EngineInv, AtShard
  <2>3. finished' \in [Shards -> BOOLEAN] /\ finished'[s] /\ \A q \in Shards : finished[q] => finished'[q]
    BY <1>1, <2>1, <2>2 DEF RowTypes
  <2>4. Advances
    BY <1>0, <2>3 DEF Advances, Drained
  <2>5. \A q \in Shards : finished'[q] => Drained(q)'
    BY <1>0, <2>1, <2>2 DEF RowTypes, ShardInv, Drained
  <2>6. HandledPrefix' /\ StreamInOrder'
    BY <1>0, <2>2 DEF ShardInv, HandledPrefix, StreamInOrder
  <2>7. ParentFirst'
    <3>1. \A q \in Shards : ParentOf[q] # NoShard => ParentOf[q] \in Shards
      BY LineageAssumption
    <3>2. QED
      BY <1>0, <2>2, <2>3, <3>1 DEF ShardInv, ParentFirst
  <2>8. ShardInv'
    BY <2>5, <2>6, <2>7 DEF ShardInv
  <2>9. completed \in SUBSET Shards /\ completed \subseteq FinishedShards'
    <3>1. FinishedShards \subseteq FinishedShards' /\ s \in FinishedShards'
      BY <1>1, <2>3 DEF FinishedShards
    <3>2. QED
      BY <1>1, <3>1 DEF PassInv, FinishedShards
  <2>10. /\ k[p] + 1 \in Nat /\ k[p] + 1 >= 1 /\ listing[p] \in Listings /\ NoneLeftOut(listing[p])
    BY <1>0, SnapshotIs DEF Work
  <2> HIDE DEF completed
  <2>11. Proceed(p, listing[p], completed, k[p] + 1, TRUE) =>
           Proceeds(p, listing[p], completed, k[p] + 1, "ready")
    BY <2>10, ProceedIs, Zenon
  <2>12. /\ PassTypes' /\ knows' \in [Shards -> SUBSET Processes]
         /\ \A q \in Processes : q # p => Own(q)' = Own(q)
         /\ PassInv(p)'
    BY <1>0, <1>1, <2>1, <2>4, <2>9, <2>10, <2>11, ProceedPass
  <2>13. RowTypes'
    BY <1>0, <2>2, <2>3, <2>12 DEF RowTypes
  <2>14. QED
    BY <2>4, <2>8, <2>12, <2>13, OneMoves
<1>3. CASE ~Holding(p, s)
  <2>1. Forget(p, "failed") /\ finished' = finished
    BY <1>3 DEF MarkComplete
  <2>2. QED
    BY <1>0, <1>1, <2>1, ForgetKeeps
<1>4. QED
  BY <1>2, <1>3

\* The counters of the start-up.
Counters ==
  attempt \in [Processes -> 0..MaxAttempts] /\ starts \in 0..MaxStarts /\ faults \in 0..MaxFaults

\* Whoever does something in the start-up does it to itself.
SetupMove(p) ==
  /\ \A q \in Processes : q # p => pc'[q] = pc[q]
  /\ pc'[p] = pc[p] \/ pc'[p] \in SetupPC

\* The steps of the start-up and the launches are such.
LEMMA SetupMoves ==
  ASSUME EngineInv, NEW p \in Processes,
         EnsureTable(p) \/ WorkerLaunch(p) \/ SchedulerLaunch(p) \/ FrontEndLaunch(p)
  PROVE  SetupMove(p)
<1>0. pc \in [Processes -> SetupPC \cup EnginePC]
  BY DEF EngineInv
<1>1. \A l \in SetupPC : pc' = [pc EXCEPT ![p] = l] => SetupMove(p)
  BY <1>0 DEF SetupMove
<1>2. pc' = pc => SetupMove(p)
  BY DEF SetupMove
<1>3. SetupPC = {"off", "look", "create", "wait", "pitr", "ready", "failed"}
  BY DEF SetupPC
<1>4. \A l \in SetupPC : Leave(p, l) => SetupMove(p)
  BY <1>1 DEF Leave, Goto
<1>5. CASE EnsureTable(p)
  <2>1. CASE Describe(p) \/ CreateTable(p) \/ CreateRefused(p) \/ CreateFails(p)
    BY <1>1, <1>3, <1>4, <2>1 DEF Describe, CreateTable, CreateRefused, CreateFails, Goto
  <2>2. CASE WaitActive(p) \/ WaitFails(p)
    BY <1>1, <1>3, <1>4, <2>2 DEF WaitActive, WaitFails, Goto
  <2>3. CASE UpdateContinuousBackups(p) \/ BackupsUnavailable(p) \/ BackupsFail(p)
    BY <1>2, <1>3, <1>4, <2>3 DEF UpdateContinuousBackups, BackupsUnavailable, BackupsFail
  <2>4. QED
    BY <1>5, <2>1, <2>2, <2>3 DEF EnsureTable
<1>6. CASE WorkerLaunch(p) \/ SchedulerLaunch(p) \/ FrontEndLaunch(p)
  <2>1. \/ pc' = [pc EXCEPT ![p] = "look"] \/ pc' = [pc EXCEPT ![p] = "ready"]
        \/ pc' = [pc EXCEPT ![p] = "failed"]
    BY <1>6 DEF WorkerLaunch, SchedulerLaunch, FrontEndLaunch, Starting, SidecarLaunch, ClientLaunch,
                Launch, LaunchFails, Goto
  <2>2. QED
    BY <1>1, <1>3, <2>1
<1>7. QED
  BY <1>5, <1>6

\* Next, action by action.
LEMMA EngineStep ==
  ASSUME EngineInv, [Next]_vars, pc' \in [Processes -> SetupPC \cup EnginePC]
  PROVE  EngineInv'
<1>1. ASSUME NEW s \in Shards, Write(s) \/ Reshard(s) \/ Trim(s)
      PROVE  EngineInv'
  BY <1>1, ServiceKeeps
<1>2. CASE UNCHANGED <<pc, engine, service, rows, pass, handled, overlapped>>
  <2>1. /\ UNCHANGED <<pc, engine, handled, overlapped>>
        /\ UNCHANGED <<listing, done, k, pos, ended, row, knows, durable, finished, stream, written>>
    BY <1>2 DEF service, rows, pass
  <2>2. Advances /\ ShardInv'
    BY <2>1, StillAdvances
  <2>3. RowTypes' /\ PassTypes' /\ \A q \in Processes : Own(q)' = Own(q)
    BY <2>1 DEF EngineInv, RowTypes, PassTypes, Own
  <2>4. QED
    BY <2>2, <2>3, PassKept DEF EngineInv
<1>3. ASSUME NEW p \in Processes, SetupMove(p), UNCHANGED <<engine, service, rows, pass, handled>>,
             overlapped' \in BOOLEAN
      PROVE  EngineInv'
  BY <1>3, SetupKeeps DEF SetupMove
<1>4. overlapped \in BOOLEAN
  BY DEF EngineInv, RowTypes
<1>5. ASSUME NEW p \in Processes, Step(p)
      PROVE  EngineInv'
  <2>1. CASE EnsureTable(p) /\ UNCHANGED <<engine, service, rows, pass, handled, overlapped>>
    BY <1>3, <1>4, <2>1, SetupMoves
  <2>2. CASE DescribePage(p)
    BY <2>2, DescribeKeeps
  <2>3. CASE Snapshot(p)
    BY <2>3, SnapshotKeeps
  <2>4. CASE SchedulerDescribe(p)
    BY <2>4, SchedulerDescribeKeeps
  <2>5. CASE Acquire(p) \/ Claim(p)
    BY <2>5, AcquireKeeps
  <2>6. CASE ReadSome(p) \/ ReadToEnd(p)
    BY <2>6, ReadKeeps
  <2>7. CASE ReadNothing(p) \/ ReadTrimmed(p)
    BY <2>7, NothingKeeps
  <2>8. CASE Checkpoint(p)
    BY <2>8, CheckpointKeeps
  <2>9. CASE MarkComplete(p)
    BY <2>9, MarkCompleteKeeps
  <2>10. QED
    BY <1>5, <2>1, <2>2, <2>3, <2>4, <2>5, <2>6, <2>7, <2>8, <2>9 DEF Step
<1>6. ASSUME NEW p \in Processes, Fails(p)
      PROVE  EngineInv'
  <2>1. /\ engine # "fleet" /\ Forget(p, "failed")
        /\ UNCHANGED <<engine, stream, written, overlapped, row, durable, finished, handled>>
    BY <1>6, AroundKept DEF Fails
  <2>2. QED
    BY <2>1, ForgetKeeps
<1>7. ASSUME NEW p \in Processes, WorkerLaunch(p) \/ SchedulerLaunch(p) \/ FrontEndLaunch(p)
      PROVE  EngineInv'
  <2>1. UNCHANGED <<engine, service, rows, pass, handled>>
    BY <1>7 DEF WorkerLaunch, SchedulerLaunch, FrontEndLaunch
  <2>2. overlapped' \in BOOLEAN
    BY <1>4, <1>7 DEF WorkerLaunch, SchedulerLaunch, FrontEndLaunch, Overlap
  <2>3. QED
    BY <1>3, <1>7, <2>1, <2>2, SetupMoves
<1>8. CASE TableActivates /\ UNCHANGED <<engine, service, rows, pass, handled, overlapped>>
  BY <1>2, <1>8 DEF TableActivates
<1>9. CASE UNCHANGED vars
  BY <1>2, <1>9 DEF vars, setupVars
<1>10. QED
  BY <1>1, <1>5, <1>6, <1>7, <1>8, <1>9 DEF Next, Service

\* The roots are the lowest shards, so the order holds from the start.
LEMMA EngineBegins ==
  ASSUME Init
  PROVE  EngineInv
<1>1. /\ pc = [p \in Processes |-> "off"] /\ engine \in {"worker", "scheduler", "fleet"}
      /\ stream = [s \in Shards |-> IF ParentOf[s] = NoShard THEN "open" ELSE "future"]
      /\ written = [s \in Shards |-> 0]
      /\ row = [s \in Shards |-> FALSE] /\ knows = [s \in Shards |-> {}]
      /\ durable = [s \in Shards |-> 0] /\ finished = [s \in Shards |-> FALSE]
      /\ listing = [p \in Processes |-> <<>>] /\ done = [p \in Processes |-> {}]
      /\ k = [p \in Processes |-> 0] /\ pos = [p \in Processes |-> 0]
      /\ ended = [p \in Processes |-> FALSE]
      /\ handled = [s \in Shards |-> {}]
      /\ overlapped = FALSE
  BY DEF Init, SetupInit
<1>2. <<>> \in Listings /\ LastSeq \in Nat
  <2>1. <<>> \in Seq(Shards) /\ InOrder(<<>>)
    BY DEF InOrder
  <2>2. QED
    BY <2>1, ListingIs, LineageAssumption
<1>3. pc \in [Processes -> SetupPC \cup EnginePC]
  BY <1>1 DEF SetupPC
<1>4. RowTypes /\ PassTypes
  <2>1. RowTypes
    <3>1. row \in [Shards -> BOOLEAN] /\ finished \in [Shards -> BOOLEAN] /\ overlapped \in BOOLEAN
      BY <1>1
    <3>2. QED
      BY <1>1, <1>2, <3>1 DEF RowTypes
  <2>2. ended \in [Processes -> BOOLEAN]
    BY <1>1
  <2>3. PassTypes
    BY <1>1, <1>2, <2>2 DEF PassTypes
  <2>4. QED
    BY <2>1, <2>3
<1>5. StreamInOrder
  BY <1>1, LineageAssumption DEF StreamInOrder
<1>6. HandledPrefix
  <2>1. 0 \in 0..0 /\ 1..0 = {}
    OBVIOUS
  <2>2. QED
    BY <1>1, <2>1 DEF HandledPrefix
<1>7. ShardInv
  BY <1>1, <1>5, <1>6 DEF ShardInv, ParentFirst
<1>8. ASSUME NEW p \in Processes
      PROVE  PassInv(p)
  <2>1. Len(<<>>) = 0 /\ 1..0 = {}
    OBVIOUS
  <2>2. NoneLeftOut(listing[p])
    BY <1>1, <2>1 DEF NoneLeftOut
  <2>3. pc[p] = "off" /\ k[p] = 0 /\ listing[p] = <<>> /\ done[p] = {}
    BY <1>1
  <2>4. QED
    BY <2>1, <2>2, <2>3 DEF PassInv, Work, SetupPC
<1>9. QED
  BY <1>3, <1>4, <1>7, <1>8 DEF EngineInv

\* No counter passes its bound.
LEMMA CountersStep ==
  ASSUME Counters, [Next]_vars
  PROVE  Counters'
<1>0. MaxAttempts \in Nat /\ MaxStarts \in Nat /\ MaxFaults \in Nat
  BY SetupAssumption
<1>1. ASSUME UNCHANGED <<attempt, starts>>, UNCHANGED faults \/ Fault
      PROVE  Counters'
  BY <1>0, <1>1 DEF Counters, Fault
<1>2. ASSUME UNCHANGED <<attempt, faults>>, starts < MaxStarts, starts' = starts + 1
      PROVE  Counters'
  BY <1>0, <1>2 DEF Counters
<1>3. ASSUME NEW p \in Processes, NEW l, Leave(p, l), UNCHANGED faults \/ Fault, UNCHANGED starts
      PROVE  Counters'
  BY <1>0, <1>3 DEF Counters, Leave, Fault
<1>4. ASSUME NEW p \in Processes, EnsureTable(p)
      PROVE  Counters'
  <2>1. CASE Describe(p)
    BY <1>1, <2>1 DEF Describe, NoFault
  <2>2. CASE CreateTable(p)
    BY <1>1, <2>2 DEF CreateTable, setup
  <2>3. CASE \/ CreateRefused(p) \/ CreateFails(p) \/ WaitFails(p)
             \/ UpdateContinuousBackups(p) \/ BackupsFail(p)
    BY <1>3, <2>3 DEF CreateRefused, CreateFails, WaitFails, UpdateContinuousBackups, BackupsFail
  <2>4. CASE WaitActive(p)
    BY <1>1, <1>3, <2>4 DEF WaitActive, setup
  <2>5. CASE BackupsUnavailable(p)
    <3>1. CASE attempt[p] < MaxAttempts
      BY <1>0, <2>5, <3>1 DEF BackupsUnavailable, Counters
    <3>2. CASE ~(attempt[p] < MaxAttempts)
      BY <1>3, <2>5, <3>2 DEF BackupsUnavailable
    <3>3. QED
      BY <3>1, <3>2
  <2>6. QED
    BY <1>4, <2>1, <2>2, <2>3, <2>4, <2>5 DEF EnsureTable
<1>5. ASSUME NEW p \in Processes, WorkerLaunch(p) \/ SchedulerLaunch(p) \/ FrontEndLaunch(p)
      PROVE  Counters'
  BY <1>2, <1>5 DEF WorkerLaunch, SchedulerLaunch, FrontEndLaunch, Starting, SidecarLaunch, ClientLaunch,
                    Launch, LaunchFails, setup
<1>6. ASSUME NEW p \in Processes,
             \/ DescribePage(p) \/ Snapshot(p) \/ SchedulerDescribe(p) \/ Acquire(p) \/ Claim(p)
             \/ ReadSome(p) \/ ReadToEnd(p) \/ ReadNothing(p) \/ ReadTrimmed(p)
             \/ Checkpoint(p) \/ MarkComplete(p) \/ Fails(p)
      PROVE  Counters'
  <2>1. UNCHANGED around /\ (UNCHANGED faults \/ Fault)
    BY <1>6 DEF DescribePage, Snapshot, SchedulerDescribe, Acquire, Claim, ReadSome, ReadToEnd, Batch,
                ReadNothing, ReadTrimmed, Checkpoint, MarkComplete, Fails
  <2>2. UNCHANGED <<attempt, starts>>
    BY <2>1 DEF around, setup
  <2>3. QED
    BY <1>1, <2>1, <2>2
<1>7. ASSUME UNCHANGED setupVars
      PROVE  Counters'
  BY <1>1, <1>7 DEF setupVars, setup
<1>8. CASE TableActivates
  BY <1>1, <1>8 DEF TableActivates, setup
<1>9. QED
  BY <1>4, <1>5, <1>6, <1>7, <1>8 DEF Next, Service, Step, Write, Reshard, Trim, vars

-----------------------------------------------------------------------------
(* One process at a time *)

\* Unless two workers overlapped there is one process at a time ...
OneUp ==
  engine # "fleet" /\ ~overlapped => \A p, q \in Processes : Up(p) /\ Up(q) => p = q

\* The shards whose completion p's snapshot holds (or will, once it is taken).
Snapped(p) == IF pc[p] = "snap" THEN 1..(k[p] - 1) ELSE k[p]..Len(listing[p])

\* ... so what its describe saw is all there is, once that is complete; it works on a
\* shard that is not complete; and its snapshot is exact for what it has still to do.
Solo(p) ==
  /\ pc[p] = "snap" /\ ToSet(listing[p]) \subseteq FinishedShards => Listed \subseteq ToSet(listing[p])
  /\ pc[p] \in Work => ~finished[listing[p][k[p]]]
  /\ engine = "worker" /\ pc[p] \in {"snap"} \cup Work =>
       \A j \in Snapped(p) : finished[listing[p][j]] => listing[p][j] \in done[p]

SoloInv == OneUp /\ \A p \in Processes : ~overlapped => Solo(p)

\* The stream changes under a pass: once all that was listed is complete nothing is
\* open, so there is nothing to reshard.
LEMMA ServiceSolo ==
  ASSUME EngineInv, NEW s \in Shards, Write(s) \/ Reshard(s) \/ Trim(s),
         NEW p \in Processes, Solo(p)
  PROVE  Solo(p)'
<1>0. /\ UNCHANGED <<pc, engine, rows, pass>>
      /\ UNCHANGED <<listing, done, k, finished>>
  BY DEF Write, Reshard, Trim, setupVars, rows, pass
<1>1. RowTypes /\ ShardInv
  BY DEF EngineInv
<1>2. ASSUME pc[p] = "snap", ToSet(listing[p]) \subseteq FinishedShards
      PROVE  Listed' \subseteq ToSet(listing[p])
  <2>1. Listed \subseteq FinishedShards /\ Listed \subseteq ToSet(listing[p])
    BY <1>2 DEF Solo
  <2>2. \A q \in Shards : stream[q] # "open"
    BY <1>1, <2>1 DEF Listed, FinishedShards, ShardInv, Drained
  <2>3. ~Write(s) /\ ~Reshard(s)
    BY <2>2 DEF Write, Reshard
  <2>4. stream[s] = "closed" /\ stream' = [stream EXCEPT ![s] = "trimmed"]
    BY <2>3 DEF Trim
  <2>5. Listed' \subseteq Listed
    BY <1>1, <2>4 DEF Listed, RowTypes
  <2>6. QED
    BY <2>1, <2>5
<1>3. FinishedShards' = FinishedShards /\ Snapped(p)' = Snapped(p)
  BY <1>0 DEF FinishedShards, Snapped
<1>4. QED
  BY <1>0, <1>2, <1>3 DEF Solo

\* A step within one shard.
LEMMA WithinShard ==
  ASSUME NEW p \in Processes, Solo(p), pc[p] \in Work, pc'[p] \in Work,
         UNCHANGED <<engine, finished, listing, k, done>>
  PROVE  Solo(p)'
<1>1. pc[p] # "snap" /\ pc'[p] # "snap"
  BY DEF Work
<1>2. Snapped(p)' = Snapped(p)
  BY <1>1 DEF Snapped
<1>3. QED
  BY <1>1, <1>2 DEF Solo

\* What the next shard of a pass is, when the snapshot is exact for the rest of it.
LEMMA ProceedSolo ==
  ASSUME EngineInv, NEW p \in Processes, NEW list \in Listings, NEW completed, NEW i \in Nat, i >= 1,
         NEW l \in {"ready", "ok"}, Proceeds(p, list, completed, i, l), engine' = engine,
         \A j \in i..Len(list) : finished'[list[j]] => list[j] \in completed
  PROVE  Solo(p)'
<1>0. PassTypes /\ pc \in [Processes -> SetupPC \cup EnginePC]
  BY DEF EngineInv
<1>1. CASE Forget(p, l)
  <2>1. pc'[p] = l
    BY <1>0, <1>1 DEF Forget, Goto
  <2>2. pc'[p] \notin {"snap"} \cup Work
    BY <2>1 DEF Work
  <2>3. QED
    BY <2>2 DEF Solo, Work
<1>2. ASSUME NEW m \in Eligibles(list, completed, i), Takes(p, list, completed, m)
      PROVE  Solo(p)'
  <2>1. m \in i..Len(list) /\ list[m] \notin completed /\ Len(list) \in Nat
    BY EligibleIs, ListingFacts
  <2>2. /\ pc'[p] = IF engine = "worker" THEN "acquire" ELSE "read"
        /\ listing'[p] = list /\ k'[p] = m
        /\ done'[p] = IF engine = "worker" THEN completed ELSE {}
    BY <1>0, <1>2 DEF PassTypes, Goto, Takes
  <2>3. Snapped(p)' = m..Len(list)
    BY <2>2 DEF Snapped
  <2>4. \A j \in m..Len(list) : j \in i..Len(list)
    BY <2>1
  <2>5. ~finished'[list[m]]
    BY <2>1
  <2>6. engine = "worker" => \A j \in Snapped(p)' : finished'[list[j]] => list[j] \in done'[p]
    BY <2>2, <2>3, <2>4
  <2>7. QED
    BY <2>2, <2>5, <2>6 DEF Solo, Work
<1>3. QED
  BY <1>1, <1>2 DEF Proceeds

\* The shards still to come whose rows are complete are in the snapshot.
LEMMA RestSnapped ==
  ASSUME EngineInv, NEW p \in Processes, pc[p] \in Work, Solo(p)
  PROVE  \A j \in (k[p] + 1)..Len(listing[p]) :
           finished[listing[p][j]] => listing[p][j] \in IF engine = "worker" THEN done[p] ELSE FinishedShards
<1>1. listing[p] \in Listings /\ k[p] \in Nat /\ Len(listing[p]) \in Nat
  BY CurIs
<1>2. \A j \in (k[p] + 1)..Len(listing[p]) : j \in k[p]..Len(listing[p]) /\ j \in 1..Len(listing[p])
  BY <1>1
<1>3. Snapped(p) = k[p]..Len(listing[p])
  BY DEF Snapped, Work
<1>4. \A j \in 1..Len(listing[p]) : listing[p][j] \in Shards
  BY <1>1, ListingFacts
<1>5. QED
  BY <1>2, <1>3, <1>4 DEF Solo, FinishedShards

\* Something listed that is not complete: then something is eligible, for the first of
\* what is not complete has its parent complete, or not on the list.
LEMMA SomeEligible ==
  ASSUME NEW list \in Listings, NEW completed, ~(ToSet(list) \subseteq completed)
  PROVE  Eligibles(list, completed, 1) # {}
<1> DEFINE T == {j \in 1..Len(list) : list[j] \notin completed}
<1>1. /\ Len(list) \in Nat
      /\ \A i \in 1..Len(list) : list[i] \in Shards /\ list[i] \in Nat
      /\ \A i, j \in 1..Len(list) : i < j => list[i] < list[j]
      /\ ToSet(list) = {list[i] : i \in 1..Len(list)}
  BY ListingFacts
<1>2. T # {} /\ T \subseteq Nat
  BY <1>1
<1>3. PICK m \in T : \A y \in T : m <= y
  <2> HIDE DEF T
  <2>1. QED
    BY <1>2, Least
<1>4. ASSUME ParentOf[list[m]] \in ToSet(list)
      PROVE  ParentOf[list[m]] \in completed
  <2>1. PICK i \in 1..Len(list) : ParentOf[list[m]] = list[i]
    BY <1>1, <1>4
  <2>2. list[i] < list[m] /\ m \in 1..Len(list)
    BY <1>1, <2>1, LineageAssumption
  <2>3. i < m
    <3>1. ~(m < i) /\ m # i
      BY <1>1, <2>2
    <3>2. QED
      BY <1>1, <2>2, <3>1
  <2>4. QED
    BY <1>1, <1>3, <2>1, <2>3
<1>5. 1 \in Nat /\ 1 >= 1
  OBVIOUS
<1>6. m \in Eligibles(list, completed, 1)
  BY <1>4, <1>5, EligibleIs
<1>7. QED
  BY <1>6

\* A process that goes on to a shard does not end.
LEMMA TakesNotOk ==
  ASSUME EngineInv, NEW p \in Processes, NEW list, NEW completed, NEW m, Takes(p, list, completed, m)
  PROVE  pc'[p] # "ok"
BY DEF EngineInv, Takes, Goto

\* A describe ends when nothing follows: then it has everything there is.
LEMMA AllListed ==
  ASSUME RowTypes, NEW list \in Listings, NoneLeftOut(list), Following(list) = {}
  PROVE  Listed \subseteq ToSet(list)
<1>1. /\ Len(list) \in Nat /\ DOMAIN list = 1..Len(list)
      /\ \A i \in 1..Len(list) : list[i] \in Shards /\ list[i] \in Nat
      /\ ToSet(list) = {list[i] : i \in 1..Len(list)}
  BY ListingFacts
<1>2. ASSUME NEW r \in Listed
      PROVE  r \in ToSet(list)
  <2>1. PICK i \in 1..Len(list) : ~(r > list[i])
    BY <1>1 DEF Following
  <2>2. r \in Shards /\ r \in Nat /\ stream[r] # "trimmed"
    BY LineageAssumption DEF Listed
  <2>3. r = list[i] \/ r < list[i]
    BY <1>1, <2>1, <2>2
  <2>4. QED
    BY <1>1, <2>2, <2>3 DEF NoneLeftOut
<1>3. QED
  BY <1>2

OkDrained(p) == pc'[p] = "ok" => Listed \subseteq FinishedShards

\* Describe: p goes on to its snapshot, or ends, only with everything listed.
LEMMA DescribeSolo ==
  ASSUME EngineInv, NEW p \in Processes, DescribePage(p)
  PROVE  Solo(p)' /\ OkDrained(p)
<1>0. /\ UNCHANGED <<engine, stream, finished>> /\ pc[p] = "ready"
      /\ RowTypes /\ PassTypes /\ StreamInOrder /\ listing[p] \in Listings
      /\ NoneLeftOut(listing[p]) /\ pc \in [Processes -> SetupPC \cup EnginePC]
  BY AroundKept DEF DescribePage, At, EngineInv, ShardInv, PassTypes, PassInv
<1>1. Listed' = Listed /\ FinishedShards' = FinishedShards
  BY <1>0 DEF Listed, FinishedShards
<1>2. ASSUME pc'[p] = "ready" \/ (pc'[p] = "ok" /\ Listed = {})
      PROVE  Solo(p)' /\ OkDrained(p)
  BY <1>2 DEF Solo, Work, OkDrained
<1>3. ASSUME NEW list \in Listings, NoneLeftOut(list), Following(list) = {}, DescribeEnds(p, list)
      PROVE  Solo(p)' /\ OkDrained(p)
  <2>1. Listed \subseteq ToSet(list)
    BY <1>0, <1>3, AllListed
  <2>2. CASE list = <<>>
    <3>1. pc'[p] = "ok"
      BY <1>0, <1>3, <2>2 DEF DescribeEnds, Forget, Goto
    <3>2. Following(<<>>) = Listed
      BY DEF Following
    <3>3. QED
      BY <1>2, <1>3, <2>2, <3>1, <3>2
  <2>3. CASE list # <<>>
    <3>1. /\ pc'[p] = "snap" /\ listing'[p] = list /\ k'[p] = 1
      BY <1>0, <1>3, <2>3 DEF DescribeEnds, Goto, PassTypes
    <3>2. Snapped(p)' = {}
      BY <3>1 DEF Snapped
    <3>3. QED
      BY <1>1, <2>1, <3>1, <3>2 DEF Solo, Work, OkDrained
  <2>4. QED
    BY <2>2, <2>3
<1>4. CASE Following(listing[p]) = {}
  BY <1>0, <1>3, <1>4 DEF DescribePage
<1>5. CASE Following(listing[p]) # {}
  <2> DEFINE list == Append(listing[p], Min(Following(listing[p])))
  <2>1. list \in Listings /\ NoneLeftOut(list)
    BY <1>0, <1>5, NextPage
  <2>2. \/ Following(list) = {} /\ DescribeEnds(p, list)
        \/ UNCHANGED pc
    BY <1>5 DEF DescribePage
  <2> HIDE DEF list
  <2>3. QED
    BY <1>0, <1>2, <1>3, <2>1, <2>2
<1>6. QED
  BY <1>4, <1>5

\* Snapshot: p ends only if all it listed is complete, and that was everything.
LEMMA SnapshotSolo ==
  ASSUME EngineInv, NEW p \in Processes, Snapshot(p), Solo(p)
  PROVE  Solo(p)' /\ OkDrained(p)
<1> DEFINE completed == done[p] \cup ({Cur(p)} \cap FinishedShards)
<1>0. /\ UNCHANGED <<engine, stream, finished>> /\ pc[p] = "snap"
      /\ PassTypes /\ pc \in [Processes -> SetupPC \cup EnginePC]
  BY AroundKept DEF Snapshot, At, EngineInv
<1>1. /\ Cur(p) = listing[p][k[p]] /\ Cur(p) \in Shards /\ listing[p] \in Listings
      /\ k[p] \in 1..Len(listing[p]) /\ k[p] \in Nat /\ Len(Graph(p)) = Len(listing[p])
      /\ Len(listing[p]) \in Nat /\ Ids(Graph(p)) = ToSet(listing[p])
      /\ PassInv(p) /\ engine = "worker"
  BY <1>0, CurIs DEF PassInv
<1>2. Listed' = Listed /\ FinishedShards' = FinishedShards
  BY <1>0 DEF Listed, FinishedShards
<1>3. \A j \in 1..k[p] : finished[listing[p][j]] => listing[p][j] \in completed
  <2>1. \A j \in 1..k[p] : j \in 1..(k[p] - 1) \/ j = k[p]
    BY <1>1
  <2>2. Snapped(p) = 1..(k[p] - 1)
    BY <1>0 DEF Snapped
  <2>3. \A j \in 1..(k[p] - 1) : finished[listing[p][j]] => listing[p][j] \in done[p]
    BY <1>0, <1>1, <2>2 DEF Solo
  <2>4. finished[Cur(p)] => Cur(p) \in FinishedShards
    BY <1>1 DEF FinishedShards
  <2>5. QED
    BY <1>1, <2>1, <2>3, <2>4
<1>4. completed \subseteq FinishedShards
  BY <1>1 DEF PassInv
<1>5. \/ /\ k[p] < Len(listing[p]) /\ done' = [done EXCEPT ![p] = completed]
         /\ k' = [k EXCEPT ![p] = @ + 1] /\ UNCHANGED <<pc, knows, listing, pos, ended>>
      \/ Forget(p, "ok") /\ ToSet(listing[p]) \subseteq completed
      \/ /\ ~(k[p] < Len(listing[p])) /\ ~(ToSet(listing[p]) \subseteq completed)
         /\ Proceed(p, listing[p], completed, 1, FALSE)
  BY <1>1 DEF Snapshot
<1> HIDE DEF completed
<1>6. CASE /\ k[p] < Len(listing[p]) /\ done' = [done EXCEPT ![p] = completed]
           /\ k' = [k EXCEPT ![p] = @ + 1] /\ UNCHANGED <<pc, knows, listing, pos, ended>>
  <2>1. /\ pc'[p] = "snap" /\ listing'[p] = listing[p] /\ k'[p] = k[p] + 1 /\ done'[p] = completed
    BY <1>0, <1>6 DEF PassTypes
  <2>2. Snapped(p)' = 1..k[p]
    <3>1. Snapped(p)' = 1..(k[p] + 1 - 1) /\ k[p] + 1 - 1 = k[p]
      BY <1>1, <2>1 DEF Snapped
    <3>2. QED
      BY <3>1
  <2>3. QED
    BY <1>0, <1>2, <1>3, <2>1, <2>2 DEF Solo, Work, OkDrained
<1>7. CASE Forget(p, "ok") /\ ToSet(listing[p]) \subseteq completed
  <2>1. pc'[p] = "ok"
    BY <1>0, <1>7 DEF Forget, Goto
  <2>2. Listed \subseteq FinishedShards
    BY <1>0, <1>4, <1>7 DEF Solo
  <2>3. QED
    BY <2>1, <2>2 DEF Solo, Work, OkDrained
<1>8. CASE /\ ~(k[p] < Len(listing[p])) /\ ~(ToSet(listing[p]) \subseteq completed)
           /\ Proceed(p, listing[p], completed, 1, FALSE)
  <2>1. k[p] = Len(listing[p])
    BY <1>1, <1>8
  <2>2. 1 \in Nat /\ 1 >= 1
    OBVIOUS
  <2>3. Proceed(p, listing[p], completed, 1, FALSE) => Proceeds(p, listing[p], completed, 1, "ok")
    BY <1>1, <2>2, ProceedIs, Zenon
  <2>4. \A j \in 1..Len(listing[p]) : finished'[listing[p][j]] => listing[p][j] \in completed
    BY <1>0, <1>3, <2>1
  <2>5. Solo(p)'
    BY <1>0, <1>1, <1>8, <2>2, <2>3, <2>4, ProceedSolo
  <2>6. Eligibles(listing[p], completed, 1) # {}
    BY <1>1, <1>8, SomeEligible
  <2>7. pc'[p] # "ok"
    BY <1>8, <2>3, <2>6, TakesNotOk DEF Proceeds
  <2>8. QED
    BY <2>5, <2>7 DEF OkDrained
<1>9. QED
  BY <1>5, <1>6, <1>7, <1>8

\* The same, at once, on the in-process source.
LEMMA SchedulerDescribeSolo ==
  ASSUME EngineInv, NEW p \in Processes, SchedulerDescribe(p)
  PROVE  Solo(p)' /\ OkDrained(p)
<1>0. UNCHANGED <<engine, stream, finished>> /\ pc \in [Processes -> SetupPC \cup EnginePC]
  BY AroundKept DEF SchedulerDescribe, EngineInv
<1>1. CASE Listed \subseteq FinishedShards
  <2>1. pc'[p] = "ok"
    BY <1>0, <1>1 DEF SchedulerDescribe, Forget, Goto
  <2>2. QED
    BY <1>1, <2>1 DEF Solo, Work, OkDrained
<1>2. CASE ~(Listed \subseteq FinishedShards)
  <2>1. PICK list \in Listings : ToSet(list) = Listed /\ Proceed(p, list, FinishedShards, 1, FALSE)
    BY <1>2 DEF SchedulerDescribe
  <2>2. 1 \in Nat /\ 1 >= 1
    OBVIOUS
  <2>3. Proceed(p, list, FinishedShards, 1, FALSE) => Proceeds(p, list, FinishedShards, 1, "ok")
    BY <2>2, ProceedIs, Zenon
  <2>4. \A j \in 1..Len(list) : finished'[list[j]] => list[j] \in FinishedShards
    BY <1>0, ListingFacts DEF FinishedShards
  <2>5. Solo(p)'
    BY <1>0, <2>1, <2>2, <2>3, <2>4, ProceedSolo
  <2>6. Eligibles(list, FinishedShards, 1) # {}
    BY <1>2, <2>1, SomeEligible
  <2>7. pc'[p] # "ok"
    BY <2>1, <2>3, <2>6, TakesNotOk DEF Proceeds
  <2>8. QED
    BY <2>5, <2>7 DEF OkDrained
<1>3. QED
  BY <1>1, <1>2

\* A failed process, or the end of a pass, claims nothing.
LEMMA EndedSolo ==
  ASSUME EngineInv, NEW p \in Processes, NEW l \in {"failed", "ready"}, Forget(p, l)
  PROVE  Solo(p)' /\ OkDrained(p)
<1>1. pc'[p] = l
  BY DEF EngineInv, Forget, Goto
<1>2. QED
  BY <1>1 DEF Solo, Work, OkDrained

\* The steps within a shard.
LEMMA ShardSolo ==
  ASSUME EngineInv, NEW p \in Processes, Solo(p),
         Acquire(p) \/ Claim(p) \/ ReadSome(p) \/ ReadToEnd(p) \/ Checkpoint(p)
  PROVE  Solo(p)' /\ OkDrained(p)
<1>0. /\ UNCHANGED <<engine, finished>> /\ pc[p] \in Work /\ pc \in [Processes -> SetupPC \cup EnginePC]
  BY AroundKept DEF Acquire, Claim, ReadSome, ReadToEnd, Batch, rows, Checkpoint, At, Work, EngineInv
<1>1. ASSUME UNCHANGED <<listing, k, done>>, pc'[p] \in Work
      PROVE  Solo(p)' /\ OkDrained(p)
  BY <1>0, <1>1, WithinShard DEF OkDrained, Work
<1>2. CASE Acquire(p)
  BY <1>0, <1>1, <1>2 DEF Acquire, Goto, pass, Work
<1>3. CASE Claim(p)
  <2>1. CASE p \in knows[Cur(p)]
    BY <1>0, <1>1, <1>3, <2>1 DEF Claim, Goto, pass, Work
  <2>2. CASE p \notin knows[Cur(p)]
    BY <1>3, <2>2, EndedSolo DEF Claim
  <2>3. QED
    BY <2>1, <2>2
<1>4. CASE ReadSome(p) \/ ReadToEnd(p)
  <2>1. PICK n, end : Batch(p, n, end)
    BY <1>4 DEF ReadSome, ReadToEnd
  <2>2. QED
    BY <1>0, <1>1, <2>1 DEF Batch, Goto, Work
<1>5. CASE Checkpoint(p)
  <2>1. CASE Holding(p, Cur(p))
    BY <1>0, <1>1, <1>5, <2>1 DEF Checkpoint, Goto, pass, Work
  <2>2. CASE ~Holding(p, Cur(p))
    BY <1>5, <2>2, EndedSolo DEF Checkpoint
  <2>3. QED
    BY <2>1, <2>2
<1>6. QED
  BY <1>2, <1>3, <1>4, <1>5

\* A pass that worked on something does not end run.
LEMMA ReadySolo ==
  ASSUME EngineInv, NEW p \in Processes, NEW list, NEW completed, NEW i,
         Proceeds(p, list, completed, i, "ready")
  PROVE  OkDrained(p)
BY DEF EngineInv, Proceeds, Takes, Forget, Goto, OkDrained

\* The steps that go on to the next shard, and the failures.
LEMMA NextSolo ==
  ASSUME EngineInv, NEW p \in Processes, Solo(p),
         ReadNothing(p) \/ ReadTrimmed(p) \/ MarkComplete(p) \/ Fails(p)
  PROVE  Solo(p)' /\ OkDrained(p)
<1>0. engine' = engine
  BY AroundKept DEF ReadNothing, ReadTrimmed, MarkComplete, Fails
<1>1. CASE Forget(p, "failed")
  BY <1>1, EndedSolo
<1>2. CASE ReadNothing(p)
  <2> DEFINE completed == IF engine = "worker" THEN done[p] ELSE FinishedShards
  <2>1. Proceed(p, listing[p], completed, k[p] + 1, TRUE) /\ pc[p] \in Work /\ finished' = finished
    BY <1>2 DEF ReadNothing, At, Work
  <2>2. listing[p] \in Listings /\ k[p] + 1 \in Nat /\ k[p] + 1 >= 1
    BY <2>1, SnapshotIs
  <2>3. \A j \in (k[p] + 1)..Len(listing[p]) : finished'[listing[p][j]] => listing[p][j] \in completed
    BY <2>1, RestSnapped
  <2> HIDE DEF completed
  <2>4. Proceed(p, listing[p], completed, k[p] + 1, TRUE) =>
          Proceeds(p, listing[p], completed, k[p] + 1, "ready")
    BY <2>2, ProceedIs, Zenon
  <2>5. Solo(p)'
    BY <1>0, <2>1, <2>2, <2>3, <2>4, ProceedSolo
  <2>6. QED
    BY <2>1, <2>4, <2>5, ReadySolo
<1>3. CASE MarkComplete(p) /\ Holding(p, Cur(p))
  <2> DEFINE s == Cur(p)
             completed == IF engine = "worker" THEN done[p] ELSE FinishedShards \cup {s}
  <2>1. /\ Proceed(p, listing[p], completed, k[p] + 1, TRUE) /\ pc[p] \in Work
        /\ finished' = [finished EXCEPT ![s] = TRUE]
    BY <1>3 DEF MarkComplete, At, Work
  <2>2. listing[p] \in Listings /\ k[p] + 1 \in Nat /\ k[p] + 1 >= 1
    BY <2>1, SnapshotIs
  <2>3. /\ s = listing[p][k[p]] /\ k[p] \in 1..Len(listing[p]) /\ k[p] \in Nat /\ Len(listing[p]) \in Nat
        /\ finished \in [Shards -> BOOLEAN]
    BY <2>1, CurIs DEF EngineInv, RowTypes
  <2>4. ASSUME NEW j \in (k[p] + 1)..Len(listing[p]), finished'[listing[p][j]]
        PROVE  listing[p][j] \in completed
    <3>1. j \in 1..Len(listing[p]) /\ j # k[p]
      BY <2>3
    <3>2. listing[p][j] # s /\ listing[p][j] \in Shards
      BY <2>2, <2>3, <3>1, ListingFacts
    <3>3. finished[listing[p][j]]
      BY <2>1, <2>3, <2>4, <3>2
    <3>4. listing[p][j] \in IF engine = "worker" THEN done[p] ELSE FinishedShards
      BY <2>1, <3>3, RestSnapped
    <3>5. QED
      BY <3>4
  <2> HIDE DEF completed, s
  <2>5. Proceed(p, listing[p], completed, k[p] + 1, TRUE) =>
          Proceeds(p, listing[p], completed, k[p] + 1, "ready")
    BY <2>2, ProceedIs, Zenon
  <2>6. Solo(p)'
    BY <1>0, <2>1, <2>2, <2>4, <2>5, ProceedSolo
  <2>7. QED
    BY <2>1, <2>5, <2>6, ReadySolo
<1>4. QED
  BY <1>1, <1>2, <1>3 DEF ReadTrimmed, MarkComplete, Fails

\* Whoever takes a step was up, and is alone in it.
LEMMA UpMoves ==
  ASSUME EngineInv, NEW p \in Processes, Step(p) \/ Fails(p)
  PROVE  /\ Up(p) /\ UNCHANGED <<engine, overlapped>>
         /\ \A q \in Processes : q # p => pc'[q] = pc[q]
<1>1. CASE EnsureTable(p) /\ UNCHANGED <<engine, service, rows, pass, handled, overlapped>>
  <2>1. pc[p] \in {"look", "create", "wait", "pitr"}
    BY <1>1 DEF EnsureTable, Describe, CreateTable, CreateRefused, CreateFails, WaitActive, WaitFails,
                UpdateContinuousBackups, BackupsUnavailable, BackupsFail, At
  <2>2. QED
    BY <1>1, <2>1, SetupMoves DEF SetupMove, Up, Down
<1>2. CASE \/ DescribePage(p) \/ Snapshot(p) \/ SchedulerDescribe(p)
           \/ Acquire(p) \/ Claim(p)
           \/ ReadSome(p) \/ ReadToEnd(p) \/ ReadNothing(p) \/ ReadTrimmed(p)
           \/ Checkpoint(p) \/ MarkComplete(p) \/ Fails(p)
  <2>1. EngineMove(p)
    BY <1>2, EngineMoves
  <2>2. overlapped' = overlapped
    BY <1>2, AroundKept DEF DescribePage, Snapshot, SchedulerDescribe, Acquire, Claim, ReadSome,
         ReadToEnd, Batch, ReadNothing, ReadTrimmed, Checkpoint, MarkComplete, Fails
  <2>3. QED
    BY <2>1, <2>2 DEF EngineMove, EngineGoto, Up, Down, EnginePC, EngineInv
<1>3. QED
  BY <1>1, <1>2 DEF Step

\* A worker that ends with Ok leaves nothing behind.
EndsDrained ==
  \A p \in Processes : pc[p] # "ok" /\ pc'[p] = "ok" /\ ~overlapped => Listed \subseteq FinishedShards

\* One process at a time, action by action.
LEMMA SoloStep ==
  ASSUME EngineInv, SoloInv, [Next]_vars
  PROVE  SoloInv' /\ EndsDrained
<1>1. ASSUME NEW s \in Shards, Write(s) \/ Reshard(s) \/ Trim(s)
      PROVE  SoloInv' /\ EndsDrained
  <2>1. UNCHANGED <<pc, engine, overlapped>>
    BY <1>1 DEF Write, Reshard, Trim, setupVars
  <2>2. OneUp' /\ EndsDrained
    BY <2>1 DEF SoloInv, OneUp, Up, Down, EndsDrained
  <2>3. QED
    BY <1>1, <2>1, <2>2, ServiceSolo DEF SoloInv
<1>2. ASSUME UNCHANGED <<pc, engine, overlapped, stream, listing, done, k, finished>>
      PROVE  SoloInv' /\ EndsDrained
  <2>1. OneUp' /\ EndsDrained
    BY <1>2 DEF SoloInv, OneUp, Up, Down, EndsDrained
  <2>2. \A p \in Processes : Solo(p) => Solo(p)'
    BY <1>2 DEF Solo, Snapped, Listed, FinishedShards
  <2>3. QED
    BY <1>2, <2>1, <2>2 DEF SoloInv
<1>3. ASSUME NEW p \in Processes, Step(p) \/ Fails(p)
      PROVE  SoloInv' /\ EndsDrained
  <2>1. /\ Up(p) /\ UNCHANGED <<engine, overlapped>>
        /\ \A q \in Processes : q # p => pc'[q] = pc[q]
    BY <1>3, UpMoves
  <2>2. OneUp'
    <3>1. \A q \in Processes : Up(q)' => Up(q)
      BY <2>1 DEF Up, Down
    <3>2. QED
      BY <2>1, <3>1 DEF SoloInv, OneUp
  <2>3. ASSUME NEW q \in Processes, q # p, ~overlapped
        PROVE  Solo(q)'
    <3>1. CASE engine = "fleet"
      <4>1. pc'[q] \in SetupPC
        BY <2>1, <2>3, <3>1 DEF EngineInv, PassInv
      <4>2. QED
        BY <4>1 DEF Solo, Work, SetupPC
    <3>2. CASE engine # "fleet"
      <4>1. ~Up(q)
        BY <2>1, <2>3, <3>2 DEF SoloInv, OneUp
      <4>2. pc'[q] \in {"off", "ok", "failed"}
        BY <2>1, <2>3, <4>1 DEF Up, Down
      <4>3. QED
        BY <4>2 DEF Solo, Work
    <3>3. QED
      BY <3>1, <3>2
  <2>4. ~overlapped => Solo(p)' /\ OkDrained(p)
    <3>1. SUFFICES ASSUME ~overlapped PROVE Solo(p)' /\ OkDrained(p)
      OBVIOUS
    <3>2. Solo(p)
      BY <3>1 DEF SoloInv
    <3>3. CASE EnsureTable(p)
      <4>1. pc[p] \in SetupPC \/ pc[p] \in EnginePC
        BY DEF EngineInv
      <4>2. pc[p] \in {"look", "create", "wait", "pitr"}
        BY <3>3 DEF EnsureTable, Describe, CreateTable, CreateRefused, CreateFails, WaitActive, WaitFails,
                    UpdateContinuousBackups, BackupsUnavailable, BackupsFail, At
      <4>3. pc'[p] \in SetupPC
        BY <3>3, <4>2, SetupMoves DEF SetupMove, SetupPC
      <4>4. QED
        BY <4>3 DEF Solo, Work, SetupPC, OkDrained
    <3>4. CASE DescribePage(p)
      BY <3>4, DescribeSolo
    <3>5. CASE Snapshot(p)
      BY <3>2, <3>5, SnapshotSolo
    <3>6. CASE SchedulerDescribe(p)
      BY <3>6, SchedulerDescribeSolo
    <3>7. CASE Acquire(p) \/ Claim(p) \/ ReadSome(p) \/ ReadToEnd(p) \/ Checkpoint(p)
      BY <3>2, <3>7, ShardSolo
    <3>8. CASE ReadNothing(p) \/ ReadTrimmed(p) \/ MarkComplete(p) \/ Fails(p)
      BY <3>2, <3>8, NextSolo
    <3>9. QED
      BY <1>3, <3>3, <3>4, <3>5, <3>6, <3>7, <3>8 DEF Step
  <2>5. EndsDrained
    BY <2>1, <2>4 DEF EndsDrained, OkDrained
  <2>6. QED
    BY <2>1, <2>2, <2>3, <2>4, <2>5 DEF SoloInv
<1>4. ASSUME NEW p \in Processes, WorkerLaunch(p) \/ SchedulerLaunch(p) \/ FrontEndLaunch(p)
      PROVE  SoloInv' /\ EndsDrained
  <2>1. engine' = engine /\ pc \in [Processes -> SetupPC \cup EnginePC]
    BY <1>4 DEF WorkerLaunch, SchedulerLaunch, FrontEndLaunch, EngineInv
  <2>2. /\ pc'[p] \in SetupPC /\ \A q \in Processes : q # p => pc'[q] = pc[q]
    <3>1. \/ pc' = [pc EXCEPT ![p] = "look"] \/ pc' = [pc EXCEPT ![p] = "ready"]
          \/ pc' = [pc EXCEPT ![p] = "failed"]
      BY <1>4 DEF WorkerLaunch, SchedulerLaunch, FrontEndLaunch, Starting, SidecarLaunch, ClientLaunch,
                  Launch, LaunchFails, Goto
    <3>2. QED
      BY <2>1, <3>1 DEF SetupPC
  <2>3. engine # "fleet" /\ ~overlapped' => ~overlapped /\ \A q \in Processes : q # p => ~Up(q)
    BY <1>4 DEF WorkerLaunch, SchedulerLaunch, FrontEndLaunch, Overlap, Up
  <2>4. OneUp'
    <3>1. \A q \in Processes : q # p => (Up(q)' <=> Up(q))
      BY <2>2 DEF Up, Down
    <3>2. QED
      BY <2>1, <2>3, <3>1 DEF OneUp
  <2>5. ASSUME NEW q \in Processes, ~overlapped'
        PROVE  Solo(q)'
    <3>1. pc'[q] \in SetupPC \cup {"ok"}
      <4>1. CASE q = p
        BY <2>2, <4>1
      <4>2. CASE q # p /\ engine = "fleet"
        BY <2>2, <4>2 DEF EngineInv, PassInv
      <4>3. CASE q # p /\ engine # "fleet"
        BY <2>2, <2>3, <2>5, <4>3 DEF Up, Down, SetupPC
      <4>4. QED
        BY <4>1, <4>2, <4>3
    <3>2. QED
      BY <3>1 DEF Solo, Work, SetupPC
  <2>6. EndsDrained
    BY <2>2 DEF EndsDrained, SetupPC
  <2>7. QED
    BY <2>4, <2>5, <2>6 DEF SoloInv
<1>5. CASE TableActivates /\ UNCHANGED <<engine, service, rows, pass, handled, overlapped>>
  BY <1>2, <1>5 DEF TableActivates, service, rows, pass
<1>6. CASE UNCHANGED vars
  BY <1>2, <1>6 DEF vars, setupVars, service, rows, pass
<1>7. QED
  BY <1>1, <1>3, <1>4, <1>5, <1>6 DEF Next, Service

\* At first nobody is up.
LEMMA SoloBegins ==
  ASSUME Init
  PROVE  SoloInv
<1>1. pc = [p \in Processes |-> "off"]
  BY DEF Init, SetupInit
<1>2. QED
  BY <1>1 DEF SoloInv, OneUp, Up, Down, Solo, Work

-----------------------------------------------------------------------------
(* The lineage of what was described *)

\* close_open_parents keeps what is listed and closes the parents among it.
LEMMA CloseIs ==
  ASSUME NEW list \in Listings, NEW open
  PROVE  /\ DOMAIN Raw(list, open) = 1..Len(list)
         /\ DOMAIN CloseOpenParents(Raw(list, open)) = 1..Len(list)
         /\ \A x \in 1..Len(list) :
              /\ Raw(list, open)[x].parent = ParentOf[list[x]]
              /\ CloseOpenParents(Raw(list, open))[x].id = list[x]
              /\ CloseOpenParents(Raw(list, open))[x].open <=>
                   list[x] \in open /\ \A y \in 1..Len(list) : ParentOf[list[y]] # list[x]
<1> DEFINE raw == Raw(list, open)
           par == {raw[x].parent : x \in 1..Len(list)}
           normal == CloseOpenParents(raw)
<1>1. Len(list) \in Nat /\ DOMAIN list = 1..Len(list)
  BY ListingFacts
<1>2. raw = [i \in 1..Len(list) |->
                [id |-> list[i], parent |-> ParentOf[list[i]], open |-> list[i] \in open]]
  BY <1>1 DEF Raw
<1>3. DOMAIN raw = 1..Len(list) /\ \A x \in 1..Len(list) :
        /\ raw[x] = [id |-> list[x], parent |-> ParentOf[list[x]], open |-> list[x] \in open]
        /\ raw[x].id = list[x] /\ raw[x].parent = ParentOf[list[x]]
        /\ raw[x].open = (list[x] \in open)
  BY <1>2
<1> HIDE DEF raw
<1>4. normal = [i \in 1..Len(list) |-> [raw[i] EXCEPT !.open = raw[i].open /\ raw[i].id \notin par]]
  BY <1>3 DEF CloseOpenParents
<1> HIDE DEF normal
<1>5. ASSUME NEW x \in 1..Len(list)
      PROVE  /\ normal[x].id = list[x]
             /\ normal[x].open <=> list[x] \in open /\ \A y \in 1..Len(list) : ParentOf[list[y]] # list[x]
  <2>1. normal[x] = [raw[x] EXCEPT !.open = raw[x].open /\ raw[x].id \notin par]
    BY <1>4
  <2>2. raw[x].id \notin par <=> \A y \in 1..Len(list) : ParentOf[list[y]] # list[x]
    BY <1>3
  <2> HIDE DEF par
  <2>3. normal[x].id = raw[x].id /\ normal[x].open = (raw[x].open /\ raw[x].id \notin par)
    BY <1>3, <2>1
  <2>4. QED
    BY <1>3, <2>2, <2>3
<1>6. QED
  BY <1>3, <1>4, <1>5 DEF raw, normal

\* The lineage of every listing a describe can end with.
LEMMA LineageHolds ==
  ASSUME EngineInv
  PROVE  LineageAgrees
<1> SUFFICES ASSUME NEW p \in Processes, NEW late \in SUBSET {s \in Shards : stream[s] # "open"},
                    At(p, "snap")
             PROVE  LET raw == Raw(listing[p], late \cup {s \in Shards : stream[s] = "open"})
                        normal == CloseOpenParents(raw) IN
                    /\ \A i \in 0..Len(raw) : \A j \in 1..i + 1 :
                         LET known == SubSeq(raw, 1, i)
                             rest == SubSeq(raw, j, Len(raw)) IN
                         /\ BuildShardGraph(<<known, rest>>) = Graph(p)
                         /\ MergeChildShards(BuildShardGraph(<<known>>), rest) = Graph(p)
                    /\ \A e \in ToSet(normal) :
                         /\ e.open => \A f \in ToSet(raw) : f.parent # e.id
                         /\ ~e.open => stream[e.id] # "open"
  BY DEF LineageAgrees
<1> DEFINE list == listing[p]
           open == late \cup {s \in Shards : stream[s] = "open"}
           raw == Raw(list, open)
           normal == CloseOpenParents(raw)
<1>1. list \in Listings /\ NoneLeftOut(list)
  BY DEF EngineInv, PassTypes, PassInv
<1>2. Graph(p) = Lineage(list)
  BY <1>1, GraphIs DEF Graph
<1>3. Reports(raw, list)
  <2> HIDE DEF open, list
  <2>1. QED
    BY <1>1, RawReports
<1>4. ASSUME NEW i \in 0..Len(raw), NEW j \in 1..(i + 1)
      PROVE  /\ BuildShardGraph(<<SubSeq(raw, 1, i), SubSeq(raw, j, Len(raw))>>) = Graph(p)
             /\ MergeChildShards(BuildShardGraph(<<SubSeq(raw, 1, i)>>), SubSeq(raw, j, Len(raw))) = Graph(p)
  <2> HIDE DEF raw, list
  <2>1. QED
    BY <1>1, <1>2, <1>3, TwoPages, Merged
<1>5. /\ DOMAIN raw = 1..Len(list) /\ DOMAIN normal = 1..Len(list)
      /\ \A x \in 1..Len(list) :
           /\ raw[x].parent = ParentOf[list[x]]
           /\ normal[x].id = list[x]
           /\ normal[x].open <=> list[x] \in open /\ \A y \in 1..Len(list) : ParentOf[list[y]] # list[x]
  <2> HIDE DEF open, list
  <2>1. QED
    BY <1>1, CloseIs
<1>6. ASSUME NEW e \in ToSet(normal)
      PROVE  /\ e.open => \A f \in ToSet(raw) : f.parent # e.id
             /\ ~e.open => stream[e.id] # "open"
  <2> HIDE DEF list, raw, normal, open
  <2>1. PICK x \in 1..Len(list) : e = normal[x]
    BY <1>5 DEF ToSet
  <2>2. \A f \in ToSet(raw) : \E y \in 1..Len(list) : f.parent = ParentOf[list[y]]
    BY <1>5 DEF ToSet
  <2>3. e.open => \A f \in ToSet(raw) : f.parent # e.id
    BY <1>5, <2>1, <2>2
  <2>4. ASSUME ~e.open
        PROVE  stream[e.id] # "open"
    <3>1. e.id = list[x] /\ list[x] \in Shards
      BY <1>1, <1>5, <2>1, ListingFacts
    <3>2. CASE list[x] \notin open
      BY <3>1, <3>2 DEF open
    <3>3. ASSUME NEW y \in 1..Len(list), ParentOf[list[y]] = list[x]
          PROVE  stream[list[x]] # "open"
      <4>1. list[y] \in Shards /\ ParentOf[list[y]] # NoShard
        BY <1>1, <3>1, <3>3, ListingFacts, LineageAssumption
      <4>2. stream[list[y]] # "future"
        BY <1>1 DEF NoneLeftOut
      <4>3. QED
        BY <3>3, <4>1, <4>2 DEF EngineInv, ShardInv, StreamInOrder
    <3>4. QED
      BY <1>5, <2>1, <2>4, <3>1, <3>2, <3>3
  <2>5. QED
    BY <2>3, <2>4
<1>7. QED
  BY <1>4, <1>6

-----------------------------------------------------------------------------
(* The promise of ShardLog *)

\* The initial states map to the initial state of ShardLog.
LEMMA LogBegins ==
  ASSUME Init
  PROVE  Log!Init
<1>1. /\ stream = [s \in Shards |-> IF ParentOf[s] = NoShard THEN "open" ELSE "future"]
      /\ written = [s \in Shards |-> 0] /\ durable = [s \in Shards |-> 0]
      /\ finished = [s \in Shards |-> FALSE] /\ handled = [s \in Shards |-> {}]
  BY DEF Init
<1>2. [s \in Shards |-> stream[s] \in {"closed", "trimmed"}] = [s \in Shards |-> FALSE]
  <2>1. \A s \in Shards : (stream[s] \in {"closed", "trimmed"}) = FALSE
    BY <1>1
  <2>2. QED
    BY <2>1
<1>3. QED
  BY <1>1, <1>2 DEF Log!Init

\* What ShardLog does not see.
LEMMA LogStutters ==
  ASSUME UNCHANGED <<stream, written, durable, finished, handled>>
  PROVE  UNCHANGED Log!vars
BY DEF Log!vars

\* A batch is more of the prefix, or nothing new.
LEMMA BatchLogs ==
  ASSUME EngineInv, NEW p \in Processes, ReadSome(p) \/ ReadToEnd(p)
  PROVE  [Log!Next]_(Log!vars)
<1>1. pc[p] = "read" /\ pc[p] \in Work
  BY DEF ReadSome, ReadToEnd, At, Work
<1>2. PICK s \in Shards : s = Cur(p)
  BY <1>1, CurIs
<1>3. PICK h \in 0..written[s] :
         handled[s] = 1..h /\ After(p) \in 0..h /\ h \in Nat /\ written[s] \in 0..LastSeq
  BY <1>1, <1>2, AfterIs
<1>4. written[s] \in Nat /\ LastSeq \in Nat
  BY <1>3, LineageAssumption
<1>5. PICK n \in After(p)..written[s] : \E end : Batch(p, n, end)
  <2>1. CASE ReadSome(p)
    <3>1. PICK n \in After(p) + 1..written[s] : Batch(p, n, FALSE)
      BY <1>2, <2>1 DEF ReadSome
    <3>2. n \in After(p)..written[s]
      BY <1>3, <1>4
    <3>3. QED
      BY <3>1, <3>2
  <2>2. CASE ReadToEnd(p)
    <3>1. Batch(p, written[s], TRUE)
      BY <1>2, <2>2 DEF ReadToEnd
    <3>2. written[s] \in After(p)..written[s]
      BY <1>3, <1>4
    <3>3. QED
      BY <3>1, <3>2
  <2>3. QED
    BY <2>1, <2>2
<1>6. /\ UNCHANGED <<stream, written, durable, finished>>
      /\ handled' = [handled EXCEPT ![s] = @ \cup After(p) + 1..n]
  BY <1>2, <1>5, AroundKept DEF Batch, rows
<1>7. handled \in [Shards -> SUBSET (1..LastSeq)]
  BY DEF EngineInv, RowTypes
<1>8. CASE n <= h
  <2>1. handled[s] \cup After(p) + 1..n = handled[s]
    BY <1>3, <1>4, <1>8
  <2>2. handled' = handled
    BY <1>6, <1>7, <2>1
  <2>3. QED
    BY <1>6, <2>2, LogStutters
<1>9. CASE ~(n <= h)
  <2>1. n \in 1..written[s] /\ handled[s] \subseteq 1..n /\ handled[s] \cup After(p) + 1..n = 1..n
    BY <1>3, <1>4, <1>9
  <2>2. handled' = [handled EXCEPT ![s] = 1..n]
    BY <1>6, <1>7, <2>1
  <2>3. UNCHANGED [q \in Shards |-> stream[q] \in {"closed", "trimmed"}]
    BY <1>6
  <2>4. Log!Handle(s)
    BY <1>6, <2>1, <2>2, <2>3 DEF Log!Handle
  <2>5. QED
    BY <2>4 DEF Log!Next
<1>10. QED
  BY <1>8, <1>9

\* Every step maps to a step of ShardLog, or to none.
LEMMA LogSteps ==
  ASSUME EngineInv, SoloInv, [Next]_vars
  PROVE  [Log!Next \/ overlapped]_(Log!vars)
<1> SUFFICES ASSUME ~overlapped
             PROVE  [Log!Next]_(Log!vars)
  OBVIOUS
<1> DEFINE closed == [q \in Shards |-> stream[q] \in {"closed", "trimmed"}]
<1>0. RowTypes /\ PassTypes /\ ShardInv
  BY DEF EngineInv
<1>1. ASSUME NEW s \in Shards, Write(s)
      PROVE  Log!Append(s)
  <2>1. stream[s] = "open" /\ written[s] < LastSeq
    <3>1. Room[s] \in 0..LastSeq /\ LastSeq \in Nat /\ written[s] \in 0..LastSeq
      BY <1>0, LineageAssumption DEF RowTypes
    <3>2. QED
      BY <1>1, <3>1 DEF Write
  <2>2. /\ UNCHANGED <<stream, durable, finished, handled>> /\ written' = [written EXCEPT ![s] = @ + 1]
    BY <1>1 DEF Write, rows
  <2>3. QED
    BY <2>1, <2>2 DEF Log!Append
<1>2. ASSUME NEW s \in Shards, Reshard(s)
      PROVE  Log!Close(s)
  <2>1. /\ UNCHANGED <<written, durable, finished, handled>> /\ stream[s] = "open"
        /\ stream' = [q \in Shards |-> IF q = s THEN "closed"
                                       ELSE IF ParentOf[q] = s THEN "open" ELSE stream[q]]
    BY <1>2 DEF Reshard, rows
  <2>2. \A q \in Shards : ParentOf[q] = s => stream[q] = "future"
    BY <1>0, <2>1, LineageAssumption DEF ShardInv, StreamInOrder
  <2>3. closed' = [closed EXCEPT ![s] = TRUE]
    <3>1. \A q \in Shards : q # s =>
            (stream'[q] \in {"closed", "trimmed"} <=> stream[q] \in {"closed", "trimmed"})
      BY <2>1, <2>2
    <3>2. stream'[s] \in {"closed", "trimmed"}
      BY <2>1
    <3>3. ASSUME NEW q \in Shards
          PROVE  closed'[q] = [closed EXCEPT ![s] = TRUE][q]
      <4>1. CASE q = s
        <5>1. closed'[q] = TRUE
          BY <3>2, <4>1
        <5>2. [closed EXCEPT ![s] = TRUE][q] = TRUE
          BY <4>1
        <5>3. QED
          BY <5>1, <5>2
      <4>2. CASE q # s
        <5>1. closed'[q] = closed[q]
          BY <3>1, <4>2
        <5>2. [closed EXCEPT ![s] = TRUE][q] = closed[q]
          BY <4>2
        <5>3. QED
          BY <5>1, <5>2
      <4>3. QED
        BY <4>1, <4>2
    <3>4. closed' = [q \in Shards |-> closed'[q]]
      OBVIOUS
    <3>5. QED
      BY <3>3, <3>4
  <2>4. QED
    BY <2>1, <2>3 DEF Log!Close
<1>3. ASSUME NEW s \in Shards, Trim(s)
      PROVE  UNCHANGED Log!vars
  <2>1. /\ UNCHANGED <<written, durable, finished, handled>> /\ stream[s] = "closed"
        /\ stream' = [stream EXCEPT ![s] = "trimmed"]
    BY <1>3 DEF Trim, rows
  <2>2. closed' = closed
    BY <1>0, <2>1 DEF RowTypes
  <2>3. QED
    BY <2>1, <2>2 DEF Log!vars
<1>4. ASSUME NEW p \in Processes, Checkpoint(p)
      PROVE  [Log!Next]_(Log!vars)
  <2>1. /\ UNCHANGED <<stream, written, finished, handled>> /\ pc[p] = "ckpt" /\ pc[p] \in Work
    BY <1>4, AroundKept DEF Checkpoint, At, Work
  <2>2. PICK s \in Shards : s = Cur(p)
    BY <2>1, CurIs
  <2>3. /\ ~finished[s] /\ pos[p] \in handled[s]
    <3>1. s = listing[p][k[p]] /\ AtShard(p, s) /\ Solo(p)
      BY <2>1, <2>2, CurIs DEF PassInv, SoloInv
    <3>2. QED
      BY <2>1, <3>1 DEF Solo, AtShard
  <2>4. durable' = durable \/ durable' = [durable EXCEPT ![s] = pos[p]]
    BY <1>4, <2>2 DEF Checkpoint
  <2>5. durable' # durable => Log!Persist(s)
    BY <2>1, <2>3, <2>4 DEF Log!Persist
  <2>6. QED
    BY <2>1, <2>5, LogStutters DEF Log!Next
<1>5. ASSUME NEW p \in Processes, MarkComplete(p)
      PROVE  [Log!Next]_(Log!vars)
  <2>1. /\ UNCHANGED <<stream, written, durable, handled>> /\ pc[p] = "finish" /\ pc[p] \in Work
    BY <1>5, AroundKept DEF MarkComplete, At, Work
  <2>2. PICK s \in Shards : s = Cur(p)
    BY <2>1, CurIs
  <2>3. Drained(s)
    <3>1. s = listing[p][k[p]] /\ AtShard(p, s)
      BY <2>1, <2>2, CurIs DEF PassInv
    <3>2. QED
      BY <2>1, <3>1 DEF AtShard
  <2>4. finished' = finished \/ finished' = [finished EXCEPT ![s] = TRUE]
    BY <1>5, <2>2 DEF MarkComplete
  <2>5. finished' # finished => Log!Finish(s)
    BY <2>1, <2>3, <2>4 DEF Log!Finish, Drained
  <2>6. QED
    BY <2>1, <2>5, LogStutters DEF Log!Next
<1>6. ASSUME UNCHANGED <<service, durable, finished, handled>>
      PROVE  UNCHANGED Log!vars
  BY <1>6, LogStutters DEF service
<1>7. ASSUME NEW p \in Processes,
             \/ DescribePage(p) \/ Snapshot(p) \/ SchedulerDescribe(p) \/ Acquire(p) \/ Claim(p)
             \/ ReadNothing(p) \/ ReadTrimmed(p) \/ Fails(p)
      PROVE  UNCHANGED Log!vars
  <2>1. UNCHANGED <<around, durable, finished, handled>>
    BY <1>7 DEF DescribePage, Snapshot, SchedulerDescribe, Acquire, Claim, ReadNothing, ReadTrimmed, Fails
  <2>2. QED
    BY <1>6, <2>1 DEF around
<1>8. ASSUME NEW p \in Processes, WorkerLaunch(p) \/ SchedulerLaunch(p) \/ FrontEndLaunch(p)
      PROVE  UNCHANGED Log!vars
  BY <1>6, <1>8 DEF WorkerLaunch, SchedulerLaunch, FrontEndLaunch, rows
<1>9. ASSUME UNCHANGED <<engine, service, rows, pass, handled, overlapped>>
      PROVE  UNCHANGED Log!vars
  BY <1>6, <1>9 DEF rows
<1> HIDE DEF closed
<1>10. ASSUME NEW p \in Processes, Step(p)
       PROVE  [Log!Next]_(Log!vars)
  BY <1>4, <1>5, <1>7, <1>9, <1>10, BatchLogs DEF Step
<1>11. ASSUME NEW s \in Shards, Write(s) \/ Reshard(s) \/ Trim(s)
       PROVE  [Log!Next]_(Log!vars)
  BY <1>1, <1>2, <1>3, <1>11 DEF Log!Next
<1>12. CASE UNCHANGED vars
  BY <1>9, <1>12 DEF vars
<1>13. QED
  BY <1>7, <1>8, <1>9, <1>10, <1>11, <1>12 DEF Next, Service

-----------------------------------------------------------------------------
(* The theorems about the engines *)

\* The engines' invariant: whatever is in the table, in a pass or in a torn listing
\* agrees with what was read of the stream.
THEOREM EnginesSafe == Spec => [](SetupInv /\ Counters /\ EngineInv)
<1>1. Init => Counters
  BY SetupAssumption DEF Init, SetupInit, Counters
<1>2. Init => EngineInv
  BY EngineBegins
<1>3. SetupInv' => pc' \in [Processes -> SetupPC \cup EnginePC]
  BY DEF SetupInv
<1>4. Counters /\ [Next]_vars => Counters'
  BY CountersStep
<1>5. SetupInv' /\ EngineInv /\ [Next]_vars => EngineInv'
  BY <1>3, EngineStep
<1>6. QED
  BY <1>1, <1>2, <1>4, <1>5, SetupSafe, PTL DEF Spec

\* A child is never begun before its parent is done (worker/src/lib.rs:325,
\* core/src/lib.rs:243), for any lineage, any number of overlapping workers, snapshots
\* of any age and listings torn anywhere by reshards and by the retention.
THEOREM ParentsFirst == Spec => []ParentFirst
<1>1. EngineInv => ParentFirst
  BY DEF EngineInv, ShardInv
<1>2. QED
  BY <1>1, EnginesSafe, PTL

\* The lease table tells the truth (checkpoint and mark_complete, worker/src/lib.rs):
\* whoever wrote a row, and however many races and crashes later, what it says was
\* handled was handled.
THEOREM RowsTrue == Spec => []RowsTellTheTruth
<1>1. SetupInv /\ Counters => SetupTypeOK
  BY DEF SetupInv, Counters, SetupTypeOK, Tables
<1>2. SetupInv /\ Counters /\ EngineInv => TypeOK
  BY <1>1 DEF EngineInv, RowTypes, PassTypes, PassInv, TypeOK
<1>3. EngineInv => \A s \in Shards :
                     /\ durable[s] \in handled[s] \cup {0}
                     /\ finished[s] => stream[s] \in {"closed", "trimmed"} /\ handled[s] = 1..written[s]
  BY DEF EngineInv, ShardInv, HandledPrefix, Drained
<1>4. SetupInv /\ Counters /\ EngineInv => RowsTellTheTruth
  BY <1>2, <1>3 DEF RowsTellTheTruth
<1>5. QED
  BY <1>4, EnginesSafe, PTL

\* The lineage (build_shard_graph, merge_child_shards and close_open_parents of
\* source-ddbstreams/src/lib.rs) is the same wherever the pages are cut and whatever they
\* repeat, on the full and on the incremental path, for a listing of any length.
THEOREM LineagesAgree == Spec => []LineageAgrees
<1>1. EngineInv => LineageAgrees
  BY LineageHolds
<1>2. QED
  BY <1>1, EnginesSafe, PTL

\* What is known of the only process holds throughout.
LEMMA AlwaysSolo == Spec => []SoloInv
<1>1. Init => SoloInv
  BY SoloBegins
<1>2. EngineInv /\ SoloInv /\ [Next]_vars => SoloInv'
  BY SoloStep
<1>3. QED
  BY <1>1, <1>2, EnginesSafe, PTL DEF Spec

\* run returns Ok only when every shard's lease is complete (worker/src/lib.rs:239),
\* unless two workers overlapped: neither a stale snapshot, a reshard during the
\* describe nor a pass that found nothing eligible ends it early.
THEOREM OkIsDrained == Spec => OkMeansDrained
<1>1. EngineInv /\ SoloInv /\ [Next]_vars =>
        [\A p \in Processes : pc[p] # "ok" /\ pc'[p] = "ok" /\ ~overlapped
           => Listed \subseteq FinishedShards]_vars
  BY SoloStep DEF EndsDrained
<1>2. QED
  BY <1>1, EnginesSafe, AlwaysSolo, PTL DEF Spec, OkMeansDrained

\* Either engine, one process after another, implements ShardLog (in order, without a
\* gap, checkpoint within what was handled, complete shards left alone), over crashes at
\* every point and restarts from TRIM_HORIZON.
THEOREM LogUntilOverlap == Spec => ImplementsUntilOverlap
<1>1. Init => Log!Init
  BY LogBegins
<1>2. EngineInv /\ SoloInv /\ [Next]_vars => [Log!Next \/ overlapped]_(Log!vars)
  BY LogSteps
<1>3. QED
  BY <1>1, <1>2, EnginesSafe, AlwaysSolo, PTL DEF Spec, ImplementsUntilOverlap
=============================================================================
