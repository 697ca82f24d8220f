----------------------------- MODULE TableSetup -----------------------------
(***************************************************************************)
(* The start of a process: its settings, and ensure_table of               *)
(* lease-dynamodb/src/dynamodb.rs call by call, for processes that start   *)
(* at any time, fail, and are started again.  What a process does once it  *)
(* is "ready" is another module's subject.                                 *)
(*                                                                         *)
(* Every front end calls ensure_table: the sidecar with the table options  *)
(* of its environment, the Rust client and a hand-made worker with the     *)
(* defaults.  A table may also have been made by its user.                 *)
(***************************************************************************)
EXTENDS Integers

CONSTANTS
  Processes,
  User,          \* who made a table that was there before
  MaxAttempts,   \* retries of UpdateContinuousBackups (12 in the code)
  MaxStarts,     \* bound on starts of all processes together
  MaxFaults      \* bound on service errors

ASSUME SetupAssumption ==
  /\ User \notin Processes
  /\ MaxAttempts \in Nat /\ MaxStarts \in Nat /\ MaxFaults \in Nat

VARIABLES
  table,     \* the lease table: status, billing, PITR, and who made it (history)
  pc,        \* pc[p]: where process p is
  config,    \* config[p]: p's LeaseTableConfig
  created,   \* created[p]: !exists, p makes the table
  attempt,   \* attempt[p]: retries so far
  starts, faults

setup == <<config, created, attempt>>
setupVars == <<table, pc, setup, starts, faults>>

-----------------------------------------------------------------------------
\* LeaseTableConfig::default
DefaultConfig == [billing |-> "on-demand", pitr |-> FALSE]

\* The table options the sidecar reads from its environment; whatever is not
\* PROVISIONED is on-demand, and PITR needs a yes.
EnvConfig(mode, flag) ==
  [billing |-> IF mode = "PROVISIONED" THEN "provisioned" ELSE "on-demand",
   pitr |-> flag \in {"1", "true", "yes", "on"}]

EnvConfigs == {EnvConfig(env[1], env[2]) : env \in {"", "PROVISIONED"} \X {"", "true"}}

Absent == [status |-> "absent", billing |-> "on-demand", pitr |-> FALSE, by |-> User]

SetupPC == {"off", "look", "create", "wait", "pitr", "ready", "failed"}
Billing == {"on-demand", "provisioned"}

SetupTypeOK ==
  /\ table \in [status : {"absent", "creating", "active"}, billing : Billing,
                pitr : BOOLEAN, by : Processes \cup {User}]
  /\ config \in [Processes -> [billing : Billing, pitr : BOOLEAN]]
  /\ created \in [Processes -> BOOLEAN] /\ attempt \in [Processes -> 0..MaxAttempts]
  /\ starts \in 0..MaxStarts /\ faults \in 0..MaxFaults

SetupInit ==
  /\ table \in {Absent, [Absent EXCEPT !.status = "active"]}
  /\ pc = [p \in Processes |-> "off"]
  /\ config = [p \in Processes |-> DefaultConfig]
  /\ created = [p \in Processes |-> FALSE] /\ attempt = [p \in Processes |-> 0]
  /\ starts = 0 /\ faults = 0

-----------------------------------------------------------------------------
At(p, l) == pc[p] = l
Goto(p, l) == pc' = [pc EXCEPT ![p] = l]
NoFault == UNCHANGED faults
Fault == faults < MaxFaults /\ faults' = faults + 1

\* The start-up is over: its variables go back to their initial values.
Leave(p, l) ==
  /\ Goto(p, l)
  /\ config' = [config EXCEPT ![p] = DefaultConfig]
  /\ created' = [created EXCEPT ![p] = FALSE]
  /\ attempt' = [attempt EXCEPT ![p] = 0]

Down(p) == pc[p] \in {"off", "ok", "failed"}

\* main of the sidecar, or build of the Rust client with its default options.
Launch(p, c) ==
  /\ Down(p) /\ starts < MaxStarts
  /\ starts' = starts + 1
  /\ Goto(p, "look")
  /\ config' = [config EXCEPT ![p] = c]
  /\ UNCHANGED <<table, created, attempt, faults>>

SidecarLaunch(p) == \E c \in EnvConfigs : Launch(p, c)
ClientLaunch(p) == Launch(p, DefaultConfig)

\* A required setting is missing: the process ends before its first call.
LaunchFails(p) ==
  /\ Down(p) /\ starts < MaxStarts
  /\ starts' = starts + 1
  /\ Goto(p, "failed")
  /\ UNCHANGED <<table, setup, faults>>

-----------------------------------------------------------------------------
(* ensure_table *)

\* DescribeTable, of which only is_ok() is used: a failed call looks like a table
\* that is not there.
Describe(p) ==
  /\ At(p, "look")
  /\ \E error \in BOOLEAN :
       /\ IF error THEN Fault ELSE NoFault
       /\ LET exists == ~error /\ table.status # "absent" IN
            /\ created' = [created EXCEPT ![p] = ~exists]
            /\ Goto(p, IF exists THEN "wait" ELSE "create")
  /\ UNCHANGED <<table, config, attempt, starts>>

NewTable(p) ==
  [status |-> "creating", billing |-> config[p].billing, pitr |-> FALSE, by |-> p]

CreateTable(p) ==
  /\ At(p, "create") /\ table.status = "absent"
  /\ table' = NewTable(p)
  /\ Goto(p, "wait")
  /\ UNCHANGED <<setup, starts, faults>>

\* ResourceInUseException: somebody else made it since, or it was there all along.
CreateRefused(p) ==
  /\ At(p, "create") /\ table.status # "absent"
  /\ Leave(p, "failed")
  /\ UNCHANGED <<table, starts, faults>>

\* Any other error; the table may have been created all the same.
CreateFails(p) ==
  /\ At(p, "create") /\ Fault
  /\ table' \in IF table.status = "absent" THEN {table, NewTable(p)} ELSE {table}
  /\ Leave(p, "failed")
  /\ UNCHANGED starts

\* Mutant: PITR is switched on whenever it was asked for.
AfterActiveAny(p) == IF config[p].pitr THEN "pitr" ELSE "ready"

AfterActive(p) == IF created[p] /\ config[p].pitr THEN "pitr" ELSE "ready"

\* The poll that finds the table ACTIVE (the others change nothing).
WaitActive(p) ==
  /\ At(p, "wait") /\ table.status = "active"
  /\ IF AfterActive(p) = "pitr" THEN Goto(p, "pitr") /\ UNCHANGED setup ELSE Leave(p, "ready")
  /\ UNCHANGED <<table, starts, faults>>

WaitFails(p) ==
  /\ At(p, "wait") /\ Fault
  /\ Leave(p, "failed")
  /\ UNCHANGED <<table, starts>>

UpdateContinuousBackups(p) ==
  /\ At(p, "pitr")
  /\ table' = [table EXCEPT !.pitr = TRUE]
  /\ Leave(p, "ready")
  /\ UNCHANGED <<starts, faults>>

\* ContinuousBackupsUnavailableException: try again, so many times.
BackupsUnavailable(p) ==
  /\ At(p, "pitr")
  /\ IF attempt[p] < MaxAttempts
     THEN /\ attempt' = [attempt EXCEPT ![p] = @ + 1]
          /\ UNCHANGED <<pc, config, created>>
     ELSE Leave(p, "failed")
  /\ UNCHANGED <<table, starts, faults>>

BackupsFail(p) ==
  /\ At(p, "pitr") /\ Fault
  /\ Leave(p, "failed")
  /\ UNCHANGED <<table, starts>>

\* The service.
TableActivates ==
  /\ table.status = "creating"
  /\ table' = [table EXCEPT !.status = "active"]
  /\ UNCHANGED <<pc, setup, starts, faults>>

-----------------------------------------------------------------------------
Starting(p) == SidecarLaunch(p) \/ ClientLaunch(p) \/ LaunchFails(p)

EnsureTable(p) ==
  \/ Describe(p) \/ CreateTable(p) \/ CreateRefused(p) \/ CreateFails(p)
  \/ WaitActive(p) \/ WaitFails(p)
  \/ UpdateContinuousBackups(p) \/ BackupsUnavailable(p) \/ BackupsFail(p)

-----------------------------------------------------------------------------
(* Correctness *)

\* "never mutate a pre-existing, user-managed table", dynamodb.rs:164: a table of
\* the user keeps its settings, however often describe failed or starts raced.
ForeignUntouched == table.by = User => table.billing = "on-demand" /\ ~table.pitr
=============================================================================
