-------------------------- MODULE LeadershipProofs ---------------------------
(***************************************************************************)
(* At most one worker holds the sentinel per counter value: the proof.     *)
(*                                                                         *)
(* A won bid writes the counter after the one in the table, which by       *)
(* HeldWasWritten nobody holds yet, and tells the winner the counter after *)
(* the one it scanned.  The two are the same because the write was         *)
(* conditioned on the scanned counter, or, for a create, because the       *)
(* scanned row did not exist (CreatesFromVacant) and still does not.       *)
(***************************************************************************)
EXTENDS Leadership, TLAPS

\* What a successful write leaves in the table and in the winner's hands.
LEMMA WonCounter ==
  ASSUME Inv, NEW w \in Workers, Wins(w), sentinel.counter < MaxCounter
  PROVE  /\ look[w].counter = sentinel.counter
         /\ sentinel.counter + 1 \in 0..MaxCounter
         /\ Taken(w) \in Sentinel
<1>1. sentinel.counter \in 0..MaxCounter /\ look[w].counter \in 0..MaxCounter
      /\ MaxCounter \in Nat
  BY LeadershipAssumption DEF Inv, TypeOK, Sentinel
<1>2. sentinel.counter + 1 \in 0..MaxCounter
  BY <1>1
<1>3. Taken(w) \in Sentinel
  BY <1>2 DEF Taken, Sentinel
<1>4. look[w].counter = sentinel.counter
  BY DEF Wins, Inv, CreatesFromVacant
<1> QED BY <1>2, <1>3, <1>4

\* The coordinator's entry after a tick is an entry.
LEMMA TickedType ==
  ASSUME TypeOK, NEW w \in Workers
  PROVE  Ticked(w, sentinel) \in [who : Workers \cup {NoOwner}, age : 0..Old]
<1>1. 0 \in 0..Old
  BY LeadershipAssumption DEF Old
<1>2. sentinel.owner \in Workers \cup {NoOwner}
  BY DEF TypeOK, Sentinel
<1>3. clock[w] \in [who : Workers \cup {NoOwner}, age : 0..Old]
  BY DEF TypeOK
<1> QED BY <1>1, <1>2, <1>3 DEF Ticked, NoClock

\* The initial states satisfy the invariant.
LEMMA InitInv == Init => Inv
<1> SUFFICES ASSUME Init PROVE Inv
  OBVIOUS
<1>1. Vacant \in Sentinel
  BY LeadershipAssumption DEF Vacant, Sentinel
<1>2. NoClock \in [who : Workers \cup {NoOwner}, age : 0..Old]
  BY LeadershipAssumption DEF NoClock, Old
<1>3. TypeOK
  BY <1>1, <1>2, LeadershipAssumption DEF Init, TypeOK
<1>4. CreatesFromVacant /\ HeldWasWritten /\ OneLeaderPerEpoch
  BY DEF Init, CreatesFromVacant, HeldWasWritten, OneLeaderPerEpoch, Vacant
<1> QED BY <1>3, <1>4 DEF Inv

\* A scan: only the scanning worker's view and its next move change.
LEMMA ScanInv == ASSUME Inv, NEW w \in Workers, Scan(w) PROVE Inv'
<1>1. TypeOK'
  <2>1. Ticked(w, sentinel) \in [who : Workers \cup {NoOwner}, age : 0..Old]
    BY TickedType DEF Inv
  <2>2. Chosen(w, sentinel) \in {"renew", "create", "steal", "none"}
    BY DEF Chosen
  <2>3. Period \in 0..Period
    BY LeadershipAssumption
  <2> QED BY <2>1, <2>2, <2>3 DEF Inv, TypeOK, Scan
<1>2. CreatesFromVacant'
  <2> SUFFICES ASSUME NEW v \in Workers, move'[v] = "create" PROVE look'[v].counter = 0
    BY DEF CreatesFromVacant
  <2>1. CASE v = w
    BY <2>1 DEF Scan, Chosen, Inv, TypeOK
  <2>2. CASE v # w
    BY <2>2 DEF Scan, Inv, TypeOK, CreatesFromVacant
  <2> QED BY <2>1, <2>2
<1>3. HeldWasWritten' /\ OneLeaderPerEpoch'
  BY DEF Inv, Scan, HeldWasWritten, OneLeaderPerEpoch
<1> QED BY <1>1, <1>2, <1>3 DEF Inv

\* A won bid: the new counter is one nobody held.
LEMMA BidWonInv == ASSUME Inv, NEW w \in Workers, BidWon(w) PROVE Inv'
<1> DEFINE c == sentinel.counter
<1>1. /\ look[w].counter = c /\ c + 1 \in 0..MaxCounter /\ c \in 0..MaxCounter
      /\ MaxCounter \in Nat /\ Taken(w) \in Sentinel
  BY WonCounter, LeadershipAssumption DEF BidWon, Inv, TypeOK, Sentinel
<1>2. sentinel' = Taken(w) /\ sentinel'.counter = c + 1 /\ sentinel'.owner = w
  BY DEF BidWon, Taken
<1>3. held' = [held EXCEPT ![w] = c + 1] /\ held \in [Workers -> 0..MaxCounter]
  BY <1>1 DEF BidWon, Inv, TypeOK
<1>4. TypeOK'
  BY <1>1, <1>2, <1>3 DEF Inv, TypeOK, BidWon
<1>5. CreatesFromVacant'
  BY DEF Inv, BidWon, CreatesFromVacant
<1>6. \A v \in Workers \ {w} : held'[v] = held[v] /\ held[v] <= c /\ held[v] \in 0..MaxCounter
  BY <1>3 DEF Inv, HeldWasWritten
<1>7. held'[w] = c + 1
  BY <1>3
<1> HIDE DEF c
<1>8. HeldWasWritten'
  BY <1>1, <1>2, <1>6, <1>7 DEF HeldWasWritten
<1>9. OneLeaderPerEpoch'
  <2> SUFFICES ASSUME NEW v \in Workers, held'[v] # 0
               PROVE  /\ held'[v] = sentinel'.counter => sentinel'.owner = v
                      /\ \A u \in Workers \ {v} : held'[u] # held'[v]
    BY DEF OneLeaderPerEpoch
  <2>1. CASE v = w
    BY <2>1, <1>1, <1>2, <1>6, <1>7
  <2>2. CASE v # w
    <3>1. held'[v] # c + 1 /\ held'[v] = held[v]
      BY <2>2, <1>1, <1>6
    <3>2. ASSUME NEW u \in Workers \ {v} PROVE held'[u] # held'[v]
      <4>1. CASE u = w
        BY <4>1, <3>1, <1>7
      <4>2. CASE u # w
        BY <4>2, <3>1, <2>2, <1>6 DEF Inv, OneLeaderPerEpoch
      <4> QED BY <4>1, <4>2
    <3> QED BY <3>1, <3>2, <1>2
  <2> QED BY <2>1, <2>2
<1> QED BY <1>4, <1>5, <1>8, <1>9 DEF Inv

\* A bid whose reply was lost moves the counter, and nobody holds it.
LEMMA BidFaultInv == ASSUME Inv, NEW w \in Workers, BidFault(w) PROVE Inv'
<1>1. UNCHANGED <<look, move, clock, held, wait, stops>>
  BY DEF BidFault
<1>2. faults' \in 0..MaxFaults
  BY LeadershipAssumption DEF BidFault, Inv, TypeOK
<1>3. sentinel' \in Sentinel
      /\ (sentinel' = sentinel \/ (sentinel'.counter = sentinel.counter + 1))
  <2>1. CASE UNCHANGED sentinel
    BY <2>1 DEF Inv, TypeOK
  <2>2. CASE Wins(w) /\ sentinel.counter < MaxCounter /\ sentinel' = Taken(w)
    BY <2>2, WonCounter DEF Taken
  <2> QED BY <2>1, <2>2 DEF BidFault
<1>4. TypeOK'
  BY <1>1, <1>2, <1>3 DEF Inv, TypeOK, BidFault
<1>5. CreatesFromVacant'
  BY <1>1 DEF Inv, CreatesFromVacant
<1>6. sentinel.counter \in Nat /\ \A v \in Workers : held[v] \in Nat /\ held[v] <= sentinel.counter
  BY DEF Inv, TypeOK, Sentinel, HeldWasWritten
<1>7. HeldWasWritten'
  BY <1>1, <1>3, <1>6 DEF HeldWasWritten
<1>8. OneLeaderPerEpoch'
  <2>1. CASE sentinel' = sentinel
    BY <2>1, <1>1 DEF Inv, OneLeaderPerEpoch
  <2>2. CASE sentinel'.counter = sentinel.counter + 1
    <3>1. \A v \in Workers : held[v] # sentinel'.counter
      BY <2>2, <1>6
    <3> QED BY <3>1, <1>1 DEF Inv, OneLeaderPerEpoch
  <2> QED BY <1>3, <2>1, <2>2
<1> QED BY <1>4, <1>5, <1>7, <1>8 DEF Inv

\* The steps that only move a worker through its cycle.
LEMMA ReturnInv ==
  ASSUME Inv, NEW w \in Workers, BidLost(w) \/ SyncEnds(w) \/ Restart(w) PROVE Inv'
<1>1. UNCHANGED <<sentinel, look, move, clock, held, stops, faults>>
  BY DEF BidLost, SyncEnds, Restart
<1>2. pc' = [pc EXCEPT ![w] = "idle"] /\ (wait' = wait \/ wait' = [wait EXCEPT ![w] = Period])
  BY DEF BidLost, SyncEnds, Restart
<1>3. Period \in 0..Period
  BY LeadershipAssumption
<1>4. TypeOK'
  BY <1>1, <1>2, <1>3 DEF Inv, TypeOK
<1> QED BY <1>1, <1>4 DEF Inv, CreatesFromVacant, HeldWasWritten, OneLeaderPerEpoch

\* Going down leaves every variable in its type.
LEMMA DownType == ASSUME TypeOK, NEW w \in Workers, Down(w)
  PROVE  /\ look' \in [Workers -> Sentinel]
         /\ move' \in [Workers -> {"renew", "create", "steal", "none"}]
         /\ clock' \in [Workers -> [who : Workers \cup {NoOwner}, age : 0..Old]]
         /\ held' \in [Workers -> 0..MaxCounter]
         /\ pc' \in [Workers -> {"idle", "bid", "lead", "release", "down"}]
<1>1. Vacant \in Sentinel /\ NoClock \in [who : Workers \cup {NoOwner}, age : 0..Old]
      /\ 0 \in 0..MaxCounter
  BY LeadershipAssumption DEF Vacant, Sentinel, NoClock, Old
<1> QED BY <1>1 DEF TypeOK, Down

\* A crash gives up whatever was held.
LEMMA CrashInv == ASSUME Inv, NEW w \in Workers, Crash(w) PROVE Inv'
<1>1. Down(w) /\ UNCHANGED <<sentinel, wait, faults>>
  BY DEF Crash
<1>2. stops' \in 0..MaxStops
  BY LeadershipAssumption DEF Crash, Inv, TypeOK
<1>3. TypeOK'
  BY <1>1, <1>2, DownType DEF Inv, TypeOK
<1>4. held' = [held EXCEPT ![w] = 0] /\ held \in [Workers -> 0..MaxCounter]
  BY <1>1 DEF Down, Inv, TypeOK
<1>5. CreatesFromVacant'
  BY <1>1 DEF Inv, TypeOK, Down, CreatesFromVacant
<1>6. 0 <= sentinel.counter
  BY DEF Inv, TypeOK, Sentinel
<1>7. HeldWasWritten' /\ OneLeaderPerEpoch'
  BY <1>1, <1>4, <1>6 DEF Inv, HeldWasWritten, OneLeaderPerEpoch
<1> QED BY <1>3, <1>5, <1>7 DEF Inv

\* The scan of a graceful stop.
LEMMA StopInv == ASSUME Inv, NEW w \in Workers, Stop(w) PROVE Inv'
<1>1. stops' \in 0..MaxStops
  BY LeadershipAssumption DEF Stop, Inv, TypeOK
<1>2. TypeOK'
  BY <1>1 DEF Stop, Inv, TypeOK
<1>3. CreatesFromVacant'
  BY DEF Inv, TypeOK, Stop, CreatesFromVacant
<1>4. HeldWasWritten' /\ OneLeaderPerEpoch'
  BY DEF Inv, Stop, HeldWasWritten, OneLeaderPerEpoch
<1> QED BY <1>2, <1>3, <1>4 DEF Inv

\* A release moves the counter past every held one.
LEMMA ReleaseInv == ASSUME Inv, NEW w \in Workers, Release(w) PROVE Inv'
<1>1. Down(w) /\ UNCHANGED <<wait, stops, faults>>
  BY DEF Release
<1>2. sentinel.counter \in 0..MaxCounter /\ MaxCounter \in Nat /\ sentinel.counter < MaxCounter
  BY LeadershipAssumption DEF Release, Inv, TypeOK, Sentinel
<1>3. sentinel.counter + 1 \in 0..MaxCounter
  BY <1>2
<1>4. /\ sentinel' \in Sentinel
      /\ sentinel' = sentinel \/ sentinel'.counter = sentinel.counter + 1
  BY <1>3 DEF Release, Inv, TypeOK, Sentinel
<1>5. TypeOK'
  BY <1>1, <1>4, DownType DEF Inv, TypeOK
<1>6. held' = [held EXCEPT ![w] = 0] /\ held \in [Workers -> 0..MaxCounter]
  BY <1>1 DEF Down, Inv, TypeOK
<1>7. CreatesFromVacant'
  BY <1>1 DEF Inv, TypeOK, Down, CreatesFromVacant
<1>8. \A v \in Workers : held'[v] \in Nat /\ held'[v] <= sentinel.counter
                         /\ (held'[v] = held[v] \/ held'[v] = 0)
  BY <1>2, <1>6 DEF Inv, HeldWasWritten
<1>9. HeldWasWritten'
  BY <1>2, <1>4, <1>8 DEF HeldWasWritten
<1>10. OneLeaderPerEpoch'
  <2>1. CASE sentinel' = sentinel
    BY <2>1, <1>8 DEF Inv, OneLeaderPerEpoch
  <2>2. CASE sentinel'.counter = sentinel.counter + 1
    <3>1. \A v \in Workers : held'[v] # sentinel'.counter
      BY <2>2, <1>2, <1>8
    <3> QED BY <3>1, <1>8 DEF Inv, OneLeaderPerEpoch
  <2> QED BY <1>4, <2>1, <2>2
<1> QED BY <1>5, <1>7, <1>9, <1>10 DEF Inv

\* Time only touches the clocks.
LEMMA ElapseInv == ASSUME Inv, Elapse PROVE Inv'
<1>1. wait' \in [Workers -> 0..Period]
  <2> SUFFICES ASSUME NEW w \in Workers
               PROVE  (IF w \in Alive THEN wait[w] - 1 ELSE wait[w]) \in 0..Period
    BY DEF Elapse
  <2>1. wait[w] \in 0..Period /\ Period \in Nat /\ (w \in Alive => wait[w] > 0)
    BY LeadershipAssumption DEF Inv, TypeOK, Elapse
  <2> QED BY <2>1
<1>2. clock' \in [Workers -> [who : Workers \cup {NoOwner}, age : 0..Old]]
  <2> SUFFICES ASSUME NEW w \in Workers
               PROVE  (IF clock[w].who = NoOwner \/ clock[w].age = Old THEN clock[w]
                       ELSE [clock[w] EXCEPT !.age = @ + 1])
                      \in [who : Workers \cup {NoOwner}, age : 0..Old]
    BY DEF Elapse
  <2>1. clock[w] \in [who : Workers \cup {NoOwner}, age : 0..Old] /\ Old \in Nat
    BY LeadershipAssumption DEF Inv, TypeOK, Old
  <2>2. clock[w].age # Old => clock[w].age + 1 \in 0..Old
    BY <2>1
  <2> QED BY <2>1, <2>2
<1>3. TypeOK'
  BY <1>1, <1>2 DEF Inv, TypeOK, Elapse
<1> QED BY <1>3 DEF Inv, Elapse, CreatesFromVacant, HeldWasWritten, OneLeaderPerEpoch

\* Every step preserves the invariant.
LEMMA StepInv == Inv /\ [Next]_vars => Inv'
<1> SUFFICES ASSUME Inv, [Next]_vars PROVE Inv'
  OBVIOUS
<1>1. CASE UNCHANGED vars
  BY <1>1 DEF vars, Inv, TypeOK, Sentinel, CreatesFromVacant, HeldWasWritten, OneLeaderPerEpoch
<1>2. ASSUME NEW w \in Workers, CycleStep(w) PROVE Inv'
  BY <1>2, ScanInv, BidWonInv, ReturnInv, ReleaseInv DEF CycleStep
<1>3. ASSUME NEW w \in Workers, BidFault(w) PROVE Inv'
  BY <1>3, BidFaultInv
<1>4. ASSUME NEW w \in Workers, Crash(w) PROVE Inv'
  BY <1>4, CrashInv
<1>5. ASSUME NEW w \in Workers, Restart(w) PROVE Inv'
  BY <1>5, ReturnInv
<1>6. CASE Elapse
  BY <1>6, ElapseInv
<1>7. ASSUME NEW w \in Workers, Stop(w) PROVE Inv'
  BY <1>7, StopInv
<1> QED BY <1>1, <1>2, <1>3, <1>4, <1>5, <1>6, <1>7 DEF Next

\* Leadership epochs are unique for any number of workers, any lease duration and
\* any number of faults and stops: create-if-absent, the renewal and the steal
\* of Leadership::step together never let two workers hold the same counter.
THEOREM UniqueEpochs == Spec => []OneLeaderPerEpoch
<1>1. Init => Inv
  BY InitInv
<1>2. Inv /\ [Next]_vars => Inv'
  BY StepInv
<1>3. Inv => OneLeaderPerEpoch
  BY DEF Inv
<1> QED BY <1>1, <1>2, <1>3, PTL DEF Spec
=============================================================================
