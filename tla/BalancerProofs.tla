--------------------------- MODULE BalancerProofs ---------------------------
(***************************************************************************)
(* Balancer for any number of workers and leases: the types, and that no   *)
(* tick takes a live worker whose heartbeat got through for dead, as long  *)
(* as cycles are no further apart than a lease lasts.                      *)
(***************************************************************************)
EXTENDS Balancer, TLAPS

\* What observer w has counted against v: v's counter moved and the next scan shows
\* it; or it may be missed, but until v's last cycle v was on time; or w has caught
\* up, and has counted no more than the time since v's last cycle began.
Observed(w, v) ==
  \/ v \in beating /\ v \in shown[w]
  \/ v \in beating /\ v \in news[w] /\ age[w][v] <= Period
  \/ v \in beating /\ age[w][v] <= Period - wait[v]
  \/ v \notin beating /\ age[w][v] = Unseen

\* v's heartbeat since the clock moved is still news to w, or w has just seen it.
Recent(w, v) ==
  /\ v \in beating /\ wait[v] = Period
  /\ v \in news[w] \/ age[w][v] <= 0

\* A worker that neither completed a heartbeat nor failed at one owns nothing, wants
\* nothing and did not a moment ago.
NotBeating ==
  /\ was.beating \subseteq beating
  /\ \A v \in Workers \ (beating \cup missed) :
       /\ \A k \in Keys : owner[k] # v /\ was.owner[k] # v
       /\ pc[v] = "idle" /\ want[v] = {}

\* Only heartbeats there are move a counter, and only older ones do so for sure.
Heard ==
  /\ recent \subseteq beating
  /\ \A w \in Workers : news[w] \subseteq beating /\ shown[w] \subseteq news[w] \cap was.beating

AgeInv ==
  /\ TypeOK
  /\ NotBeating
  /\ Heard
  /\ \A w \in Workers, v \in alive : w # v /\ v \notin missed => Observed(w, v)
  /\ \A w \in Workers, v \in alive : w # v /\ v \in recent => Recent(w, v)

-----------------------------------------------------------------------------
\* compute_leases_to_take answers with leases of the snapshot.
LEMMA TakesFromSnapshot ==
  ASSUME NEW snap, NEW me, NEW cap, NEW take \in LeasesToTake(snap, me, cap)
  PROVE  take \subseteq DOMAIN snap
<1>1. \A K, n : FirstKeys(K, n) \subseteq K
  BY DEF FirstKeys
<1>2. /\ Available(snap, me) \subseteq DOMAIN snap
      /\ \A v : Held(snap, v) \subseteq DOMAIN snap
  BY DEF Available, Held, Active
<1>3. QED
  BY <1>1, <1>2 DEF LeasesToTake

\* What a scan may show.
LEMMA Scanned ==
  ASSUME TypeOK, NEW w \in Workers, NEW late, NEW scan \in Scans(w, late)
  PROVE  /\ \A k \in Keys : scan.owner[k] = owner[k] \/ scan.owner[k] = was.owner[k]
         /\ scan.beating = (beating \ late) \cup (was.beating \cap late)
         /\ scan.moved = (news[w] \ late) \cup shown[w]
  BY DEF Scans

LEMMA RefreshedType ==
  ASSUME TypeOK, NEW w \in Workers, NEW scan
  PROVE  /\ Refreshed(w, scan) \in [Workers -> Unseen..Old]
         /\ \A v \in Workers :
              \/ Refreshed(w, scan)[v] = 0
              \/ /\ Refreshed(w, scan)[v] = age[w][v]
                 /\ v \notin scan.beating \cap scan.moved
              \/ /\ Refreshed(w, scan)[v] = Unseen
                 /\ v \notin scan.beating
         /\ \A v \in Workers :
              (v # w /\ v \notin scan.beating /\ \A k \in Keys : scan.owner[k] # v)
                 => Refreshed(w, scan)[v] = Unseen
<1>1. Unseen = -1 /\ Old \in Nat /\ 0 \in Unseen..Old /\ Unseen \in Unseen..Old
  BY BalancerAssumption DEF Unseen, Old
<1>2. \A v \in Workers : age[w][v] \in Unseen..Old
  BY DEF TypeOK
<1>3. QED
  BY <1>1, <1>2 DEF Refreshed

\* What a tick of w does to what is observed.
LEMMA Ticked ==
  ASSUME TypeOK, NEW u \in Workers, Tick(u)
  PROVE  \E late \in SUBSET (recent \ {u}) :
         \E scan \in Scans(u, late) :
           /\ age' = [age EXCEPT ![u] = Refreshed(u, scan)]
           /\ news'[u] = late /\ news' \in [Workers -> SUBSET Workers]
           /\ want' \in [Workers -> SUBSET Keys]
           /\ \A v \in Workers \ {u} : want'[v] = want[v]
           /\ \/ /\ beating' = beating \cup {u} /\ recent' = recent \cup {u}
                 /\ \A v \in Workers \ {u} : news'[v] = news[v] \cup {u}
                 /\ missed' = missed /\ faults' = faults
              \/ /\ beating' = beating /\ recent' = recent
                 /\ \A v \in Workers \ {u} : news'[v] = news[v]
                 /\ missed' = missed \cup {u} /\ faults < MaxFaults /\ faults' = faults + 1
<1>1. PICK late \in SUBSET (recent \ {u}) :
        /\ Heartbeat(u, late) \/ HeartbeatFails(u, late)
        /\ \E scan \in Scans(u, late) :
             /\ age' = [age EXCEPT ![u] = Refreshed(u, scan)]
             /\ \E leases \in {Snapshot(u, scan, age'[u])} :
                  \E take \in LeasesToTake(leases, u, MaxLeases) :
                     want' = [want EXCEPT ![u] = take]
  BY DEF Tick
<1>2. PICK scan \in Scans(u, late) :
        /\ age' = [age EXCEPT ![u] = Refreshed(u, scan)]
        /\ \E take \in LeasesToTake(Snapshot(u, scan, age'[u]), u, MaxLeases) :
              want' = [want EXCEPT ![u] = take]
  BY <1>1
<1>3. PICK take \in LeasesToTake(Snapshot(u, scan, age'[u]), u, MaxLeases) :
        want' = [want EXCEPT ![u] = take]
  BY <1>2
<1>4. take \subseteq Keys
  BY TakesFromSnapshot DEF Snapshot
<1>5. want' \in [Workers -> SUBSET Keys] /\ \A v \in Workers \ {u} : want'[v] = want[v]
  BY <1>3, <1>4 DEF TypeOK
<1>6. CASE Heartbeat(u, late)
  <2>1. news'[u] = late /\ news' \in [Workers -> SUBSET Workers]
    BY <1>6 DEF Heartbeat, TypeOK
  <2>2. QED
    BY <1>2, <1>5, <1>6, <2>1 DEF Heartbeat
<1>7. CASE HeartbeatFails(u, late)
  <2>1. /\ news'[u] = late /\ news' \in [Workers -> SUBSET Workers]
        /\ \A v \in Workers \ {u} : news'[v] = news[v]
    BY <1>7 DEF HeartbeatFails, TypeOK
  <2>2. QED
    BY <1>2, <1>5, <1>7, <2>1 DEF HeartbeatFails
<1>8. QED
  BY <1>1, <1>6, <1>7

LEMMA TypeStep ==
  ASSUME TypeOK, [Next]_vars
  PROVE  TypeOK'
<1>1. ASSUME NEW w \in Workers, Tick(w)
      PROVE  TypeOK'
  <2>1. PICK late \in SUBSET (recent \ {w}) : \E scan \in Scans(w, late) :
           /\ age' = [age EXCEPT ![w] = Refreshed(w, scan)]
           /\ news' \in [Workers -> SUBSET Workers] /\ want' \in [Workers -> SUBSET Keys]
           /\ beating' \subseteq beating \cup {w} /\ recent' \subseteq recent \cup {w}
           /\ missed' \subseteq missed \cup {w}
           /\ faults' = faults \/ (faults < MaxFaults /\ faults' = faults + 1)
    BY <1>1, Ticked
  <2>2. age' \in [Workers -> [Workers -> Unseen..Old]]
    BY <2>1, RefreshedType DEF TypeOK
  <2>3. faults' \in 0..MaxFaults
    BY <2>1, BalancerAssumption DEF TypeOK
  <2>4. wait' \in [Workers -> 0..Period] /\ pc' \in [Workers -> {"idle", "take"}]
    BY <1>1, BalancerAssumption DEF Tick, TypeOK
  <2>5. shown' \in [Workers -> SUBSET Workers]
    BY <1>1 DEF Tick, TypeOK
  <2>6. UNCHANGED <<owner, completed, alive, was>>
    BY <1>1 DEF Tick, rows
  <2>7. beating' \in SUBSET Workers /\ recent' \in SUBSET Workers /\ missed' \in SUBSET Workers
    BY <2>1 DEF TypeOK
  <2>8. QED
    BY <2>1, <2>2, <2>3, <2>4, <2>5, <2>6, <2>7 DEF TypeOK
<1>2. ASSUME NEW w \in Workers, Work(w) \/ \E k \in Keys : Acquire(w, k)
      PROVE  TypeOK'
  <2>1. owner' \in [Keys -> Workers \cup {NoOwner}] /\ want' \in [Workers -> SUBSET Keys]
    <3>1. CASE Work(w)
      BY <3>1 DEF Work, TypeOK, rows
    <3>2. ASSUME NEW k \in Keys, Acquire(w, k)
          PROVE  owner' \in [Keys -> Workers \cup {NoOwner}] /\ want' \in [Workers -> SUBSET Keys]
      BY <3>2 DEF Acquire, TypeOK
    <3>3. QED
      BY <1>2, <3>1, <3>2
  <2>2. pc' \in [Workers -> {"idle", "take"}]
    BY <1>2 DEF Work, Acquire, TypeOK
  <2>3. QED
    BY <1>2, <2>1, <2>2 DEF Work, Acquire, TypeOK, rows, replica
<1>3. ASSUME NEW w \in Workers, Crash(w)
      PROVE  TypeOK'
  BY <1>3, BalancerAssumption DEF Crash, TypeOK, rows, replica
<1>4. ASSUME NEW k \in Keys, Complete(k)
      PROVE  TypeOK'
  BY <1>4 DEF Complete, TypeOK, replica
<1>5. CASE Elapse
  <2>1. wait' \in [Workers -> 0..Period]
    BY <1>5, BalancerAssumption DEF Elapse, TypeOK
  <2>2. age' \in [Workers -> [Workers -> Unseen..Old]]
    <3>1. ASSUME NEW w \in Workers, NEW v \in Workers
          PROVE  (IF age[w][v] \in {Unseen, Old} THEN age[w][v] ELSE age[w][v] + 1) \in Unseen..Old
      <4>1. age[w][v] \in Unseen..Old /\ Unseen = -1 /\ Old \in Nat
        BY BalancerAssumption DEF TypeOK, Unseen, Old
      <4>2. QED
        BY <4>1
    <3>2. QED
      BY <1>5, <3>1 DEF Elapse
  <2>3. QED
    BY <1>5, <2>1, <2>2 DEF Elapse, TypeOK, rows
<1>6. CASE UNCHANGED vars
  BY <1>6 DEF vars, TypeOK, rows, replica
<1>7. QED
  BY <1>1, <1>2, <1>3, <1>4, <1>5, <1>6 DEF Next, CycleStep

LEMMA HeardStep ==
  ASSUME AgeInv, [Next]_vars
  PROVE  NotBeating' /\ Heard'
<1>0. TypeOK /\ NotBeating /\ Heard
  BY DEF AgeInv
<1>1. ASSUME NEW w \in Workers, Tick(w)
      PROVE  NotBeating' /\ Heard'
  <2>1. /\ beating \subseteq beating' /\ missed \subseteq missed' /\ recent' \subseteq beating'
        /\ w \in beating' \cup missed' /\ news'[w] \subseteq beating'
        /\ \A v \in Workers \ {w} : /\ want'[v] = want[v] /\ news[v] \subseteq news'[v]
                                   /\ news'[v] \subseteq beating'
    <3>1. PICK late \in SUBSET (recent \ {w}) :
           /\ news'[w] = late
           /\ \A v \in Workers \ {w} : want'[v] = want[v]
           /\ \/ /\ beating' = beating \cup {w} /\ recent' = recent \cup {w}
                 /\ \A v \in Workers \ {w} : news'[v] = news[v] \cup {w}
                 /\ missed' = missed
              \/ /\ beating' = beating /\ recent' = recent
                 /\ \A v \in Workers \ {w} : news'[v] = news[v]
                 /\ missed' = missed \cup {w}
      BY <1>0, <1>1, Ticked
    <3>2. QED
      BY <1>0, <3>1 DEF Heard
  <2>2. /\ owner' = owner /\ was' = was /\ shown'[w] = {}
        /\ \A v \in Workers \ {w} : pc'[v] = pc[v] /\ shown'[v] = shown[v]
    BY <1>0, <1>1 DEF Tick, rows, TypeOK
  <2>3. NotBeating'
    BY <1>0, <2>1, <2>2 DEF NotBeating
  <2>4. QED
    BY <1>0, <2>1, <2>2, <2>3 DEF Heard
<1>2. ASSUME NEW w \in Workers, NEW k \in Keys, Acquire(w, k)
      PROVE  NotBeating'
  <2>1. /\ w \in beating \cup missed /\ beating' = beating /\ missed' = missed /\ pc' = pc
        /\ was' = was
        /\ \A v \in Workers : v # w => want'[v] = want[v]
        /\ \A q \in Keys : owner'[q] \in {owner[q], w}
    BY <1>0, <1>2 DEF Acquire, TypeOK, NotBeating, replica
  <2>2. QED
    BY <1>0, <2>1 DEF NotBeating
<1>3. ASSUME NEW w \in Workers, Work(w) \/ Crash(w)
      PROVE  NotBeating'
  <2>1. /\ UNCHANGED <<beating, missed, owner, was>>
        /\ \A v \in Workers : v # w => want'[v] = want[v] /\ pc'[v] = pc[v]
        /\ want'[w] = want[w] \/ want'[w] = {}
        /\ pc'[w] = pc[w] \/ pc'[w] = "idle"
    BY <1>0, <1>3 DEF Work, Crash, TypeOK, rows, replica
  <2>2. QED
    BY <1>0, <2>1 DEF NotBeating
<1>4. CASE (\E k \in Keys : Complete(k)) \/ UNCHANGED vars
  BY <1>0, <1>4 DEF Complete, vars, NotBeating, Heard, rows, replica
<1>5. CASE Elapse
  <2>1. /\ UNCHANGED <<owner, beating, pc, want, news>>
        /\ missed' = missed \ recent /\ recent' = {} /\ shown' = news
        /\ was'.owner = owner /\ was'.beating = beating
    BY <1>5 DEF Elapse, rows
  <2>2. QED
    BY <1>0, <2>1 DEF NotBeating, Heard
<1>6. ASSUME NEW w \in Workers, Work(w) \/ Crash(w) \/ \E k \in Keys : Acquire(w, k)
      PROVE  Heard'
  BY <1>0, <1>6 DEF Work, Crash, Acquire, replica, Heard
<1>7. QED
  BY <1>1, <1>2, <1>3, <1>4, <1>5, <1>6 DEF Next, CycleStep

LEMMA ObservedStep ==
  ASSUME AgeInv, [Next]_vars, NEW w \in Workers, NEW v \in alive', w # v
  PROVE  /\ v \notin missed' => Observed(w, v)'
         /\ v \in recent' => Recent(w, v)'
<1>0. /\ TypeOK /\ TypeOK' /\ NotBeating
      /\ v \in alive /\ v \in Workers
      /\ Heard
      /\ v \notin missed => Observed(w, v)
      /\ v \in recent => Recent(w, v)
      /\ age[w][v] \in Unseen..Old /\ wait[v] \in 0..Period /\ Period \in Nat \ {0}
      /\ Unseen = -1 /\ Old \in Nat
  <2>1. TypeOK /\ TypeOK' /\ NotBeating
    BY TypeStep DEF AgeInv
  <2>2. v \in alive
    BY DEF Next, CycleStep, Tick, Acquire, Work, Complete, Crash, Elapse, vars
  <2>3. QED
    BY <2>1, <2>2, BalancerAssumption DEF AgeInv, TypeOK, Unseen, Old
<1>1. ASSUME NEW u \in Workers, Tick(u)
      PROVE  /\ v \notin missed' => Observed(w, v)'
             /\ v \in recent' => Recent(w, v)'
  <2>1. PICK late \in SUBSET (recent \ {u}) : \E scan \in Scans(u, late) :
           /\ age' = [age EXCEPT ![u] = Refreshed(u, scan)]
           /\ news'[u] = late
           /\ \/ /\ beating' = beating \cup {u} /\ recent' = recent \cup {u}
                 /\ \A x \in Workers \ {u} : news'[x] = news[x] \cup {u}
                 /\ missed' = missed
              \/ /\ beating' = beating /\ recent' = recent
                 /\ \A x \in Workers \ {u} : news'[x] = news[x]
                 /\ missed' = missed \cup {u}
    BY <1>0, <1>1, Ticked
  <2>2. PICK scan \in Scans(u, late) : age' = [age EXCEPT ![u] = Refreshed(u, scan)]
    BY <2>1
  <2>3. /\ wait'[u] = Period /\ age'[u] = Refreshed(u, scan) /\ shown'[u] = {}
        /\ \A x \in Workers : x # u => wait'[x] = wait[x] /\ age'[x] = age[x] /\ shown'[x] = shown[x]
    BY <1>0, <1>1, <2>2 DEF Tick, TypeOK
  <2>4. CASE u = v
    <3>1. age'[w][v] = age[w][v] /\ wait'[v] = Period /\ shown'[w] = shown[w]
      BY <2>3, <2>4
    <3>2. CASE /\ beating' = beating \cup {u} /\ recent' = recent \cup {u}
               /\ \A x \in Workers \ {u} : news'[x] = news[x] \cup {u}
               /\ missed' = missed
      <4>1. v \in news'[w] /\ v \in beating'
        BY <2>4, <3>2
      <4>2. Recent(w, v)'
        BY <3>1, <4>1 DEF Recent
      <4>3. ASSUME v \notin missed PROVE Observed(w, v)'
        BY <1>0, <3>1, <4>1, <4>3 DEF Observed
      <4>4. QED
        BY <3>2, <4>2, <4>3
    <3>3. CASE /\ beating' = beating /\ recent' = recent
               /\ \A x \in Workers \ {u} : news'[x] = news[x]
               /\ missed' = missed \cup {u}
      BY <1>0, <2>4, <3>1, <3>3 DEF Recent
    <3>4. QED
      BY <2>1, <3>2, <3>3
  <2>5. CASE u # v /\ u # w
    <3>1. /\ age'[w][v] = age[w][v] /\ wait'[v] = wait[v] /\ shown'[w] = shown[w]
          /\ v \in news'[w] <=> v \in news[w]
          /\ v \in beating' <=> v \in beating
          /\ v \in missed' <=> v \in missed
          /\ v \in recent' <=> v \in recent
      BY <1>0, <2>1, <2>3, <2>5
    <3>2. QED
      BY <1>0, <3>1 DEF Observed, Recent
  <2>6. CASE u = w
    <3>1. /\ age'[w][v] = Refreshed(w, scan)[v] /\ wait'[v] = wait[v]
          /\ news'[w] = late
          /\ v \in beating' <=> v \in beating
          /\ v \in missed' <=> v \in missed
          /\ v \in recent' <=> v \in recent
      BY <1>0, <2>1, <2>3, <2>6
    <3>2. /\ \A k \in Keys : scan.owner[k] = owner[k] \/ scan.owner[k] = was.owner[k]
          /\ scan.beating = (beating \ late) \cup (was.beating \cap late)
          /\ scan.moved = (news[w] \ late) \cup shown[w]
      BY <1>0, <2>6, Scanned
    <3>3. /\ \/ age'[w][v] = 0
             \/ age'[w][v] = age[w][v] /\ v \notin scan.beating \cap scan.moved
             \/ age'[w][v] = Unseen /\ v \notin scan.beating
          /\ (v \notin scan.beating /\ \A k \in Keys : scan.owner[k] # v) => age'[w][v] = Unseen
      BY <1>0, <3>1, RefreshedType
    <3>4. late \subseteq recent
      BY <2>1
    <3>5. ASSUME v \in recent PROVE Recent(w, v)'
      <4>1. v \in beating /\ wait[v] = Period /\ (v \in news[w] \/ age[w][v] <= 0)
        BY <1>0, <3>5 DEF Recent
      <4>2. v \notin late => age'[w][v] <= 0
        BY <1>0, <3>2, <3>3, <4>1
      <4>3. QED
        BY <3>1, <4>1, <4>2 DEF Recent
    <3>6. ASSUME v \notin missed PROVE Observed(w, v)'
      <4>1. CASE v \notin beating
        <5>1. v \notin scan.beating /\ \A k \in Keys : scan.owner[k] # v
          BY <1>0, <3>2, <3>6, <4>1 DEF NotBeating
        <5>2. QED
          BY <3>1, <3>3, <4>1, <5>1 DEF Observed
      <4>2. CASE v \in beating /\ v \in late
        <5>1. age[w][v] <= Period \/ v \in shown[w]
          BY <1>0, <3>6, <4>2 DEF Observed
        <5>2. CASE v \in shown[w]
          <6>1. v \in scan.beating /\ v \in scan.moved
            BY <1>0, <3>2, <4>2, <5>2 DEF Heard
          <6>2. age'[w][v] = 0
            BY <3>3, <6>1
          <6>3. QED
            BY <1>0, <3>1, <4>2, <6>2 DEF Observed
        <5>3. CASE age[w][v] <= Period
          BY <1>0, <3>1, <3>3, <4>2, <5>3 DEF Observed
        <5>4. QED
          BY <5>1, <5>2, <5>3
      <4>3. CASE v \in beating /\ v \notin late
        BY <1>0, <3>1, <3>2, <3>3, <3>6, <4>3 DEF Observed
      <4>4. QED
        BY <4>1, <4>2, <4>3
    <3>7. QED
      BY <3>1, <3>5, <3>6
  <2>7. QED
    BY <2>4, <2>5, <2>6
<1>2. CASE Elapse
  <2>1. /\ wait[v] > 0 /\ wait'[v] = wait[v] - 1
        /\ age'[w][v] = IF age[w][v] \in {Unseen, Old} THEN age[w][v] ELSE age[w][v] + 1
        /\ UNCHANGED <<beating, news>>
        /\ shown' = news /\ recent' = {} /\ missed' = missed \ recent
    BY <1>0, <1>2 DEF Elapse
  <2>2. CASE v \in recent
    BY <1>0, <2>1, <2>2 DEF Observed, Recent, Heard
  <2>3. CASE v \notin recent
    BY <1>0, <2>1, <2>3 DEF Observed, Heard
  <2>4. QED
    BY <2>2, <2>3
<1>3. CASE UNCHANGED <<beating, news, age, wait, shown, recent, missed>>
  BY <1>0, <1>3 DEF Observed, Recent
<1>4. QED
  BY <1>1, <1>2, <1>3 DEF Next, CycleStep, Acquire, Work, Complete, Crash, vars, replica

-----------------------------------------------------------------------------
\* What an observer has counted against a worker that is alive, by its coordinator's
\* clock, stays within what the worker's own next cycle is bound by, however late
\* scans show the heartbeats.
THEOREM AgesBounded == Spec => []AgeInv
<1>1. Init => AgeInv
  <2>1. SUFFICES ASSUME Init PROVE AgeInv
    OBVIOUS
  <2>2. TypeOK
    <3>1. /\ Unseen \in Unseen..Old /\ Period \in 0..Period
          /\ 0 \in 0..MaxFaults
      BY BalancerAssumption DEF Unseen, Old
    <3>2. QED
      BY <2>1, <3>1 DEF Init, TypeOK
  <2>3. NotBeating
    BY <2>1, BalancerAssumption DEF Init, NotBeating
  <2>4. QED
    BY <2>1, <2>2, <2>3 DEF AgeInv, Init, Observed, Heard
<1>2. AgeInv /\ [Next]_vars => AgeInv'
  <2>1. SUFFICES ASSUME AgeInv, [Next]_vars PROVE AgeInv'
    OBVIOUS
  <2>2. TypeOK' /\ NotBeating' /\ Heard'
    BY <2>1, TypeStep, HeardStep DEF AgeInv
  <2>3. QED
    BY <2>1, <2>2, ObservedStep DEF AgeInv
<1>3. QED
  BY <1>1, <1>2, PTL DEF Spec

\* Every variable keeps its type: what the taker decides on are leases of the table,
\* and the ages an observer counts stay in their range.
THEOREM TypeCorrect == Spec => []TypeOK
<1>1. AgeInv => TypeOK
  BY DEF AgeInv
<1>2. QED
  BY <1>1, AgesBounded, PTL

\* "a live worker keeps ALL its shards", core/src/coordinator.rs:63: when a worker
\* begins its cycles no further apart than a lease lasts and gets its heartbeats
\* through, no tick of anyone takes it for dead, however many workers and leases there
\* are, whoever ticks when, and on scans that miss what was written since the clock
\* last moved.
THEOREM LiveKeepLeases ==
  ASSUME Period <= LeaseDuration
  PROVE  Spec => LiveNeverReaped
<1>1. AgeInv /\ [Next]_vars =>
        [\A w, v \in Workers :
           pc[w] = "idle" /\ pc'[w] = "take" /\ v \in alive \ missed
             => ~Expired(w, v, age'[w])]_vars
  <2>1. SUFFICES ASSUME AgeInv, Next, NEW w \in Workers, NEW v \in Workers,
                        pc[w] = "idle", pc'[w] = "take", v \in alive \ missed, v # w
                 PROVE  ~(age'[w][v] > LeaseDuration)
    BY DEF Expired
  <2>2. TypeOK
    BY <2>1 DEF AgeInv
  <2>3. Tick(w)
    <3>1. ASSUME NEW u \in Workers, Tick(u) PROVE u = w
      BY <2>1, <2>2, <3>1 DEF Tick, TypeOK
    <3>2. ASSUME NEW u \in Workers, Work(u) \/ Crash(u) \/ \E k \in Keys : Acquire(u, k)
          PROVE  FALSE
      BY <2>1, <2>2, <3>2 DEF Work, Crash, Acquire, TypeOK
    <3>3. ~(Elapse \/ \E k \in Keys : Complete(k))
      BY <2>1 DEF Elapse, Complete
    <3>4. QED
      BY <2>1, <3>1, <3>2, <3>3 DEF Next, CycleStep
  <2>4. v \in alive' /\ shown'[w] = {}
    BY <2>1, <2>2, <2>3 DEF Tick, TypeOK
  <2>5. v \notin missed'
    BY <2>1, <2>2, <2>3, Ticked
  <2>6. Observed(w, v)' /\ TypeOK'
    BY <2>1, <2>2, <2>4, <2>5, ObservedStep, TypeStep
  <2>7. wait'[v] \in 0..Period /\ age'[w][v] \in Unseen..Old
    BY <2>6 DEF TypeOK
  <2>8. QED
    BY <2>4, <2>6, <2>7, BalancerAssumption DEF Observed, Unseen, Old
<1>2. QED
  BY <1>1, AgesBounded, PTL DEF Spec, LiveNeverReaped
=============================================================================
