----------------------------- MODULE LeaseTaker -----------------------------
(***************************************************************************)
(* compute_leases_to_take of core/src/taker.rs as an operator.  A snapshot *)
(* maps each lease key to its owner, whether that owner is expired, and    *)
(* whether the shard is complete.  Keys are integers in lease_key order.   *)
(* max_by_key over a HashMap leaves open which of several most-loaded      *)
(* workers is the victim, so the result is the set of possible answers.    *)
(***************************************************************************)
EXTENDS Integers, FiniteSets

CONSTANT NoOwner

LOCAL Min2(m, n) == IF m < n THEN m ELSE n

\* The first n keys of K in lease_key order.
FirstKeys(K, n) == {k \in K : Cardinality({j \in K : j < k}) < n}

Active(snap) == {k \in DOMAIN snap : ~snap[k].completed}

\* The leases w holds while it is not expired.
Held(snap, w) == {k \in Active(snap) : snap[k].owner = w /\ ~snap[k].expired}

\* Owners of leases that have not expired, and the worker itself.
LiveWorkers(snap, me) ==
  {me} \cup {snap[k].owner : k \in {j \in Active(snap) : ~snap[j].expired /\ snap[j].owner # NoOwner}}

\* total.div_ceil(workers)
FairShare(snap, me) ==
  LET n == Cardinality(LiveWorkers(snap, me)) IN (Cardinality(Active(snap)) + n - 1) \div n

\* Mutant: an expired owner's leases are left to it.
AvailableUnowned(snap, me) == {k \in Active(snap) : snap[k].owner = NoOwner}

Available(snap, me) ==
  {k \in Active(snap) : snap[k].owner # me /\ (snap[k].owner = NoOwner \/ snap[k].expired)}

MostLoaded(snap, me) ==
  {v \in LiveWorkers(snap, me) \ {me} :
     \A u \in LiveWorkers(snap, me) \ {me} :
        Cardinality(Held(snap, u)) <= Cardinality(Held(snap, v))}

\* Mutant: nothing is stolen from a worker that is up.
StealableNone(snap, me, v) == 0

\* Mutant: the victim's own share is not left to it.
StealableAll(snap, me, v) == Cardinality(Held(snap, v))

\* Leases above its share that v can spare.
Stealable(snap, me, v) ==
  LET extra == Cardinality(Held(snap, v)) - FairShare(snap, me) IN IF extra > 0 THEN extra ELSE 0

\* Available leases first, then the most-loaded worker's surplus, up to the
\* worker's share and the cap.
LeasesToTake(snap, me, cap) ==
  LET short == FairShare(snap, me) - Cardinality(Held(snap, me))
      room == Min2(IF short > 0 THEN short ELSE 0, cap)
      free == FirstKeys(Available(snap, me), room)
      more == room - Cardinality(free)
      from(v) == FirstKeys(Held(snap, v), Min2(more, Stealable(snap, me, v)))
  IN IF more = 0 \/ MostLoaded(snap, me) = {} THEN {free}
     ELSE {free \cup from(v) : v \in MostLoaded(snap, me)}
=============================================================================
