----------------------------- MODULE MCShardSync -----------------------------
(* Lineages of ShardSync for TLC: a rollover and a chain of two.               *)
EXTENDS ShardSync, TLC

CONSTANTS r, a, g

Rollover == (r :> {}) @@ (a :> {r})
Chain == (r :> {}) @@ (a :> {r}) @@ (g :> {a})

Symmetry == Permutations(Workers)
=============================================================================
