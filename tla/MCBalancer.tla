----------------------------- MODULE MCBalancer -----------------------------
(* Small instances of Balancer for TLC; keys are numbers, which taker.rs sorts. *)
EXTENDS Balancer
=============================================================================
