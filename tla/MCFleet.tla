------------------------------ MODULE MCFleet -------------------------------
(* Small instances of Fleet for TLC. *)
EXTENDS Fleet, TLC

Symmetry == Permutations(Workers)
=============================================================================
