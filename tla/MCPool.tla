------------------------------- MODULE MCPool --------------------------------
(* Small instances of Pool for TLC, without symmetry: they check liveness. *)
EXTENDS Pool
=============================================================================
