---------------------------- MODULE MCLeadership ----------------------------
(* Small instances of Leadership for TLC, without symmetry: they check liveness. *)
EXTENDS Leadership
=============================================================================
