--------------------------- MODULE MCStreamSource ----------------------------
(* Small instances of StreamSource for TLC, without symmetry: they check      *)
(* liveness.                                                                  *)
EXTENDS StreamSource
=============================================================================
