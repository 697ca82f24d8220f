---------------------------- MODULE MCSidecarIpc ----------------------------
(* Small instances of SidecarIpc for TLC, without symmetry: they check liveness. *)
EXTENDS SidecarIpc
=============================================================================
