---------------------------- MODULE MCStandalone ----------------------------
(* Standalone with a shard and its successor. *)
EXTENDS Standalone

MCShards == 1..2
MCParentOf == <<NoShard, 1>>
MCRoom == <<2, 1>>
=============================================================================
