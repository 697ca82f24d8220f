----------------------------- MODULE ShardGraph -----------------------------
(***************************************************************************)
(* From DescribeStream to lineage: the pure half of                        *)
(* source-ddbstreams/src/lib.rs.  A listing is a sequence of shards as the *)
(* service reports them, [id, parent, open], the parent NoShard when the   *)
(* shard has none; a graph is a sequence of [id, parents], as the engines  *)
(* consume it.                                                             *)
(***************************************************************************)
EXTENDS Integers, SequencesExt

CONSTANT NoShard

Ids(seq) == {seq[i].id : i \in DOMAIN seq}

\* is_open and close_open_parents: a shard that looks open and is somebody's parent
\* has ended.
CloseOpenParents(shards) ==
  LET parents == {shards[i].parent : i \in DOMAIN shards}
  IN [i \in DOMAIN shards |-> [shards[i] EXCEPT !.open = @ /\ shards[i].id \notin parents]]

\* parents_of: a parent that is not present was trimmed, and gates nothing.
ParentsOf(s, present) == {s.parent} \cap present

Meta(s, present) == [id |-> s.id, parents |-> ParentsOf(s, present)]

\* The first sight of every shard, in order, of those that were not seen before.
FirstSights(shards, seen) ==
  FoldLeft(LAMBDA new, s : IF s.id \in seen \cup Ids(new) THEN new ELSE Append(new, s),
           <<>>, shards)

\* The lineage of every shard, given the shards that are present.
Metas(shards, present) == [i \in DOMAIN shards |-> Meta(shards[i], present)]

\* build_shard_graph
BuildShardGraph(pages) ==
  LET shards == FirstSights(FlattenSeq(pages), {}) IN Metas(shards, Ids(shards))

\* Mutant: only shards that were known before count as parents.
MergeChildShardsKnown(existing, discovered) ==
  existing \o Metas(FirstSights(discovered, Ids(existing)), Ids(existing))

\* merge_child_shards: what a CHILD_SHARDS lookup found, appended to a known graph.
MergeChildShards(existing, discovered) ==
  existing \o Metas(FirstSights(discovered, Ids(existing)), Ids(existing) \cup Ids(discovered))
=============================================================================
