----------------------------- MODULE MCKinsumer -----------------------------
(* Instances of Kinsumer for TLC.                                           *)
EXTENDS Kinsumer

NoParents == [s \in Shards |-> None]
\* Shard 1 is split into 2 and 3.
SplitParent == [s \in Shards |-> IF s = 1 THEN None ELSE 1]
\* Shards 1 and 2 are merged into 3.
MergeParent == [s \in Shards |-> IF s = 3 THEN 1 ELSE None]
MergeAdjacent == [s \in Shards |-> IF s = 3 THEN 2 ELSE None]
=============================================================================
