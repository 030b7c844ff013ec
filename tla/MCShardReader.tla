--------------------------- MODULE MCShardReader ---------------------------
(* Instances of ShardReader for TLC.                                        *)
EXTENDS ShardReader
=============================================================================
