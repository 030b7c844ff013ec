-------------------------- MODULE MCKafkaConsumer --------------------------
(* Instances of KafkaConsumer for TLC: two records in one partition, which    *)
(* may come in one batch, and one in the other.                             *)
EXTENDS KafkaConsumer, TLC

CONSTANTS p1, p2

TwoAndOne == (p1 :> 2) @@ (p2 :> 1)
=============================================================================
