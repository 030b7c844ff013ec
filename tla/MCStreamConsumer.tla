------------------------- MODULE MCStreamConsumer -------------------------
(* Instances of the consumers for TLC: an aggregate of two units and a       *)
(* message with one, with the settings to look at.                          *)
EXTENDS BatchConsumer

SomeAggregates == {<<1, 2>>}
One == {CHOOSE r \in Runners : TRUE}
Consuming(native, mode, runners) ==
    [native |-> native, mode |-> mode, aggregated |-> TRUE, batch |-> FALSE, runners |-> runners]
Batching(native, aggregated) ==
    [native |-> native, mode |-> "atMostOnce", aggregated |-> aggregated, batch |-> TRUE, runners |-> One]
\* Consumers on a queue whose aggregates are acknowledged first, and on an input that
\* cannot redeliver; batch consumers on such inputs.
Usual ==
    {Consuming(TRUE, "atMostOnce", Runners), Consuming(FALSE, "atLeastOnce", One),
     Batching(TRUE, FALSE), Batching(FALSE, TRUE)}
\* A queue whose aggregates are acknowledged last.
QueueAtLeastOnce == {Consuming(TRUE, "atLeastOnce", Runners)}
=============================================================================
