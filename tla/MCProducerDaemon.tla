------------------------- MODULE MCProducerDaemon -------------------------
(* Instances of ProducerDaemon for TLC.                                     *)
EXTENDS ProducerDaemon

\* Small messages of which two, or one, fit an aggregate, and one that fills an
\* aggregate and a batch.
TwoBuckets ==
    {[size |-> 1, bucket |-> 1], [size |-> 4, bucket |-> 2], [size |-> 19, bucket |-> 1]}
=============================================================================
