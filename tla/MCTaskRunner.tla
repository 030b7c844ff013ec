---------------------------- MODULE MCTaskRunner ----------------------------
(* Instances of TaskRunner for TLC.                                         *)
EXTENDS TaskRunner

\* A channel with room for all tasks, one that runs full, and one that is replaced.
AllUsages ==
    {[capacity |-> 4, provide |-> FALSE], [capacity |-> 2, provide |-> FALSE],
     [capacity |-> 2, provide |-> TRUE]}
=============================================================================
