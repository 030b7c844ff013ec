------------------------------ MODULE MCKernel ------------------------------
(* Instances of Kernel for TLC: a foreground module in the first stage, a     *)
(* foreground module and an essential background module in the second.      *)
EXTENDS Kernel, TLC

CONSTANTS m1, m2, m3

Placed == (m1 :> 1) @@ (m2 :> 2) @@ (m3 :> 2)

\* An error and a cancellation meet in the second stage.
Ends == (m1 :> {"nil", "goexit"}) @@ (m2 :> {"nil", "err"}) @@ (m3 :> {"nil", "canceled"})
=============================================================================
