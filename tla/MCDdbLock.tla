----------------------------- MODULE MCDdbLock -----------------------------
(* Instances of DdbLock for TLC: two ticks to the second, so that expiries   *)
(* fall within a second.                                                    *)
EXTENDS DdbLock, TLC

Symmetric == Permutations(Clients)
=============================================================================
