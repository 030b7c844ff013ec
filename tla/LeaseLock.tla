----------------------------- MODULE LeaseLock -----------------------------
(***************************************************************************)
(* What a distributed lock promises (pkg/conc/distributed_lock.go): a lease *)
(* of bounded length that one client has at a time.  It may be renewed or   *)
(* given up, and it runs out by itself.                                     *)
(***************************************************************************)
EXTENDS Integers

CONSTANTS
    Clients,
    MaxLease  \* the longest lease, in ticks

VARIABLE left  \* what is left of the lease of each client, 0 if it has none

Init == left = [c \in Clients |-> 0]

Acquire(c) ==
    /\ \A d \in Clients : left[d] = 0
    /\ \E n \in 1..MaxLease : left' = [left EXCEPT ![c] = n]

\* The new lease may be shorter than what was left of the old one.
Renew(c) ==
    /\ left[c] > 0
    /\ \E n \in 1..MaxLease : left' = [left EXCEPT ![c] = n]

\* Release, a crash, or an answer that took longer than the lease it granted.
GiveUp(c) == left[c] > 0 /\ left' = [left EXCEPT ![c] = 0]

Less(n) == IF n = 0 THEN 0 ELSE n - 1

TimePasses == left' = [c \in Clients |-> Less(left[c])]

Next == TimePasses \/ \E c \in Clients : Acquire(c) \/ Renew(c) \/ GiveUp(c)

Spec == Init /\ [][Next]_left
=============================================================================
