------------------------------ MODULE DdbLock ------------------------------
(***************************************************************************)
(* The distributed lock on DynamoDB (pkg/conc/ddb): an item per locked      *)
(* resource with a token and a ttl in Unix seconds, conditional writes, and *)
(* a lock object that remembers when its lease expires.                     *)
(*                                                                         *)
(* Time is in ticks, Second ticks to the second.  The clock of a client is  *)
(* ahead of true time by its skew.  A call reads the clock, reaches         *)
(* DynamoDB later, and its answer may get lost after it was applied.        *)
(***************************************************************************)
EXTENDS Integers

CONSTANTS
    Clients, NoItem,
    Second,        \* ticks per second
    Margin,        \* seconds an item must be expired to count as deleted (5 in the code)
    LockTime,      \* defaultLockTime, in ticks
    RenewTime,     \* the duration callers pass to Renew, in ticks
    MaxSkew,       \* how far a clock may be ahead, in ticks
    MaxTime,       \* bound: ticks
    MaxLocks,      \* bound: locks (tokens) per client
    MaxFaults      \* bound: lost answers and crashes

ASSUME LockAssumption ==
    /\ Second \in Nat \ {0}
    /\ {Margin, LockTime, RenewTime, MaxSkew, MaxTime, MaxLocks, MaxFaults} \subseteq Nat
    /\ NoItem \notin [token : Clients \X Nat, ttl : Nat]

VARIABLES
    now,       \* true time
    skew,      \* of every client's clock
    item,      \* what is stored for the resource
    pc,        \* where every client is
    nr,        \* how many tokens a client has made; the last one is that of its lock
    at,        \* the time a call has read from the clock
    expires,   \* when the lock object says that the lease ends
    faults

vars == <<now, skew, item, pc, nr, at, expires, faults>>

Unix(t) == t \div Second
Clock(c) == now + skew[c]
Token(c) == <<c, nr[c]>>

Init ==
    /\ now = 0 /\ item = NoItem /\ faults = 0
    /\ skew \in [Clients -> 0..MaxSkew]
    /\ pc = [c \in Clients |-> "idle"]
    /\ nr = [c \in Clients |-> 0]
    /\ at = [c \in Clients |-> 0]
    /\ expires = [c \in Clients |-> 0]

Goto(c, label) == pc' = [pc EXCEPT ![c] = label]

\* The call of c is over: the time it has read is of no use any more.
Called(c) == at' = [at EXCEPT ![c] = 0]

\* A call fails for a reason that says nothing about the item.
Fault == faults < MaxFaults /\ faults' = faults + 1

-----------------------------------------------------------------------------
(* acquire, with the retries of the executor.                              *)

\* A new token for all attempts.
Acquire(c) ==
    /\ pc[c] = "idle" /\ nr[c] < MaxLocks
    /\ nr' = [nr EXCEPT ![c] = @ + 1]
    /\ Goto(c, "acquire")
    /\ UNCHANGED <<now, skew, item, at, expires, faults>>

AcquireRead(c) ==
    /\ pc[c] = "acquire"
    /\ at' = [at EXCEPT ![c] = Clock(c)]
    /\ Goto(c, "put")
    /\ UNCHANGED <<now, skew, item, nr, expires, faults>>

\* Mutant: clocks are taken to be in sync.
Expired(c) == item # NoItem => item.ttl < Unix(at[c])

\* The condition of the PutItem: no item, or one expired by more than the margin.
MayPut(c) == item # NoItem => item.ttl < Unix(at[c]) - Margin

\* Mutant: the ttl is one lock time longer than the lease.
LockedTwice(c) == [token |-> Token(c), ttl |-> Unix(at[c] + LockTime + LockTime)]

Locked(c) == [token |-> Token(c), ttl |-> Unix(at[c] + LockTime)]

AcquirePut(c) ==
    /\ pc[c] = "put" /\ MayPut(c)
    /\ item' = Locked(c)
    /\ expires' = [expires EXCEPT ![c] = at[c] + LockTime]
    /\ Called(c) /\ Goto(c, "held")
    /\ UNCHANGED <<now, skew, nr, faults>>

\* Another try, or none: the backoff is exhausted or the context canceled.
AgainOrGiveUp(c) == Called(c) /\ (Goto(c, "acquire") \/ Goto(c, "idle"))

\* ErrLockOwned, also for what an earlier attempt has put.
AcquireOwned(c) ==
    /\ pc[c] = "put" /\ ~MayPut(c)
    /\ AgainOrGiveUp(c)
    /\ UNCHANGED <<now, skew, item, nr, expires, faults>>

\* An error: the PutItem has been applied or not.
AcquireError(c) ==
    /\ pc[c] = "put" /\ Fault
    /\ item' \in (IF MayPut(c) THEN {item, Locked(c)} ELSE {item})
    /\ AgainOrGiveUp(c)
    /\ UNCHANGED <<now, skew, nr, expires>>

-----------------------------------------------------------------------------
(* Renew and Release.                                                      *)

RenewRead(c) ==
    /\ pc[c] = "held"
    /\ at' = [at EXCEPT ![c] = Clock(c)]
    /\ Goto(c, "renew")
    /\ UNCHANGED <<now, skew, item, nr, expires, faults>>

\* Mutant: the condition of the writes only asks for an item.
OwnedByAnyone(c) == item # NoItem

Owned(c) == item # NoItem /\ item.token = Token(c)

\* Mutant: the ttl is set to the time of the renewal.
RenewedNow(c) == [item EXCEPT !.ttl = Unix(at[c])]

Renewed(c) == [item EXCEPT !.ttl = Unix(at[c] + RenewTime)]

\* The conditional UpdateItem; ErrLockNotOwned leaves the lock object as it is.
RenewLock(c) ==
    /\ pc[c] = "renew"
    /\ IF Owned(c)
       THEN item' = Renewed(c) /\ expires' = [expires EXCEPT ![c] = at[c] + RenewTime]
       ELSE UNCHANGED <<item, expires>>
    /\ Called(c) /\ Goto(c, "held")
    /\ UNCHANGED <<now, skew, nr, faults>>

\* An error: the UpdateItem has been applied or not, the lock keeps its old expiry.
\* Another try is another RenewRead.
RenewError(c) ==
    /\ pc[c] = "renew" /\ Fault
    /\ item' \in (IF Owned(c) THEN {item, Renewed(c)} ELSE {item})
    /\ Called(c) /\ Goto(c, "held")
    /\ UNCHANGED <<now, skew, nr, expires>>

\* The lock object is gone.
Dropped(c) == expires' = [expires EXCEPT ![c] = 0]

\* Release does nothing for a lock that has expired.
ReleaseLate(c) ==
    /\ pc[c] = "held" /\ expires[c] <= Clock(c)
    /\ Dropped(c) /\ Goto(c, "idle")
    /\ UNCHANGED <<now, skew, item, nr, at, faults>>

Release(c) ==
    /\ pc[c] = "held" /\ expires[c] > Clock(c)
    /\ Goto(c, "release")
    /\ UNCHANGED <<now, skew, item, nr, at, expires, faults>>

\* The conditional DeleteItem, or an error and nothing deleted.
ReleaseLock(c) ==
    /\ pc[c] = "release"
    /\ \/ item' = (IF Owned(c) THEN NoItem ELSE item) /\ UNCHANGED faults
       \/ Fault /\ UNCHANGED item
    /\ Dropped(c) /\ Goto(c, "idle")
    /\ UNCHANGED <<now, skew, nr, at>>

-----------------------------------------------------------------------------
(* The environment.                                                        *)

Crash(c) ==
    /\ pc[c] # "idle" /\ Fault
    /\ Called(c) /\ Dropped(c) /\ Goto(c, "idle")
    /\ UNCHANGED <<now, skew, item, nr>>

\* DynamoDB deletes an item some time after its ttl.
TtlDelete ==
    /\ item # NoItem /\ item.ttl < Unix(now) /\ item' = NoItem
    /\ UNCHANGED <<now, skew, pc, nr, at, expires, faults>>

Tick ==
    /\ now < MaxTime /\ now' = now + 1
    /\ UNCHANGED <<skew, item, pc, nr, at, expires, faults>>

Client(c) ==
    \/ Acquire(c) \/ AcquireRead(c) \/ AcquirePut(c) \/ AcquireOwned(c) \/ AcquireError(c)
    \/ RenewRead(c) \/ RenewLock(c) \/ RenewError(c)
    \/ ReleaseLate(c) \/ Release(c) \/ ReleaseLock(c) \/ Crash(c)

Next == (\E c \in Clients : Client(c)) \/ TtlDelete \/ Tick

Spec == Init /\ [][Next]_vars

-----------------------------------------------------------------------------
(* Properties.                                                             *)

\* The types; a client has a lock object only between acquire and Release.
TypeOK ==
    /\ now \in Nat /\ faults \in Nat
    /\ skew \in [Clients -> 0..MaxSkew]
    /\ item \in [token : Clients \X Nat, ttl : Nat] \union {NoItem}
    /\ pc \in [Clients -> {"idle", "acquire", "put", "held", "renew", "release"}]
    /\ nr \in [Clients -> Nat]
    /\ at \in [Clients -> Nat]
    /\ expires \in [Clients -> Nat]
    /\ \A c \in Clients : pc[c] \notin {"put", "renew"} => at[c] = 0
    /\ \A c \in Clients : pc[c] \notin {"held", "renew", "release"} => expires[c] = 0

\* A client may rely on its lock until its own clock reaches the expiry.
Owns(c) == pc[c] \in {"held", "renew"} /\ Clock(c) < expires[c]

\* Two clients never own the lock at once, although their clocks differ, the ttl
\* has whole seconds only, calls arrive late and answers get lost.
MutualExclusion == \A c, d \in Clients : Owns(c) /\ Owns(d) => c = d

\* While a client owns the lock, the item has its token and a ttl that covers the
\* lease: what makes the conditional writes of all others fail.
Covered(c) ==
    /\ item # NoItem
    /\ item.token = Token(c)
    /\ Unix(expires[c]) <= item.ttl
OwnerIsCovered == \A c \in Clients : Owns(c) => Covered(c)

Longest == IF LockTime > RenewTime THEN LockTime ELSE RenewTime

\* No crash and no lost answer leaves the lock taken for longer than a lease.
LeaseBounded == item # NoItem => item.ttl <= Unix(now + MaxSkew + Longest)

\* What is left of the lease of c on its own clock.
LeaseLeft(c) == IF Owns(c) THEN expires[c] - Clock(c) ELSE 0

Lease == INSTANCE LeaseLock WITH MaxLease <- Longest, left <- [c \in Clients |-> LeaseLeft(c)]

\* The conditional writes implement a lock with leases: the lease goes from one client
\* to the next only through a moment at which nobody has it, also when a client renews
\* a lease that has run out, or gets an answer that comes too late.
ImplementsLease == Lease!Spec
=============================================================================
