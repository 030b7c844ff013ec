--------------------------- MODULE CircuitBreaker ---------------------------
(***************************************************************************)
(* The circuit breaker around an http client (pkg/http/circuit_breaker.go   *)
(* and do of client.go): concurrent requests that share two atomics, the    *)
(* number of recent failures and the time of the next try.                  *)
(*                                                                         *)
(* Time is relative: wait is how many ticks nextRetryAt is ahead of the     *)
(* clock, 0 once it is reached.  nextRetryAt never takes a value twice, so  *)
(* the compare-and-swap of a request fails exactly if somebody has written  *)
(* it since the request has loaded it.                                      *)
(***************************************************************************)
EXTENDS Integers

CONSTANTS
    Requests,     \* goroutines that make one request after the other
    Statuses,     \* the statuses a response may have
    Expected,     \* the values of settings.ExpectedStatuses to look at, {} is the default
    MaxFailures,  \* settings.MaxFailures
    RetryDelay,   \* settings.RetryDelay, in ticks
    MaxStall,     \* bound: ticks between reading the clock and the last atomic after it
    MaxLocal      \* bound: how often a request ends on this side: its caller gives up,
                  \* or it cannot be assembled

ASSUME BreakerAssumption ==
    /\ MaxFailures \in Nat \ {0} /\ RetryDelay \in Nat \ {0}
    /\ MaxStall \in 0..RetryDelay /\ MaxLocal \in Nat
    /\ Expected \subseteq SUBSET Statuses
    /\ Statuses \intersect {"error", "deadline"} = {}

VARIABLES
    failures,  \* recentFailures; only whether it has reached MaxFailures matters
    wait,      \* nextRetryAt - now
    pc,        \* where doRequest of each goroutine is
    mine,      \* the nextRetryAt a goroutine is about to write, minus now; 0 is no time
    raced,     \* nextRetryAt was written since the goroutine has loaded it
    expected,  \* settings.ExpectedStatuses
    remote,    \* what becomes of a request that is sent now
    local,     \* how many requests have ended on this side
    since      \* history: ticks since the last probe, failure or write of nextRetryAt

shared == <<failures, wait, since>>
vars == <<failures, wait, pc, mine, raced, remote, local, since, expected>>

Init ==
    /\ failures = 0 /\ wait = 0
    /\ pc = [r \in Requests |-> "idle"]
    /\ mine = [r \in Requests |-> 0]
    /\ raced = [r \in Requests |-> FALSE]
    /\ remote \in Statuses /\ local = 0
    /\ expected \in Expected
    /\ since = RetryDelay

Goto(r, label) == pc' = [pc EXCEPT ![r] = label]

\* The clock is read for the time of the next try.
ReadClock(r) == mine' = [mine EXCEPT ![r] = RetryDelay]

\* nextRetryAt is written.
SetNextRetryAt(r) ==
    /\ wait' = mine[r] /\ since' = 0
    /\ raced' = [q \in Requests |-> TRUE]

-----------------------------------------------------------------------------
(* isCircuitOpen.                                                          *)

Request(r) ==
    /\ pc[r] = "idle"
    /\ Goto(r, IF failures < MaxFailures THEN "send" ELSE "check")
    /\ UNCHANGED <<shared, mine, raced, remote, local, expected>>

\* It is too early: the request is rejected with CircuitIsOpenError.
Reject(r) ==
    /\ pc[r] = "check" /\ wait > 0
    /\ Goto(r, "idle")
    /\ UNCHANGED <<shared, mine, raced, remote, local, expected>>

MayRetry(r) ==
    /\ pc[r] = "check" /\ wait = 0
    /\ raced' = [raced EXCEPT ![r] = FALSE]
    /\ ReadClock(r)
    /\ Goto(r, "swap")
    /\ UNCHANGED <<shared, remote, local, expected>>

\* Mutant: a store in place of the compare-and-swap.
WinsAlways(r) == TRUE

\* CompareAndSwapInt64 finds the value that was loaded.
Wins(r) == ~raced[r]

\* The single request that tries to close the circuit again.
Probe(r) ==
    /\ pc[r] = "swap" /\ Wins(r)
    /\ SetNextRetryAt(r)
    /\ Goto(r, "send")
    /\ UNCHANGED <<failures, mine, remote, local, expected>>

LoseRace(r) ==
    /\ pc[r] = "swap" /\ ~Wins(r)
    /\ Goto(r, "idle")
    /\ UNCHANGED <<shared, mine, raced, remote, local, expected>>

-----------------------------------------------------------------------------
(* doRequest and the client below.                                         *)

\* do: a response with some status, an error, or the deadline of withRequestTimeout.
Outcomes == Statuses \union {"error", "deadline"}

\* Mutant: a response is a success whatever its status.
FailureIsError(o) == o = "error"

\* isRemoteFailure: a deadline counts as a canceled request (exec.IsRequestCanceled), and
\* without expected statuses every response is a success.
IsRemoteFailure(o) ==
    \/ o = "error"
    \/ o \in Statuses /\ expected # {} /\ o \notin expected

Answer(r) ==
    /\ pc[r] = "send"
    /\ \/ IsRemoteFailure(remote) /\ ReadClock(r) /\ Goto(r, "store")
       \/ remote # "deadline" /\ ~IsRemoteFailure(remote) /\ Goto(r, "reset") /\ UNCHANGED mine
       \/ remote = "deadline" /\ Goto(r, "idle") /\ UNCHANGED mine
    /\ UNCHANGED <<shared, raced, remote, local, expected>>

\* The request cannot be assembled, which counts like a failure of the other side.
BuildFails(r) ==
    /\ pc[r] = "send" /\ local < MaxLocal
    /\ local' = local + 1
    /\ ReadClock(r) /\ Goto(r, "store")
    /\ UNCHANGED <<shared, raced, remote, expected>>

\* The caller's context is canceled, which says nothing about the other side.
Canceled(r) ==
    /\ pc[r] = "send" /\ local < MaxLocal
    /\ local' = local + 1
    /\ Goto(r, "idle")
    /\ UNCHANGED <<shared, mine, raced, remote, expected>>

\* Mutant: a circuit that is open stays so.
ResetClosedOnly(r) ==
    /\ pc[r] = "reset"
    /\ failures' = IF failures < MaxFailures THEN 0 ELSE failures
    /\ Goto(r, "idle")
    /\ UNCHANGED <<wait, since, mine, raced, remote, local, expected>>

Reset(r) ==
    /\ pc[r] = "reset"
    /\ failures' = 0
    /\ Goto(r, "idle")
    /\ UNCHANGED <<wait, since, mine, raced, remote, local, expected>>

\* StoreInt64 comes before the failure is counted.
Store(r) ==
    /\ pc[r] = "store"
    /\ SetNextRetryAt(r)
    /\ Goto(r, "count")
    /\ UNCHANGED <<failures, mine, remote, local, expected>>

Count(r) ==
    /\ pc[r] = "count"
    /\ failures' = IF failures < MaxFailures THEN failures + 1 ELSE failures
    /\ since' = 0
    /\ Goto(r, "idle")
    /\ UNCHANGED <<wait, mine, raced, remote, local, expected>>

-----------------------------------------------------------------------------
Less(n) == IF n = 0 THEN 0 ELSE n - 1

\* The goroutines between reading the clock and the last atomic that depends on it.
Busy == {r \in Requests : pc[r] \in {"swap", "store", "count"}}

Tick ==
    /\ \A r \in Busy : mine[r] > RetryDelay - MaxStall
    /\ wait' = Less(wait)
    /\ mine' = [r \in Requests |-> IF r \in Busy THEN Less(mine[r]) ELSE 0]
    /\ since' = IF since < RetryDelay THEN since + 1 ELSE since
    /\ UNCHANGED <<failures, pc, raced, remote, local, expected>>

RemoteChanges ==
    /\ remote' \in Outcomes \ {remote}
    /\ UNCHANGED <<shared, pc, mine, raced, local, expected>>

DoRequest(r) ==
    \/ Request(r) \/ Reject(r) \/ MayRetry(r) \/ Probe(r) \/ LoseRace(r)
    \/ Answer(r) \/ BuildFails(r) \/ Canceled(r) \/ Reset(r) \/ Store(r) \/ Count(r)

Next == Tick \/ RemoteChanges \/ \E r \in Requests : DoRequest(r)

\* Requests keep coming, goroutines go on and time passes.
Fairness == WF_vars(Tick) /\ \A r \in Requests : WF_vars(DoRequest(r))

Spec == Init /\ [][Next]_vars /\ Fairness

-----------------------------------------------------------------------------
(* Properties.                                                             *)

Labels == {"idle", "check", "swap", "send", "reset", "store", "count"}

TypeOK ==
    /\ failures \in 0..MaxFailures /\ wait \in 0..RetryDelay /\ since \in 0..RetryDelay
    /\ pc \in [Requests -> Labels]
    /\ mine \in [Requests -> 0..RetryDelay]
    /\ raced \in [Requests -> BOOLEAN]
    /\ remote \in Outcomes /\ local \in 0..MaxLocal /\ expected \in Expected

\* isCircuitOpen: while the circuit is open a request gets through only when
\* RetryDelay has passed since the last one that did, since the last failure and
\* since the last write of nextRetryAt, up to the time that goroutines stall; so
\* there is one at a time, although all of them read and write without a lock.
ProbesAreSpaced ==
    [][\A r \in Requests : pc[r] = "swap" /\ pc'[r] = "send"
            => since >= RetryDelay - 2 * MaxStall]_vars

\* doRequest: once requests fail for good, by errors or by statuses that are not among
\* the expected ones if there are any, the circuit opens and stays open.
Opens ==
    <>[](remote = "error" \/ (remote \in Statuses \ expected /\ expected # {}))
        => <>[](failures = MaxFailures)

\* Once the other side answers again for good, with an expected status or, if none are
\* set, with any status, the circuit closes and stays closed.
Closes ==
    <>[](remote \in Statuses /\ (expected = {} \/ remote \in expected)) => <>[](failures = 0)
=============================================================================
