------------------------ MODULE CircuitBreakerProofs ------------------------
(***************************************************************************)
(* Proofs about CircuitBreaker: for any number of concurrent requests, any  *)
(* limit of failures, any delay and any stall, probes are spaced.           *)
(***************************************************************************)
EXTENDS CircuitBreaker, TLAPS

\* What a goroutine is about to write, or has just written, is a time it has computed
\* no longer ago than it may stall.
Fresh == \A r \in Busy : mine[r] >= RetryDelay - MaxStall

\* A failure that is not yet counted has its retry time in place already, its own or
\* that of a later one.
StoredFirst == \A r \in Requests : pc[r] = "count" => wait >= mine[r] - MaxStall

\* Who may still win the swap has seen the retry time that is in place, and it is past.
SwapIsDue == \A r \in Requests : pc[r] = "swap" /\ ~raced[r] => wait = 0

\* The time of the retry is never reached before the delay, up to two stalls, has passed
\* since the last probe or failure.
Spaced == wait + since >= RetryDelay - 2 * MaxStall

BreakerInv == TypeOK /\ Fresh /\ StoredFirst /\ SwapIsDue /\ Spaced

\* What the assumption says of the settings.
LEMMA Settings ==
    /\ MaxFailures \in Nat /\ MaxFailures > 0 /\ RetryDelay \in Nat /\ RetryDelay > 0
    /\ MaxStall \in Nat /\ MaxStall <= RetryDelay /\ MaxLocal \in Nat
  BY BreakerAssumption DEF BreakerAssumption

\* The arithmetic of a tick.
LEMMA Spacing ==
    ASSUME NEW w \in Nat, NEW v \in Nat, NEW i \in Nat, NEW j \in Nat, NEW d \in Nat, NEW m \in Nat,
           w + i >= d - 2 * m, v >= w - 1, j = i + 1 \/ j = d
    PROVE  v + j >= d - 2 * m
  OBVIOUS

LEMMA BreakerInit == Init => BreakerInv
  BY Settings DEF Init, BreakerInv, TypeOK, Labels, Outcomes, Fresh, Busy, StoredFirst, SwapIsDue, Spaced

\* The types are kept by every step.
LEMMA TypeStep ==
    ASSUME TypeOK, [Next]_vars
    PROVE  TypeOK'
<1> USE Settings DEF TypeOK, Labels, Goto, shared
<1>1. CASE Tick
  BY <1>1 DEF Tick, Less
<1>2. CASE RemoteChanges
  BY <1>2 DEF RemoteChanges
<1>3. ASSUME NEW r \in Requests, DoRequest(r)
      PROVE  TypeOK'
  <2>1. CASE Request(r) \/ Reject(r) \/ LoseRace(r)
    BY <2>1 DEF Request, Reject, LoseRace
  <2>2. CASE MayRetry(r)
    BY <2>2 DEF MayRetry, ReadClock
  <2>3. CASE Probe(r)
    BY <2>3 DEF Probe, SetNextRetryAt
  <2>4. CASE Answer(r)
    BY <2>4 DEF Answer, ReadClock
  <2>5. CASE Canceled(r) \/ BuildFails(r)
    BY <2>5 DEF Canceled, BuildFails, ReadClock
  <2>6. CASE Reset(r)
    BY <2>6 DEF Reset
  <2>7. CASE Store(r)
    BY <2>7 DEF Store, SetNextRetryAt
  <2>8. CASE Count(r)
    BY <2>8 DEF Count
  <2> QED
    BY <1>3, <2>1, <2>2, <2>3, <2>4, <2>5, <2>6, <2>7, <2>8 DEF DoRequest
<1>4. CASE UNCHANGED vars
  BY <1>4 DEF vars
<1> QED
  BY <1>1, <1>2, <1>3, <1>4 DEF Next

\* The invariant is kept by every step: only Tick brings the retry time nearer, and it
\* waits for goroutines that have read the clock.
LEMMA BreakerStep ==
    ASSUME BreakerInv, [Next]_vars
    PROVE  BreakerInv'
<1>0. TypeOK /\ TypeOK' /\ Fresh /\ StoredFirst /\ SwapIsDue /\ Spaced
  BY TypeStep DEF BreakerInv
<1>n. ASSUME NEW r \in Requests
      PROVE  mine[r] \in Int /\ mine[r] <= RetryDelay /\ mine'[r] \in Int /\ mine'[r] <= RetryDelay
  BY <1>0, Settings DEF TypeOK
<1>w. wait \in Nat /\ since \in Nat /\ since <= RetryDelay /\ wait' \in Nat /\ since' \in Nat
  BY <1>0, Settings DEF TypeOK
<1>1. CASE Tick
  <2>1. ASSUME NEW r \in Requests, r \in Busy
        PROVE  mine'[r] = mine[r] - 1 /\ mine[r] > RetryDelay - MaxStall
    BY <1>0, <1>1, <1>n, <2>1, Settings DEF Tick, Less, TypeOK
  <2>2. /\ pc' = pc /\ raced' = raced /\ wait' >= wait - 1 /\ (wait = 0 => wait' = 0)
        /\ since' = since + 1 \/ (since' = since /\ since = RetryDelay)
    BY <1>0, <1>1, <1>w, Settings DEF Tick, Less, TypeOK
  <2>3. Fresh'
    BY <1>n, <2>1, <2>2, Settings DEF Fresh, Busy
  <2>4. StoredFirst'
    BY <1>0, <1>n, <1>w, <2>1, <2>2, Settings DEF StoredFirst, Busy
  <2>5. SwapIsDue'
    BY <1>0, <2>2 DEF SwapIsDue
  <2>6. Spaced'
    <3>1. wait + since >= RetryDelay - 2 * MaxStall
      BY <1>0 DEF Spaced
    <3>2. wait' + since' >= RetryDelay - 2 * MaxStall
      <4>1. wait' >= wait - 1 /\ (since' = since + 1 \/ since' = RetryDelay)
        BY <2>2
      <4> QED
        BY <1>w, <3>1, <4>1, Spacing, Settings
    <3> QED
      BY <3>2 DEF Spaced
  <2> QED
    BY <1>0, <2>3, <2>4, <2>5, <2>6 DEF BreakerInv
<1>2. ASSUME NEW r \in Requests, Probe(r) \/ Store(r)
      PROVE  BreakerInv'
  <2>1. /\ wait' = mine[r] /\ since' = 0 /\ mine' = mine
        /\ mine[r] >= RetryDelay - MaxStall
        /\ \A q \in Requests : raced'[q]
        /\ \A q \in Requests : q # r => pc'[q] = pc[q]
        /\ pc'[r] \in {"send", "count"}
        /\ r \in Busy
    BY <1>0, <1>2 DEF Probe, Store, SetNextRetryAt, Goto, TypeOK, Fresh, Busy
  <2>2. Fresh'
    BY <1>0, <2>1 DEF Fresh, Busy
  <2>3. StoredFirst'
    BY <1>n, <2>1, Settings DEF StoredFirst
  <2>4. SwapIsDue'
    BY <2>1 DEF SwapIsDue
  <2>5. Spaced'
    BY <1>n, <2>1, Settings DEF Spaced
  <2> QED
    BY <1>0, <2>2, <2>3, <2>4, <2>5 DEF BreakerInv
<1>3. ASSUME NEW r \in Requests, Count(r)
      PROVE  BreakerInv'
  <2>1. /\ wait' = wait /\ since' = 0 /\ mine' = mine /\ raced' = raced
        /\ pc' = [pc EXCEPT ![r] = "idle"] /\ pc[r] = "count"
    BY <1>3 DEF Count, Goto
  <2>2. wait >= mine[r] - MaxStall /\ mine[r] >= RetryDelay - MaxStall
    BY <1>0, <2>1 DEF StoredFirst, Fresh, Busy
  <2>3. Spaced'
    BY <1>n, <1>w, <2>1, <2>2, Settings DEF Spaced
  <2>4. Fresh' /\ StoredFirst' /\ SwapIsDue'
    BY <1>0, <2>1 DEF Fresh, Busy, StoredFirst, SwapIsDue, TypeOK
  <2> QED
    BY <1>0, <2>3, <2>4 DEF BreakerInv
<1>4. ASSUME NEW r \in Requests, MayRetry(r)
      PROVE  BreakerInv'
  <2>1. /\ wait' = wait /\ since' = since /\ wait = 0
        /\ mine' = [mine EXCEPT ![r] = RetryDelay] /\ raced' = [raced EXCEPT ![r] = FALSE]
        /\ pc' = [pc EXCEPT ![r] = "swap"]
    BY <1>4 DEF MayRetry, ReadClock, Goto, shared
  <2>2. Fresh' /\ StoredFirst' /\ SwapIsDue' /\ Spaced'
    BY <1>0, <2>1, Settings DEF Fresh, Busy, StoredFirst, SwapIsDue, Spaced, TypeOK
  <2> QED
    BY <1>0, <2>2 DEF BreakerInv
<1>5. ASSUME NEW r \in Requests, Answer(r) \/ BuildFails(r)
      PROVE  BreakerInv'
  <2>1. /\ wait' = wait /\ since' = since /\ raced' = raced /\ pc[r] = "send"
        /\ \/ mine' = [mine EXCEPT ![r] = RetryDelay] /\ pc' = [pc EXCEPT ![r] = "store"]
           \/ mine' = mine /\ pc' = [pc EXCEPT ![r] = "reset"]
           \/ mine' = mine /\ pc' = [pc EXCEPT ![r] = "idle"]
    BY <1>5 DEF Answer, BuildFails, ReadClock, Goto, shared
  <2>2. Fresh' /\ StoredFirst' /\ SwapIsDue' /\ Spaced'
    BY <1>0, <2>1, Settings DEF Fresh, Busy, StoredFirst, SwapIsDue, Spaced, TypeOK
  <2> QED
    BY <1>0, <2>2 DEF BreakerInv
<1>6. ASSUME NEW r \in Requests,
             Request(r) \/ Reject(r) \/ LoseRace(r) \/ Canceled(r) \/ Reset(r)
      PROVE  BreakerInv'
  <2>1. /\ wait' = wait /\ since' = since /\ raced' = raced /\ mine' = mine
        /\ \E label \in {"idle", "send", "check"} : pc' = [pc EXCEPT ![r] = label]
    BY <1>6 DEF Request, Reject, LoseRace, Canceled, Reset, Goto, shared
  <2>2. Fresh' /\ StoredFirst' /\ SwapIsDue' /\ Spaced'
    BY <1>0, <2>1 DEF Fresh, Busy, StoredFirst, SwapIsDue, Spaced, TypeOK
  <2> QED
    BY <1>0, <2>2 DEF BreakerInv
<1>7. CASE RemoteChanges \/ UNCHANGED vars
  BY <1>0, <1>7 DEF BreakerInv, RemoteChanges, vars, shared, Fresh, Busy, StoredFirst, SwapIsDue, Spaced
<1> QED
  BY <1>1, <1>2, <1>3, <1>4, <1>5, <1>6, <1>7 DEF Next, DoRequest

\* The types hold, for all settings.
THEOREM BreakerTypeOK == Spec => []TypeOK
<1>1. Init => TypeOK
  BY BreakerInit DEF BreakerInv
<1>2. TypeOK /\ [Next]_vars => TypeOK'
  BY TypeStep
<1> QED
  BY <1>1, <1>2, PTL DEF Spec

\* While the circuit is open requests get through one at a time, at a distance of the
\* retry delay up to two stalls, however many goroutines read and write the atomics.
THEOREM ProbesSpaced == Spec => ProbesAreSpaced
<1>1. BreakerInv /\ [Next]_vars => BreakerInv'
  BY BreakerStep
<1>2. ASSUME BreakerInv, [Next]_vars, NEW r \in Requests, pc[r] = "swap", pc'[r] = "send"
      PROVE  since >= RetryDelay - 2 * MaxStall
  <2>1. Probe(r)
    <3>1. ASSUME NEW q \in Requests, DoRequest(q), q # r
          PROVE  pc'[r] = pc[r]
      BY <1>2, <3>1 DEF BreakerInv, TypeOK, DoRequest, Request, Reject, MayRetry, Probe, LoseRace,
        Answer, BuildFails, Canceled, Reset, Store, Count, Goto
    <3>2. CASE DoRequest(r)
      BY <1>2, <3>2 DEF BreakerInv, TypeOK, DoRequest, Request, Reject, MayRetry, LoseRace,
        Answer, BuildFails, Canceled, Reset, Store, Count, Goto
    <3>3. ~(Tick \/ RemoteChanges \/ UNCHANGED vars)
      BY <1>2 DEF Tick, RemoteChanges, vars
    <3> QED
      BY <1>2, <3>1, <3>2, <3>3 DEF Next
  <2>2. wait = 0
    BY <1>2, <2>1 DEF BreakerInv, SwapIsDue, Probe, Wins
  <2> QED
    BY <1>2, <2>2, Settings DEF BreakerInv, Spaced, TypeOK
<1>3. BreakerInv /\ [Next]_vars =>
        [\A r \in Requests : pc[r] = "swap" /\ pc'[r] = "send"
            => since >= RetryDelay - 2 * MaxStall]_vars
  BY <1>2
<1> QED
  BY BreakerInit, <1>1, <1>3, PTL DEF Spec, ProbesAreSpaced
=============================================================================
