----------------------------- MODULE ConcProofs -----------------------------
(***************************************************************************)
(* Proofs about the parts of pkg/conc.  TaskRunner, for any number of tasks *)
(* and channels and any capacity: nobody sends on a closed channel, and no  *)
(* accepted task is lost.  Scheduler, for any number of callers and         *)
(* runners and any batch size: a waiting caller's job is in one place.      *)
(* DdbLock, for any number of clients, any lock time and any margin: at     *)
(* most one client relies on the lock.                                      *)
(***************************************************************************)
EXTENDS TaskRunner, Scheduler, DdbLock, SequenceTheorems, FiniteSetTheorems, TLAPS

-----------------------------------------------------------------------------
(* The task runner.                                                        *)

\* Who sends holds the lock, and got it from a runner that was not done: Run and
\* Provide, which need the lock, cannot have touched the channel since.
SenderInv ==
    /\ \A t \in Tasks : caller[t] = "sending" => lck = t /\ ~done
    /\ ~done => pendingTasks \notin closed

RunnerInv == TRTypeOK /\ SenderInv /\ PendingIsKept

\* What the assumption says of each constant.
LEMMA Constants ==
    /\ MaxChannels \in Nat /\ MaxChannels # 0 /\ "free" \notin Tasks
    /\ \A u \in Usages : u.capacity \in Nat /\ u.capacity # 0 /\ u.provide \in BOOLEAN
  BY TaskRunnerAssumption

\* A new runner satisfies the invariant.
LEMMA InitInv == TRInit => RunnerInv
<1> SUFFICES ASSUME TRInit PROVE RunnerInv
  OBVIOUS
<1>1. channels \in Seq(Seq(Tasks)) /\ Len(channels) = 1 /\ DOMAIN channels = {1} /\ channels[1] = <<>>
  BY DEF TRInit
<1>2. Capacity \in Nat /\ \A i \in DOMAIN channels : Len(channels[i]) <= Capacity
  BY <1>1, Constants DEF TRInit, Capacity
<1>3. Len(channels) <= MaxChannels
  BY <1>1, Constants
<1>4. caller \in [Tasks -> {"new", "provided", "sending", "accepted", "refused"}]
  BY DEF TRInit
<1>5. TRTypeOK
  BY <1>1, <1>2, <1>3, <1>4 DEF TRInit, TRTypeOK
<1> QED
  BY <1>5 DEF TRInit, RunnerInv, SenderInv, PendingIsKept

\* Start takes the first task of a channel, which is one of the tasks; all the others
\* in the channels stay there.
LEMMA StartStep ==
    ASSUME TRTypeOK, NEW ch \in DOMAIN channels, Start(ch)
    PROVE  /\ channels' \in Seq(Seq(Tasks)) /\ DOMAIN channels' = DOMAIN channels
           /\ Len(channels') = Len(channels)
           /\ \A i \in DOMAIN channels : Len(channels'[i]) <= Len(channels[i])
           /\ started \subseteq started' /\ started' \subseteq Tasks
           /\ \A t \in Tasks : InChannel(t) => t \in started' \/ InChannel(t)'
<1> DEFINE c == channels[ch]
<1>1. channels \in Seq(Seq(Tasks)) /\ c \in Seq(Tasks) /\ c # <<>>
  BY DEF TRTypeOK, Start
<1>2. /\ Head(c) \in Tasks /\ Tail(c) \in Seq(Tasks) /\ Len(Tail(c)) = Len(c) - 1
      /\ \A j \in 1..Len(Tail(c)) : Tail(c)[j] = c[j + 1]
  BY <1>1
<1>3. /\ channels' = [channels EXCEPT ![ch] = Tail(c)]
      /\ started' = started \union {Head(c)}
  BY DEF Start
<1>4. /\ channels' \in Seq(Seq(Tasks)) /\ DOMAIN channels' = DOMAIN channels
      /\ Len(channels') = Len(channels) /\ channels'[ch] = Tail(c)
      /\ \A i \in DOMAIN channels : i # ch => channels'[i] = channels[i]
  BY <1>1, <1>2, <1>3
<1>5. \A i \in DOMAIN channels : Len(channels'[i]) <= Len(channels[i])
  <2>1. Len(Tail(c)) <= Len(c) /\ \A i \in DOMAIN channels : Len(channels[i]) \in Nat
    BY <1>1, <1>2
  <2>2. ASSUME NEW i \in DOMAIN channels PROVE Len(channels'[i]) <= Len(channels[i])
    <3>1. CASE i = ch
      BY <1>4, <2>1, <3>1
    <3>2. CASE i # ch
      <4>1. channels'[i] = channels[i] /\ Len(channels[i]) \in Nat
        BY <1>4, <2>1, <3>2
      <4> QED
        BY <4>1
    <3> QED
      BY <3>1, <3>2
  <2> QED
    BY <2>2
<1>6. ASSUME NEW t \in Tasks, InChannel(t), t \notin started'
      PROVE  InChannel(t)'
  <2>1. PICK i \in DOMAIN channels : \E j \in DOMAIN channels[i] : channels[i][j] = t
    BY <1>6 DEF InChannel
  <2>2. CASE i # ch
    BY <1>4, <2>1, <2>2 DEF InChannel
  <2>3. CASE i = ch
    <3>1. PICK j \in DOMAIN c : c[j] = t
      BY <2>1, <2>3
    <3>2. j # 1 /\ j \in 1..Len(c)
      BY <1>1, <1>3, <1>6, <3>1
    <3>3. j - 1 \in 1..Len(Tail(c)) /\ Tail(c)[j - 1] = t
      BY <1>1, <1>2, <3>1, <3>2
    <3>4. j - 1 \in DOMAIN channels'[ch] /\ channels'[ch][j - 1] = t
      BY <1>2, <1>4, <3>3
    <3> QED
      BY <1>4, <3>4 DEF InChannel
  <2> QED
    BY <2>2, <2>3
<1> QED
  BY <1>2, <1>3, <1>4, <1>5, <1>6 DEF TRTypeOK

\* A longer channel, or one channel more: whatever was in a channel still is.
LEMMA InChannelStays ==
    ASSUME DOMAIN channels \subseteq DOMAIN channels',
           \A i \in DOMAIN channels : /\ DOMAIN channels[i] \subseteq DOMAIN channels'[i]
                                      /\ \A j \in DOMAIN channels[i] : channels'[i][j] = channels[i][j]
    PROVE  \A t \in Tasks : InChannel(t) => InChannel(t)'
  BY DEF InChannel

\* The invariant is inductive: the lock orders RunTask, Provide and the end of Run.
LEMMA NextInv == RunnerInv /\ [TRNext]_trVars => RunnerInv'
<1> SUFFICES ASSUME RunnerInv, [TRNext]_trVars PROVE RunnerInv'
  OBVIOUS
<1>0. TRTypeOK /\ SenderInv /\ PendingIsKept
  BY DEF RunnerInv
<1> USE DEF chanVars
<1>1. CASE ReceiveTask \/ Drain
  <2>1. PICK ch \in DOMAIN channels : Start(ch)
    BY <1>0, <1>1 DEF ReceiveTask, Drain, TRTypeOK
  <2>2. UNCHANGED <<usage, closed, pendingTasks, done, lck, loop, source, canceled, caller>>
    BY <1>1 DEF ReceiveTask, Drain
  <2>3. TRTypeOK'
    <3>1. Capacity' = Capacity /\ Capacity \in Nat
      BY <1>0, <2>2, Constants DEF TRTypeOK, Capacity
    <3>2. \A i \in DOMAIN channels' : channels'[i] \in Seq(Tasks) /\ channels[i] \in Seq(Tasks)
      BY <1>0, <2>1, StartStep DEF TRTypeOK
    <3>3. \A i \in DOMAIN channels' : Len(channels'[i]) <= Capacity
      BY <1>0, <2>1, <3>1, <3>2, StartStep DEF TRTypeOK
    <3> QED
      BY <1>0, <2>1, <2>2, <3>1, <3>3, StartStep DEF TRTypeOK
  <2>4. SenderInv'
    BY <1>0, <2>2 DEF SenderInv
  <2>5. PendingIsKept'
    BY <1>0, <2>1, <2>2, StartStep DEF PendingIsKept
  <2> QED
    BY <2>3, <2>4, <2>5 DEF RunnerInv
<1>2. CASE CloseChannel
  <2>1. TRTypeOK'
    BY <1>0, <1>2 DEF CloseChannel, TRTypeOK, Capacity
  <2>2. \A t \in Tasks : caller'[t] # "sending"
    BY <1>0, <1>2, Constants DEF CloseChannel, SenderInv
  <2> QED
    BY <1>0, <1>2, <2>1, <2>2 DEF CloseChannel, RunnerInv, SenderInv, PendingIsKept, InChannel
<1>3. CASE SeesCancel \/ RangeLoop \/ RunReturns \/ Cancel
  <2>1. TRTypeOK'
    BY <1>0, <1>3 DEF SeesCancel, RangeLoop, RunReturns, Cancel, TRTypeOK, Capacity
  <2>2. UNCHANGED <<channels, closed, pendingTasks, done, lck, caller, started>>
    BY <1>3 DEF SeesCancel, RangeLoop, RunReturns, Cancel
  <2> QED
    BY <1>0, <2>1, <2>2 DEF RunnerInv, SenderInv, PendingIsKept, InChannel
<1>4. ASSUME NEW t \in Tasks, Provide(t)
      PROVE  RunnerInv'
  <2>0. /\ lck = "free" /\ \A u \in Tasks : caller'[u] = IF u = t THEN "provided" ELSE caller[u]
        /\ UNCHANGED <<usage, closed, lck, loop, source, canceled, started>>
        /\ caller' \in [Tasks -> {"new", "provided", "sending", "accepted", "refused"}]
    BY <1>0, <1>4 DEF Provide, TRTypeOK
  <2>1. \A u \in Tasks : caller'[u] # "sending"
    BY <1>0, <2>0, Constants DEF SenderInv
  <2>2. CASE done /\ Len(channels) < MaxChannels
    <3>1. /\ ~done' /\ done' \in BOOLEAN /\ channels' = Append(channels, <<>>) /\ pendingTasks' = Len(channels) + 1
      BY <1>4, <2>2 DEF Provide
    <3>2. /\ channels' \in Seq(Seq(Tasks)) /\ Len(channels') = Len(channels) + 1
          /\ \A i \in DOMAIN channels : i \in DOMAIN channels' /\ channels'[i] = channels[i]
          /\ \A i \in DOMAIN channels' : i \in DOMAIN channels \/ channels'[i] = <<>>
          /\ pendingTasks' \in DOMAIN channels' /\ pendingTasks' \notin DOMAIN channels
      BY <1>0, <3>1 DEF TRTypeOK
    <3>3. TRTypeOK'
      <4>1. Capacity' = Capacity /\ Capacity \in Nat
        BY <1>0, <2>0, Constants DEF TRTypeOK, Capacity
      <4>2. \A i \in DOMAIN channels' : Len(channels'[i]) <= Capacity
        BY <1>0, <3>2, <4>1 DEF TRTypeOK
      <4>3. Len(channels') <= MaxChannels
        BY <1>0, <2>2, <3>2, Constants DEF TRTypeOK
      <4> QED
        BY <1>0, <2>0, <3>1, <3>2, <4>1, <4>2, <4>3 DEF TRTypeOK
    <3>4. pendingTasks' \notin closed'
      BY <1>0, <2>0, <3>2 DEF TRTypeOK
    <3>5. \A u \in Tasks : InChannel(u) => InChannel(u)'
      BY <3>2, InChannelStays
    <3> QED
      BY <1>0, <2>0, <2>1, <3>3, <3>4, <3>5 DEF RunnerInv, SenderInv, PendingIsKept
  <2>3. CASE ~(done /\ Len(channels) < MaxChannels)
    <3>1. UNCHANGED <<done, channels, pendingTasks>>
      BY <1>4, <2>3 DEF Provide
    <3>2. TRTypeOK'
      BY <1>0, <2>0, <3>1 DEF TRTypeOK, Capacity
    <3> QED
      BY <1>0, <2>0, <2>1, <3>1, <3>2 DEF RunnerInv, SenderInv, PendingIsKept, InChannel
  <2> QED
    BY <2>2, <2>3
<1>5. ASSUME NEW t \in Tasks, RunTask(t)
      PROVE  RunnerInv'
  <2>1. TRTypeOK'
    BY <1>0, <1>5 DEF RunTask, TRTypeOK, Capacity
  <2>2. /\ UNCHANGED <<channels, closed, pendingTasks, done, started>>
        /\ \A u \in Tasks : u # t => caller'[u] = caller[u] /\ caller[u] # "sending"
        /\ (caller'[t] = "sending" /\ lck' = t /\ ~done) \/ caller'[t] = "refused"
    BY <1>0, <1>5, Constants DEF RunTask, Accepts, TRTypeOK, SenderInv
  <2> QED
    BY <1>0, <2>1, <2>2 DEF RunnerInv, SenderInv, PendingIsKept, InChannel
<1>6. ASSUME NEW t \in Tasks, SendTask(t)
      PROVE  RunnerInv'
  <2> DEFINE c == channels[pendingTasks]
  <2>1. /\ pendingTasks \in DOMAIN channels /\ c \in Seq(Tasks) /\ Len(c) < Capacity
        /\ channels' = [channels EXCEPT ![pendingTasks] = Append(c, t)]
        /\ UNCHANGED <<usage, closed, pendingTasks, done, loop, source, canceled, started>>
        /\ lck = t /\ lck' = "free"
        /\ caller' = [caller EXCEPT ![t] = "accepted"]
    BY <1>0, <1>6 DEF SendTask, HasRoom, SenderInv, TRTypeOK
  <2>2. /\ Append(c, t) \in Seq(Tasks) /\ Len(Append(c, t)) = Len(c) + 1
        /\ Append(c, t)[Len(c) + 1] = t
        /\ \A j \in DOMAIN c : j \in DOMAIN Append(c, t) /\ Append(c, t)[j] = c[j]
    BY <2>1
  <2>3. /\ channels' \in Seq(Seq(Tasks)) /\ DOMAIN channels' = DOMAIN channels
        /\ Len(channels') = Len(channels) /\ channels'[pendingTasks] = Append(c, t)
        /\ \A i \in DOMAIN channels : i # pendingTasks => channels'[i] = channels[i]
    BY <1>0, <2>1, <2>2 DEF TRTypeOK
  <2>4. \A u \in Tasks : u # t => caller'[u] = caller[u] /\ caller[u] # "sending"
    BY <1>0, <2>1 DEF TRTypeOK, SenderInv
  <2>5. TRTypeOK'
    <3>1. Capacity' = Capacity /\ Capacity \in Nat
      BY <1>0, <2>1, Constants DEF TRTypeOK, Capacity
    <3>2. \A i \in DOMAIN channels' : Len(channels'[i]) <= Capacity
      BY <1>0, <2>1, <2>2, <2>3, <3>1 DEF TRTypeOK
    <3> QED
      BY <1>0, <2>1, <2>3, <3>1, <3>2 DEF TRTypeOK
  <2>6. \A u \in Tasks : InChannel(u) => InChannel(u)'
    BY <2>2, <2>3, InChannelStays
  <2>7. InChannel(t)'
    <3>1. Len(c) + 1 \in DOMAIN channels'[pendingTasks] /\ channels'[pendingTasks][Len(c) + 1] = t
      BY <2>1, <2>2, <2>3
    <3> QED
      BY <2>1, <2>3, <3>1 DEF InChannel
  <2>8. caller'[t] = "accepted"
    BY <1>0, <2>1 DEF TRTypeOK
  <2>9. SenderInv'
    BY <1>0, <2>1, <2>4, <2>8 DEF SenderInv
  <2> QED
    BY <1>0, <2>1, <2>4, <2>5, <2>6, <2>7, <2>8, <2>9 DEF RunnerInv, PendingIsKept
<1>7. CASE UNCHANGED trVars
  BY <1>0, <1>7 DEF trVars, RunnerInv, TRTypeOK, Capacity, SenderInv, PendingIsKept, InChannel
<1> QED
  BY <1>1, <1>2, <1>3, <1>4, <1>5, <1>6, <1>7 DEF TRNext, Run, Caller

\* RunTask, Provide and Run under s.lck: nothing is ever sent on a closed channel, and
\* an accepted task is started or still in a channel, for any capacity and however
\* often the runner is provided again.
THEOREM TasksAreKept == TRSpec => []PendingIsKept
<1>1. RunnerInv => PendingIsKept
  BY DEF RunnerInv
<1> QED
  BY InitInv, NextInv, <1>1, PTL DEF TRSpec

\* The channels stay within their capacity, and what the runner and its loop point to
\* is always a channel there is.
THEOREM RunnerTypes == TRSpec => []TRTypeOK
<1>1. RunnerInv => TRTypeOK
  BY DEF RunnerInv
<1> QED
  BY InitInv, NextInv, <1>1, PTL DEF TRSpec

-----------------------------------------------------------------------------
(* The scheduler.                                                          *)

In(j, list) == \E i \in DOMAIN list : list[i] = j

\* Who runs a batch has a verdict for it.
ListTypes ==
    /\ job \in [Jobs -> {"new", "waiting", "ok", "failed"}]
    /\ workQueue \in Seq(Jobs) /\ current \in Seq(Jobs) /\ out \in Seq(Jobs)
    /\ batchQueue \in Seq(Seq(Jobs))
    /\ running \in [Runners -> Seq(Jobs)]
    /\ verdict \in [Runners -> {"none", "ok", "failed"}]
    /\ \A r \in Runners : running[r] # <<>> => verdict[r] # "none"

\* No list has a job twice.
OnceInv ==
    /\ Once(workQueue) /\ Once(current) /\ Once(out)
    /\ \A k \in DOMAIN batchQueue : Once(batchQueue[k])
    /\ \A r \in Runners : Once(running[r])

Collecting(j) == In(j, workQueue) \/ In(j, current) \/ In(j, out)
Batched(j) == \E k \in DOMAIN batchQueue : In(j, batchQueue[k])
InWork(j) == \E r \in Runners : In(j, running[r])

\* No two lists share a job.
ApartInv ==
    /\ \A j \in Jobs :
          /\ ~(In(j, workQueue) /\ In(j, current))
          /\ ~(In(j, workQueue) /\ In(j, out))
          /\ ~(In(j, current) /\ In(j, out))
          /\ ~(Collecting(j) /\ Batched(j))
          /\ ~(Collecting(j) /\ InWork(j))
          /\ ~(Batched(j) /\ InWork(j))
    /\ \A j \in Jobs, k, l \in DOMAIN batchQueue :
          In(j, batchQueue[k]) /\ In(j, batchQueue[l]) => k = l
    /\ \A j \in Jobs, r, q \in Runners : In(j, running[r]) /\ In(j, running[q]) => r = q

\* The callers that wait are those whose job is somewhere, and the open batch ticks.
WaitInv ==
    /\ \A j \in Jobs : job[j] = "waiting" <=> Collecting(j) \/ Batched(j) \/ InWork(j)
    /\ (current # <<>> => ticking)

SchedulerInv == ListTypes /\ OnceInv /\ ApartInv /\ WaitInv

\* The empty list holds nothing.
LEMMA EmptyList == ASSUME NEW j PROVE Once(<<>>) /\ ~In(j, <<>>)
  BY DEF Once, In

\* A list with one more job at its end.
LEMMA AppendList ==
    ASSUME NEW S, NEW s \in Seq(S), NEW x \in S
    PROVE  /\ Append(s, x) \in Seq(S) /\ Append(s, x) # <<>>
           /\ \A j : In(j, Append(s, x)) <=> In(j, s) \/ j = x
           /\ Once(s) /\ ~In(x, s) => Once(Append(s, x))
<1>1. /\ Append(s, x) \in Seq(S) /\ Len(Append(s, x)) = Len(s) + 1 /\ Len(s) \in Nat
      /\ \A i \in 1..Len(s) : Append(s, x)[i] = s[i]
      /\ Append(s, x)[Len(s) + 1] = x
      /\ DOMAIN s = 1..Len(s) /\ DOMAIN Append(s, x) = 1..Len(s) + 1
  OBVIOUS
<1>2. \A j : In(j, Append(s, x)) <=> In(j, s) \/ j = x
  BY <1>1 DEF In
<1>3. Once(s) /\ ~In(x, s) => Once(Append(s, x))
  BY <1>1 DEF In, Once
<1> QED
  BY <1>1, <1>2, <1>3

\* A list without its first job, when no job is in it twice.
LEMMA TailList ==
    ASSUME NEW S, NEW s \in Seq(S), s # <<>>, Once(s)
    PROVE  /\ Tail(s) \in Seq(S) /\ Head(s) \in S /\ In(Head(s), s)
           /\ \A j : In(j, Tail(s)) <=> In(j, s) /\ j # Head(s)
           /\ Once(Tail(s))
<1>1. /\ Tail(s) \in Seq(S) /\ Len(Tail(s)) = Len(s) - 1 /\ Len(s) \in Nat \ {0}
      /\ \A i \in 1..(Len(s) - 1) : Tail(s)[i] = s[i + 1]
      /\ Head(s) = s[1] /\ Head(s) \in S
      /\ DOMAIN s = 1..Len(s) /\ DOMAIN Tail(s) = 1..(Len(s) - 1)
  OBVIOUS
<1>2. ASSUME NEW j PROVE In(j, Tail(s)) <=> In(j, s) /\ j # Head(s)
  <2>1. ASSUME In(j, Tail(s)) PROVE In(j, s) /\ j # Head(s)
    <3>1. PICK i \in 1..(Len(s) - 1) : s[i + 1] = j
      BY <1>1, <2>1 DEF In
    <3>2. i + 1 \in 1..Len(s) /\ i + 1 # 1
      BY <1>1
    <3> QED
      BY <1>1, <3>1, <3>2 DEF In, Once
  <2>2. ASSUME In(j, s), j # Head(s) PROVE In(j, Tail(s))
    <3>1. PICK i \in 1..Len(s) : s[i] = j
      BY <1>1, <2>2 DEF In
    <3>2. i # 1 /\ i - 1 \in 1..(Len(s) - 1) /\ Tail(s)[i - 1] = s[i]
      BY <1>1, <2>2, <3>1
    <3> QED
      BY <1>1, <3>1, <3>2 DEF In
  <2> QED
    BY <2>1, <2>2
<1>3. Once(Tail(s))
  BY <1>1 DEF Once
<1>4. In(Head(s), s)
  BY <1>1 DEF In
<1> QED
  BY <1>1, <1>2, <1>3, <1>4

\* The three lists of createBatches, followed by the batches that are queued.
LEMMA ConcatList ==
    ASSUME NEW S, NEW a \in S, NEW b \in S, NEW c \in S, NEW t \in Seq(S),
           NEW l, l = <<a, b, c>> \o t
    PROVE  /\ DOMAIN t = 1..Len(t) /\ Len(t) \in Nat
           /\ DOMAIN l = 1..(3 + Len(t))
           /\ l[1] = a /\ l[2] = b /\ l[3] = c
           /\ \A k \in 1..Len(t) : l[k + 3] = t[k]
<1> DEFINE s == <<a, b, c>>
<1>1. s \in Seq(S) /\ Len(s) = 3 /\ s[1] = a /\ s[2] = b /\ s[3] = c
  OBVIOUS
<1>2. Len(t) \in Nat /\ DOMAIN t = 1..Len(t)
  OBVIOUS
<1> HIDE DEF s
<1>3. /\ s \o t \in Seq(S) /\ Len(s \o t) = Len(s) + Len(t)
      /\ \A i \in 1 .. Len(s) + Len(t) : (s \o t)[i] = IF i <= Len(s) THEN s[i] ELSE t[i - Len(s)]
  BY <1>1, ConcatProperties
<1>4. DOMAIN (s \o t) = 1..(3 + Len(t))
  BY <1>1, <1>3
<1>5. \A i \in 1..(3 + Len(t)) : (s \o t)[i] = IF i <= 3 THEN s[i] ELSE t[i - 3]
  BY <1>1, <1>3
<1>6. (s \o t)[1] = a /\ (s \o t)[2] = b /\ (s \o t)[3] = c
  <2>1. \A i \in {1, 2, 3} : i \in 1..(3 + Len(t)) /\ i <= 3
    BY <1>2
  <2>2. \A i \in {1, 2, 3} : (s \o t)[i] = s[i]
    BY <1>5, <2>1
  <2> QED
    BY <1>1, <2>2
<1>7. ASSUME NEW k \in 1..Len(t) PROVE (s \o t)[k + 3] = t[k]
  <2>1. k + 3 \in 1..(3 + Len(t)) /\ ~(k + 3 <= 3) /\ (k + 3) - 3 = k
    BY <1>2
  <2> QED
    BY <1>5, <2>1
<1> QED
  BY <1>2, <1>4, <1>6, <1>7 DEF s

\* A new scheduler satisfies the invariant.
LEMMA NewSchedulerInv == JSInit => SchedulerInv
<1> SUFFICES ASSUME JSInit PROVE SchedulerInv
  OBVIOUS
<1>1. ListTypes
  BY DEF ListTypes, JSInit
<1>2. DOMAIN batchQueue = {}
  BY DEF JSInit
<1>3. OnceInv /\ \A j : ~Collecting(j) /\ ~Batched(j) /\ ~InWork(j)
  BY <1>2, EmptyList DEF OnceInv, JSInit, Collecting, Batched, InWork
<1> QED
  BY <1>1, <1>2, <1>3 DEF SchedulerInv, ApartInv, WaitInv, JSInit, Collecting, Batched, InWork

\* ScheduleJob: the job of a new caller is nowhere yet, and comes to the work queue.
LEMMA ScheduleInv ==
    ASSUME SchedulerInv, NEW j \in Jobs, ScheduleJob(j)
    PROVE  SchedulerInv'
<1>1. /\ workQueue' \in Seq(Jobs) /\ ~Collecting(j) /\ ~Batched(j) /\ ~InWork(j)
      /\ \A i : In(i, workQueue') <=> In(i, workQueue) \/ i = j
      /\ Once(workQueue')
      /\ job' = [job EXCEPT ![j] = "waiting"] /\ job[j] = "new" /\ job \in [Jobs -> {"new", "waiting", "ok", "failed"}]
      /\ current' = current /\ out' = out /\ batchQueue' = batchQueue /\ running' = running
      /\ verdict' = verdict /\ ticking' = ticking
  BY AppendList DEF SchedulerInv, ListTypes, OnceInv, WaitInv, Collecting, ScheduleJob, runVars
<1>2. ListTypes'
  BY <1>1 DEF SchedulerInv, ListTypes
<1>3. OnceInv'
  BY <1>1 DEF SchedulerInv, OnceInv
<1>4. ApartInv'
  BY <1>1 DEF SchedulerInv, ApartInv, Collecting, Batched, InWork
<1>5. WaitInv'
  BY <1>1 DEF SchedulerInv, WaitInv, Collecting, Batched, InWork
<1> QED
  BY <1>2, <1>3, <1>4, <1>5 DEF SchedulerInv

\* CollectJob: the first job of the work queue comes to the open batch, full or not.
LEMMA CollectInv ==
    ASSUME SchedulerInv, CollectJob
    PROVE  SchedulerInv'
<1> DEFINE h == Head(workQueue)
           b == Append(current, h)
<1>1. /\ workQueue' \in Seq(Jobs) /\ Once(workQueue') /\ h \in Jobs /\ In(h, workQueue)
      /\ \A i : In(i, workQueue') <=> In(i, workQueue) /\ i # h
  BY TailList DEF SchedulerInv, ListTypes, OnceInv, CollectJob
<1>2. ~In(h, current) /\ current \in Seq(Jobs) /\ Once(current)
  BY <1>1 DEF SchedulerInv, ListTypes, ApartInv, OnceInv
<1>3. /\ b \in Seq(Jobs) /\ Once(b) /\ b # <<>>
      /\ \A i : In(i, b) <=> In(i, current) \/ i = h
  BY <1>1, <1>2, AppendList
<1>4. /\ out = <<>> /\ current' = (IF Full(b) THEN <<>> ELSE b) /\ out' = (IF Full(b) THEN b ELSE <<>>)
      /\ ticking' = ~Full(b)
      /\ batchQueue' = batchQueue /\ running' = running /\ verdict' = verdict /\ job' = job
  BY DEF CollectJob, runVars
<1> HIDE DEF h, b
<1>5. /\ current' \in Seq(Jobs) /\ out' \in Seq(Jobs) /\ Once(current') /\ Once(out')
      /\ current' # <<>> => ticking'
      /\ \A i : ~(In(i, current') /\ In(i, out'))
      /\ \A i : In(i, current') \/ In(i, out') <=> In(i, current) \/ i = h
      /\ \A i : ~In(i, out)
  <2>1. CASE Full(b)
    BY <1>3, <1>4, <2>1, EmptyList
  <2>2. CASE ~Full(b)
    <3>1. current' = b /\ out' = <<>> /\ out = <<>>
      BY <1>4, <2>2
    <3>2. ticking'
      BY <1>4, <2>2, Zenon
    <3>3. /\ current' \in Seq(Jobs) /\ out' \in Seq(Jobs) /\ Once(current') /\ Once(out')
      BY <1>3, <3>1, EmptyList
    <3> QED
      BY <1>3, <3>1, <3>2, <3>3, EmptyList, Zenon
  <2> QED
    BY <2>1, <2>2
<1>6. \A i : Collecting(i)' <=> Collecting(i)
  BY <1>1, <1>5 DEF Collecting
<1>7. \A i : (Batched(i)' <=> Batched(i)) /\ (InWork(i)' <=> InWork(i))
  BY <1>4 DEF Batched, InWork
<1>8. ListTypes'
  BY <1>1, <1>4, <1>5 DEF SchedulerInv, ListTypes
<1>9. OnceInv'
  BY <1>1, <1>4, <1>5 DEF SchedulerInv, OnceInv
<1>10. ApartInv'
  BY <1>1, <1>2, <1>4, <1>5, <1>6, <1>7 DEF SchedulerInv, ApartInv
<1>11. WaitInv'
  BY <1>4, <1>5, <1>6, <1>7 DEF SchedulerInv, WaitInv
<1> QED
  BY <1>8, <1>9, <1>10, <1>11 DEF SchedulerInv

\* BatchTick and Leave: the open batch becomes the batch to send, or nothing changes.
LEMMA HandOverInv ==
    ASSUME SchedulerInv, out = <<>>,
           job' = job /\ workQueue' = workQueue /\ batchQueue' = batchQueue /\ running' = running /\ verdict' = verdict,
           current' = <<>>, out' = current
    PROVE  SchedulerInv'
<1>1. /\ current' \in Seq(Jobs) /\ out' \in Seq(Jobs) /\ Once(current') /\ Once(out')
      /\ \A i : ~In(i, current') /\ (In(i, out') <=> In(i, current)) /\ ~In(i, out)
  BY EmptyList DEF SchedulerInv, ListTypes, OnceInv
<1>2. \A i : (Collecting(i)' <=> Collecting(i)) /\ (Batched(i)' <=> Batched(i)) /\ (InWork(i)' <=> InWork(i))
  BY <1>1 DEF Collecting, Batched, InWork
<1>3. ListTypes'
  BY <1>1 DEF SchedulerInv, ListTypes
<1>4. OnceInv'
  BY <1>1 DEF SchedulerInv, OnceInv
<1>5. ApartInv'
  BY <1>1, <1>2 DEF SchedulerInv, ApartInv
<1>6. WaitInv'
  BY <1>1, <1>2 DEF SchedulerInv, WaitInv
<1> QED
  BY <1>3, <1>4, <1>5, <1>6 DEF SchedulerInv

\* The tick flushes the open batch, if there is one.
LEMMA TickInv ==
    ASSUME SchedulerInv, BatchTick
    PROVE  SchedulerInv'
<1>1. CASE current = <<>>
  <2>1. job' = job /\ workQueue' = workQueue /\ batchQueue' = batchQueue /\ running' = running
        /\ verdict' = verdict /\ current' = <<>> /\ out' = current /\ out = <<>>
    BY <1>1 DEF BatchTick, TickFlushes, runVars
  <2> QED
    BY <2>1, HandOverInv
<1>2. CASE current # <<>>
  <2>1. TickFlushes
    BY <1>2 DEF TickFlushes, SchedulerInv, ListTypes
  <2>2. job' = job /\ workQueue' = workQueue /\ batchQueue' = batchQueue /\ running' = running
        /\ verdict' = verdict /\ current' = <<>> /\ out' = current /\ out = <<>>
    BY <2>1 DEF BatchTick, runVars
  <2> QED
    BY <2>2, HandOverInv
<1> QED
  BY <1>1, <1>2

\* The end of createBatches flushes the open batch.
LEMMA LeaveInv ==
    ASSUME SchedulerInv, Leave
    PROVE  SchedulerInv'
  BY HandOverInv DEF Leave, LeaveWith, runVars

\* The batch comes to the end of the batch queue.
LEMMA SendInv ==
    ASSUME SchedulerInv, SendBatch
    PROVE  SchedulerInv'
<1> DEFINE n == Len(batchQueue) + 1
<1>1. /\ out \in Seq(Jobs) /\ batchQueue \in Seq(Seq(Jobs)) /\ batchQueue' = Append(batchQueue, out)
      /\ out' = <<>> /\ job' = job /\ workQueue' = workQueue /\ current' = current /\ running' = running
      /\ verdict' = verdict /\ ticking' = ticking
  BY DEF SchedulerInv, ListTypes, SendBatch, runVars
<1>2. /\ batchQueue' \in Seq(Seq(Jobs)) /\ n \notin DOMAIN batchQueue
      /\ DOMAIN batchQueue' = DOMAIN batchQueue \union {n}
      /\ \A k \in DOMAIN batchQueue : batchQueue'[k] = batchQueue[k]
      /\ batchQueue'[n] = out
  BY <1>1
<1> HIDE DEF n
<1>3. \A i : /\ Batched(i)' <=> Batched(i) \/ In(i, out)
             /\ Collecting(i)' <=> In(i, workQueue) \/ In(i, current)
             /\ InWork(i)' <=> InWork(i)
             /\ ~In(i, out')
  BY <1>1, <1>2, EmptyList DEF Batched, Collecting, InWork
<1>4. ListTypes'
  BY <1>1, <1>2 DEF SchedulerInv, ListTypes
<1>5. OnceInv'
  BY <1>1, <1>2, EmptyList DEF SchedulerInv, OnceInv
<1>6. ApartInv'
  <2>1. \A i \in Jobs, k, l \in DOMAIN batchQueue' : In(i, batchQueue'[k]) /\ In(i, batchQueue'[l]) => k = l
    BY <1>2 DEF SchedulerInv, ApartInv, Collecting, Batched
  <2>2. \A i \in Jobs, r, q \in Runners : In(i, running'[r]) /\ In(i, running'[q]) => r = q
    BY <1>1 DEF SchedulerInv, ApartInv
  <2>3. \A i \in Jobs :
          /\ ~(In(i, workQueue') /\ In(i, current'))
          /\ ~(In(i, workQueue') /\ In(i, out'))
          /\ ~(In(i, current') /\ In(i, out'))
          /\ ~(Collecting(i)' /\ Batched(i)')
          /\ ~(Collecting(i)' /\ InWork(i)')
          /\ ~(Batched(i)' /\ InWork(i)')
    BY <1>1, <1>3 DEF SchedulerInv, ApartInv, Collecting
  <2> QED
    BY <2>1, <2>2, <2>3 DEF ApartInv
<1>7. WaitInv'
  BY <1>1, <1>3 DEF SchedulerInv, WaitInv, Collecting
<1> QED
  BY <1>4, <1>5, <1>6, <1>7 DEF SchedulerInv

\* A runner takes the first batch; the places of the others in the queue change.
LEMMA RunBatchInv ==
    ASSUME SchedulerInv, NEW r \in Runners, RunBatch(r)
    PROVE  SchedulerInv'
<1>1. /\ batchQueue \in Seq(Seq(Jobs)) /\ batchQueue # <<>> /\ running \in [Runners -> Seq(Jobs)] /\ running[r] = <<>>
      /\ running' = [running EXCEPT ![r] = Head(batchQueue)] /\ batchQueue' = Tail(batchQueue)
      /\ job' = job /\ workQueue' = workQueue /\ current' = current /\ out' = out /\ ticking' = ticking
      /\ verdict' \in [Runners -> {"none", "ok", "failed"}] /\ verdict'[r] # "none"
      /\ \A q \in Runners \ {r} : verdict'[q] = verdict[q]
  BY DEF SchedulerInv, ListTypes, RunBatch
<1>2. /\ batchQueue' \in Seq(Seq(Jobs)) /\ 1 \in DOMAIN batchQueue /\ Head(batchQueue) = batchQueue[1]
      /\ batchQueue[1] \in Seq(Jobs)
      /\ \A k \in DOMAIN batchQueue' : k + 1 \in DOMAIN batchQueue /\ k \in Nat \ {0} /\ batchQueue'[k] = batchQueue[k + 1]
      /\ \A k \in DOMAIN batchQueue : k = 1 \/ (k - 1 \in DOMAIN batchQueue' /\ batchQueue'[k - 1] = batchQueue[k])
  <2>1. /\ Tail(batchQueue) \in Seq(Seq(Jobs)) /\ Len(batchQueue) \in Nat \ {0}
        /\ DOMAIN batchQueue = 1..Len(batchQueue) /\ DOMAIN Tail(batchQueue) = 1..(Len(batchQueue) - 1)
        /\ \A k \in 1..(Len(batchQueue) - 1) : Tail(batchQueue)[k] = batchQueue[k + 1]
        /\ Head(batchQueue) = batchQueue[1] /\ batchQueue[1] \in Seq(Jobs)
    BY <1>1
  <2>2. \A k \in 1..Len(batchQueue) : k = 1 \/ (k - 1 \in 1..(Len(batchQueue) - 1) /\ (k - 1) + 1 = k)
    BY <2>1
  <2>3. \A k \in DOMAIN batchQueue' : k + 1 \in DOMAIN batchQueue /\ k \in Nat \ {0} /\ batchQueue'[k] = batchQueue[k + 1]
    BY <1>1, <2>1
  <2>4. ASSUME NEW k \in DOMAIN batchQueue, k # 1
        PROVE  k - 1 \in DOMAIN batchQueue' /\ batchQueue'[k - 1] = batchQueue[k]
    <3>1. k \in 1..Len(batchQueue) /\ k - 1 \in 1..(Len(batchQueue) - 1) /\ (k - 1) + 1 = k
      BY <2>1, <2>2, <2>4
    <3>2. Tail(batchQueue)[k - 1] = batchQueue[(k - 1) + 1]
      BY <2>1, <3>1
    <3> QED
      BY <1>1, <2>1, <3>1, <3>2
  <2>5. batchQueue' \in Seq(Seq(Jobs)) /\ 1 \in DOMAIN batchQueue
    BY <1>1, <2>1
  <2> QED
    BY <2>1, <2>3, <2>4, <2>5
<1>3. /\ running' \in [Runners -> Seq(Jobs)] /\ running'[r] = batchQueue[1]
      /\ \A q \in Runners \ {r} : running'[q] = running[q]
      /\ \A i : ~In(i, running[r])
  BY <1>1, <1>2, EmptyList
<1>4. \A i : InWork(i)' <=> InWork(i) \/ In(i, batchQueue[1])
  BY <1>3 DEF InWork
<1>5. \A i \in Jobs : Batched(i)' <=> Batched(i) /\ ~In(i, batchQueue[1])
  <2> SUFFICES ASSUME NEW i \in Jobs PROVE Batched(i)' <=> Batched(i) /\ ~In(i, batchQueue[1])
    OBVIOUS
  <2>1. ASSUME Batched(i)' PROVE Batched(i) /\ ~In(i, batchQueue[1])
    <3>1. PICK k \in DOMAIN batchQueue' : In(i, batchQueue'[k])
      BY <2>1 DEF Batched
    <3>2. k + 1 \in DOMAIN batchQueue /\ In(i, batchQueue[k + 1]) /\ k + 1 # 1
      BY <1>2, <3>1
    <3> QED
      BY <1>2, <3>2 DEF SchedulerInv, ApartInv, Batched
  <2>2. ASSUME Batched(i), ~In(i, batchQueue[1]) PROVE Batched(i)'
    <3>1. PICK k \in DOMAIN batchQueue : In(i, batchQueue[k])
      BY <2>2 DEF Batched
    <3>2. k - 1 \in DOMAIN batchQueue' /\ In(i, batchQueue'[k - 1])
      BY <1>2, <2>2, <3>1
    <3> QED
      BY <3>2 DEF Batched
  <2> QED
    BY <2>1, <2>2
<1>6. \A i : Collecting(i)' <=> Collecting(i)
  BY <1>1 DEF Collecting
<1>7. \A i \in Jobs : In(i, batchQueue[1]) => Batched(i)
  BY <1>2 DEF Batched
<1>8. ListTypes'
  BY <1>1, <1>2, <1>3 DEF SchedulerInv, ListTypes
<1>9. OnceInv'
  BY <1>1, <1>2, <1>3 DEF SchedulerInv, OnceInv
<1>10. ApartInv'
  <2>1. \A i \in Jobs, k, l \in DOMAIN batchQueue' : In(i, batchQueue'[k]) /\ In(i, batchQueue'[l]) => k = l
    <3> SUFFICES ASSUME NEW i \in Jobs, NEW k \in DOMAIN batchQueue', NEW l \in DOMAIN batchQueue',
                        In(i, batchQueue'[k]), In(i, batchQueue'[l])
                 PROVE  k = l
      OBVIOUS
    <3>1. k + 1 = l + 1
      BY <1>2 DEF SchedulerInv, ApartInv
    <3> QED
      BY <1>2, <3>1
  <2>2. \A i \in Jobs, p, q \in Runners : In(i, running'[p]) /\ In(i, running'[q]) => p = q
    BY <1>3, <1>7 DEF SchedulerInv, ApartInv, InWork
  <2>3. \A i \in Jobs :
          /\ ~(In(i, workQueue') /\ In(i, current'))
          /\ ~(In(i, workQueue') /\ In(i, out'))
          /\ ~(In(i, current') /\ In(i, out'))
          /\ ~(Collecting(i)' /\ Batched(i)')
          /\ ~(Collecting(i)' /\ InWork(i)')
          /\ ~(Batched(i)' /\ InWork(i)')
    BY <1>1, <1>4, <1>5, <1>6, <1>7 DEF SchedulerInv, ApartInv
  <2> QED
    BY <2>1, <2>2, <2>3 DEF ApartInv
<1>11. WaitInv'
  BY <1>1, <1>4, <1>5, <1>6, <1>7 DEF SchedulerInv, WaitInv
<1> QED
  BY <1>8, <1>9, <1>10, <1>11 DEF SchedulerInv

\* A caller is answered: its job is nowhere any more.
LEMMA AnswerInv ==
    ASSUME SchedulerInv, NEW r \in Runners, Answer(r)
    PROVE  SchedulerInv'
<1> DEFINE h == Head(running[r])
<1>1. /\ running \in [Runners -> Seq(Jobs)] /\ running[r] # <<>> /\ Once(running[r])
      /\ running' = [running EXCEPT ![r] = Tail(running[r])] /\ job' = [job EXCEPT ![h] = verdict[r]]
      /\ verdict[r] \in {"ok", "failed"}
      /\ workQueue' = workQueue /\ current' = current /\ out' = out /\ batchQueue' = batchQueue
      /\ ticking' = ticking /\ verdict' = verdict
  BY DEF SchedulerInv, ListTypes, OnceInv, Answer, createVars
<1>2. /\ Tail(running[r]) \in Seq(Jobs) /\ h \in Jobs /\ In(h, running[r]) /\ Once(Tail(running[r]))
      /\ \A i : In(i, Tail(running[r])) <=> In(i, running[r]) /\ i # h
  BY <1>1, TailList
<1> HIDE DEF h
<1>3. /\ running' \in [Runners -> Seq(Jobs)] /\ Once(running'[r])
      /\ \A i : In(i, running'[r]) <=> In(i, running[r]) /\ i # h
      /\ \A q \in Runners \ {r} : running'[q] = running[q]
  BY <1>1, <1>2
<1>4. /\ job' \in [Jobs -> {"new", "waiting", "ok", "failed"}] /\ job'[h] # "waiting"
      /\ \A i \in Jobs : i # h => job'[i] = job[i]
  BY <1>1, <1>2 DEF SchedulerInv, ListTypes
<1>5. \A i : (Collecting(i)' <=> Collecting(i)) /\ (Batched(i)' <=> Batched(i))
  BY <1>1 DEF Collecting, Batched
<1>6. \A i \in Jobs : InWork(i)' <=> InWork(i) /\ i # h
  BY <1>2, <1>3 DEF InWork, SchedulerInv, ApartInv
<1>7. ListTypes'
  BY <1>1, <1>3, <1>4 DEF SchedulerInv, ListTypes
<1>8. OnceInv'
  BY <1>1, <1>3 DEF SchedulerInv, OnceInv
<1>9. ApartInv'
  <2>1. \A i \in Jobs, k, l \in DOMAIN batchQueue' : In(i, batchQueue'[k]) /\ In(i, batchQueue'[l]) => k = l
    BY <1>1 DEF SchedulerInv, ApartInv
  <2>2. \A i \in Jobs, p, q \in Runners : In(i, running'[p]) /\ In(i, running'[q]) => p = q
    BY <1>3 DEF SchedulerInv, ApartInv
  <2>3. \A i \in Jobs :
          /\ ~(In(i, workQueue') /\ In(i, current'))
          /\ ~(In(i, workQueue') /\ In(i, out'))
          /\ ~(In(i, current') /\ In(i, out'))
          /\ ~(Collecting(i)' /\ Batched(i)')
          /\ ~(Collecting(i)' /\ InWork(i)')
          /\ ~(Batched(i)' /\ InWork(i)')
    BY <1>1, <1>5, <1>6 DEF SchedulerInv, ApartInv
  <2> QED
    BY <2>1, <2>2, <2>3 DEF ApartInv
<1>10. WaitInv'
  <2>1. InWork(h)
    BY <1>2 DEF InWork
  <2> QED
    BY <1>1, <1>2, <1>4, <1>5, <1>6, <2>1 DEF SchedulerInv, WaitInv, ApartInv
<1> QED
  BY <1>7, <1>8, <1>9, <1>10 DEF SchedulerInv

\* Steps that leave the lists alone.
LEMMA SameListsInv ==
    ASSUME SchedulerInv,
           job' = job /\ workQueue' = workQueue /\ current' = current /\ out' = out /\ ticking' = ticking
           /\ batchQueue' = batchQueue /\ running' = running /\ verdict' = verdict
    PROVE  SchedulerInv'
  BY DEF SchedulerInv, ListTypes, OnceInv, ApartInv, WaitInv, Collecting, Batched, InWork

\* Every step keeps the invariant.
LEMMA SchedulerStep == SchedulerInv /\ [JSNext]_jsVars => SchedulerInv'
<1> SUFFICES ASSUME SchedulerInv, [JSNext]_jsVars PROVE SchedulerInv'
  OBVIOUS
<1>1. ASSUME NEW j \in Jobs, ScheduleJob(j) PROVE SchedulerInv'
  BY <1>1, ScheduleInv
<1>2. CASE CollectJob
  BY <1>2, CollectInv
<1>3. CASE BatchTick
  BY <1>3, TickInv
<1>4. CASE Leave
  BY <1>4, LeaveInv
<1>5. CASE SendBatch
  BY <1>5, SendInv
<1>6. CASE CreateEnds
  BY <1>6, SameListsInv DEF CreateEnds, runVars
<1>7. ASSUME NEW r \in Runners, RunBatch(r) PROVE SchedulerInv'
  BY <1>7, RunBatchInv
<1>8. ASSUME NEW r \in Runners, Answer(r) PROVE SchedulerInv'
  BY <1>8, AnswerInv
<1>9. ASSUME NEW r \in Runners, RunnerEnds(r) PROVE SchedulerInv'
  BY <1>9, SameListsInv DEF RunnerEnds, createVars
<1>10. CASE CancelScheduler
  BY <1>10, SameListsInv DEF CancelScheduler, createVars, runVars
<1>11. CASE UNCHANGED jsVars
  BY <1>11, SameListsInv DEF jsVars, createVars, runVars
<1> QED
  BY <1>1, <1>2, <1>3, <1>4, <1>5, <1>6, <1>7, <1>8, <1>9, <1>10, <1>11
     DEF JSNext, CreateBatches, ExecuteBatches

\* The invariant implies the property, which speaks of the lists by their number.
LEMMA InvIsOnce == SchedulerInv => WaitingOnce
<1> SUFFICES ASSUME SchedulerInv PROVE WaitingOnce
  OBVIOUS
<1> DEFINE lists == <<workQueue, current, out>> \o batchQueue
<1>1. /\ DOMAIN batchQueue = 1..Len(batchQueue) /\ Len(batchQueue) \in Nat
      /\ DOMAIN lists = 1..(3 + Len(batchQueue))
      /\ lists[1] = workQueue /\ lists[2] = current /\ lists[3] = out
      /\ \A k \in DOMAIN batchQueue : lists[k + 3] = batchQueue[k]
  <2>1. /\ batchQueue \in Seq(Seq(Jobs))
        /\ workQueue \in Seq(Jobs) /\ current \in Seq(Jobs) /\ out \in Seq(Jobs)
    BY DEF SchedulerInv, ListTypes
  <2>2. /\ DOMAIN batchQueue = 1..Len(batchQueue) /\ Len(batchQueue) \in Nat
        /\ DOMAIN lists = 1..(3 + Len(batchQueue))
        /\ lists[1] = workQueue /\ lists[2] = current /\ lists[3] = out
        /\ \A k \in 1..Len(batchQueue) : lists[k + 3] = batchQueue[k]
    <3>1. lists = <<workQueue, current, out>> \o batchQueue
      OBVIOUS
    <3> HIDE DEF lists
    <3> QED
      BY <2>1, <3>1, ConcatList
  <2> HIDE DEF lists
  <2> QED
    BY <2>2
<1>2. \A i \in DOMAIN lists : i \in {1, 2, 3} \/ (i - 3 \in DOMAIN batchQueue /\ i \in Nat /\ lists[i] = batchQueue[i - 3])
  BY <1>1
<1> HIDE DEF lists
<1>3. ASSUME NEW s, NEW j PROVE j \in Range(s) <=> In(j, s)
  BY DEF Range, In
<1>4. ASSUME NEW i \in DOMAIN lists PROVE Once(lists[i])
  BY <1>1, <1>2 DEF SchedulerInv, OnceInv
<1>5. \A i \in DOMAIN lists : \A j : In(j, lists[i]) => Collecting(j) \/ Batched(j)
  BY <1>1, <1>2 DEF Collecting, Batched
<1>6. \A j : Collecting(j) \/ Batched(j) => \E i \in DOMAIN lists : In(j, lists[i])
  <2>1. \A j : Collecting(j) => \E i \in DOMAIN lists : In(j, lists[i])
    BY <1>1 DEF Collecting
  <2>2. ASSUME NEW j, Batched(j) PROVE \E i \in DOMAIN lists : In(j, lists[i])
    <3>1. PICK k \in DOMAIN batchQueue : In(j, batchQueue[k])
      BY <2>2 DEF Batched
    <3>2. k + 3 \in DOMAIN lists /\ In(j, lists[k + 3])
      BY <1>1, <3>1
    <3> QED
      BY <3>2
  <2> QED
    BY <2>1, <2>2
<1>7. \A i \in DOMAIN lists : \A j : In(j, lists[i]) => j \in Jobs
  <2>1. \A i \in DOMAIN lists : lists[i] \in Seq(Jobs)
    <3>1. workQueue \in Seq(Jobs) /\ current \in Seq(Jobs) /\ out \in Seq(Jobs)
      BY DEF SchedulerInv, ListTypes
    <3>2. \A k \in DOMAIN batchQueue : batchQueue[k] \in Seq(Jobs)
      BY DEF SchedulerInv, ListTypes
    <3>3. \A i \in {1, 2, 3} : lists[i] \in Seq(Jobs)
      BY <1>1, <3>1
    <3> QED
      BY <1>2, <3>2, <3>3
  <2>2. \A s \in Seq(Jobs) : \A k \in DOMAIN s : s[k] \in Jobs
    OBVIOUS
  <2> QED
    BY <2>1, <2>2 DEF In
<1>8. ASSUME NEW i \in DOMAIN lists, NEW k \in DOMAIN lists, k # i PROVE Apart(lists[i], lists[k])
  <2> SUFFICES ASSUME NEW j \in Jobs, In(j, lists[i]), In(j, lists[k]) PROVE FALSE
    BY <1>3, <1>7 DEF Apart
  <2>1. /\ ~(In(j, workQueue) /\ In(j, current))
        /\ ~(In(j, workQueue) /\ In(j, out))
        /\ ~(In(j, current) /\ In(j, out))
        /\ ~(Collecting(j) /\ Batched(j))
    BY DEF SchedulerInv, ApartInv
  <2>2. CASE i \in {1, 2, 3} /\ k \in {1, 2, 3}
    BY <1>1, <1>8, <2>1, <2>2
  <2>3. \A l \in DOMAIN lists : l \notin {1, 2, 3} /\ In(j, lists[l]) => Batched(j)
    BY <1>2 DEF Batched
  <2>4. \A l \in {1, 2, 3} : In(j, lists[l]) => Collecting(j)
    BY <1>1 DEF Collecting
  <2>5. CASE i \notin {1, 2, 3} /\ k \notin {1, 2, 3}
    <3>1. i - 3 = k - 3
      BY <1>2, <2>5 DEF SchedulerInv, ApartInv
    <3> QED
      BY <1>2, <1>8, <2>5, <3>1
  <2> QED
    BY <2>1, <2>2, <2>3, <2>4, <2>5
<1>9. ASSUME NEW i \in DOMAIN lists, NEW r \in Runners PROVE Apart(lists[i], running[r])
  BY <1>3, <1>5, <1>7 DEF Apart, SchedulerInv, ApartInv, InWork
<1>10. ASSUME NEW r \in Runners PROVE Once(running[r])
  BY DEF SchedulerInv, OnceInv
<1>11. ASSUME NEW r \in Runners, NEW q \in Runners, q # r PROVE Apart(running[r], running[q])
  <2>1. \A j : In(j, running[r]) => j \in Jobs
    BY DEF SchedulerInv, ListTypes, In
  <2> QED
    BY <1>3, <1>11, <2>1 DEF Apart, SchedulerInv, ApartInv
<1>12. ASSUME NEW j \in Jobs
       PROVE  job[j] = "waiting" <=> \/ \E i \in DOMAIN lists : j \in Range(lists[i])
                                     \/ \E r \in Runners : j \in Range(running[r])
  BY <1>3, <1>5, <1>6 DEF SchedulerInv, WaitInv, InWork
<1>13. current # <<>> => ticking
  BY DEF SchedulerInv, WaitInv
<1> QED
  BY <1>4, <1>8, <1>9, <1>10, <1>11, <1>12, <1>13 DEF WaitingOnce, lists

\* Every waiting caller's job is in exactly one place on its way from ScheduleJob to
\* executeBatches, and an open batch has a running ticker: for any number of callers and
\* runners and any batch size, whatever races with the end of the context.
THEOREM JobsAreInOnePlace == JSSpec => []WaitingOnce
<1>1. JSSpec => []SchedulerInv
  BY NewSchedulerInv, SchedulerStep, PTL DEF JSSpec
<1> QED
  BY <1>1, InvIsOnce, PTL

\* What the steps do to the length of a list.
LEMMA ListLengths ==
    ASSUME NEW S, NEW s \in Seq(S)
    PROVE  /\ Len(s) \in Nat /\ DOMAIN s = 1..Len(s)
           /\ \A x \in S : /\ Append(s, x) \in Seq(S) /\ Len(Append(s, x)) = Len(s) + 1
                           /\ \A i \in DOMAIN Append(s, x) : Append(s, x)[i] = x \/ (i \in DOMAIN s /\ Append(s, x)[i] = s[i])
           /\ s # <<>> => /\ Head(s) \in S /\ Head(s) = s[1] /\ 1 \in DOMAIN s
                          /\ Tail(s) \in Seq(S) /\ Len(Tail(s)) = Len(s) - 1
                          /\ \A i \in DOMAIN Tail(s) : i + 1 \in DOMAIN s /\ Tail(s)[i] = s[i + 1]
<1>1. Len(s) \in Nat /\ DOMAIN s = 1..Len(s)
  OBVIOUS
<1>2. ASSUME NEW x \in S
      PROVE  /\ Append(s, x) \in Seq(S) /\ Len(Append(s, x)) = Len(s) + 1
             /\ \A i \in DOMAIN Append(s, x) : Append(s, x)[i] = x \/ (i \in DOMAIN s /\ Append(s, x)[i] = s[i])
  OBVIOUS
<1>3. ASSUME s # <<>>
      PROVE  /\ Head(s) \in S /\ Head(s) = s[1] /\ 1 \in DOMAIN s
             /\ Tail(s) \in Seq(S) /\ Len(Tail(s)) = Len(s) - 1
             /\ \A i \in DOMAIN Tail(s) : i + 1 \in DOMAIN s /\ Tail(s)[i] = s[i + 1]
  BY <1>3
<1> QED
  BY <1>1, <1>2, <1>3

\* The empty list, which every list starts as.
LEMMA NoJobs == ASSUME NEW S PROVE <<>> \in Seq(S) /\ Len(<<>>) = 0 /\ DOMAIN <<>> = {}
  OBVIOUS

\* Every step keeps the lists within their room; what a caller is told needs the
\* verdict of the batch, which SchedulerInv knows.
LEMMA SchedulerTypeStep == JSTypeOK /\ SchedulerInv /\ [JSNext]_jsVars => JSTypeOK'
<1> SUFFICES ASSUME JSTypeOK, SchedulerInv, [JSNext]_jsVars PROVE JSTypeOK'
  OBVIOUS
<1>n. RunnerCount \in Nat /\ MaxBatchSize \in Nat \ {0}
  BY SchedulerAssumption, FS_CardinalityType DEF RunnerCount
<1>1. ASSUME NEW j \in Jobs, ScheduleJob(j) PROVE JSTypeOK'
  <2>1. workQueue' \in Seq(Jobs) /\ Len(workQueue') <= RunnerCount
    BY <1>n, <1>1, ListLengths DEF ScheduleJob, JSTypeOK
  <2>2. job' \in [Jobs -> {"new", "waiting", "ok", "failed"}]
    BY <1>1 DEF ScheduleJob, JSTypeOK
  <2> QED
    BY <1>1, <2>1, <2>2 DEF ScheduleJob, JSTypeOK, runVars
<1>2. CASE CollectJob
  <2> DEFINE batch == Append(current, Head(workQueue))
  <2>1. workQueue' \in Seq(Jobs) /\ Len(workQueue') <= RunnerCount /\ Head(workQueue) \in Jobs
    BY <1>n, <1>2, ListLengths DEF CollectJob, JSTypeOK
  <2>2. batch \in Seq(Jobs) /\ Len(batch) \in Nat /\ Len(batch) <= MaxBatchSize
    <3>1. batch \in Seq(Jobs) /\ Len(batch) = Len(current) + 1 /\ Len(current) \in Nat
      BY <2>1, ListLengths DEF JSTypeOK
    <3> QED
      BY <1>n, <3>1 DEF JSTypeOK
  <2>3. /\ current' = IF Full(batch) THEN <<>> ELSE batch
        /\ out' = IF Full(batch) THEN batch ELSE <<>>
        /\ ticking' = ~Full(batch)
    BY <1>2 DEF CollectJob
  <2> HIDE DEF batch
  <2>4. current' \in Seq(Jobs) /\ Len(current') < MaxBatchSize
    BY <1>n, <2>2, <2>3, NoJobs DEF Full
  <2>5. out' \in Seq(Jobs) /\ Len(out') <= MaxBatchSize
    BY <1>n, <2>2, <2>3, NoJobs
  <2>6. ticking' \in BOOLEAN
    BY <2>3 DEF Full
  <2> QED
    BY <1>2, <2>1, <2>4, <2>5, <2>6 DEF CollectJob, JSTypeOK, runVars
<1>3. ASSUME BatchTick \/ Leave PROVE JSTypeOK'
  <2>1. current' \in {<<>>, current} /\ out' \in {<<>>, current}
    BY <1>3 DEF BatchTick, Leave, LeaveWith
  <2>e. \A list \in {<<>>, current} :
          list \in Seq(Jobs) /\ Len(list) < MaxBatchSize /\ Len(list) <= MaxBatchSize
    <3>1. <<>> \in Seq(Jobs) /\ Len(<<>>) < MaxBatchSize /\ Len(<<>>) <= MaxBatchSize
      BY <1>n, NoJobs
    <3>2. current \in Seq(Jobs) /\ Len(current) < MaxBatchSize /\ Len(current) <= MaxBatchSize
      <4>1. current \in Seq(Jobs) /\ Len(current) < MaxBatchSize
        BY DEF JSTypeOK
      <4>2. Len(current) \in Nat
        BY <4>1, ListLengths
      <4> QED
        BY <1>n, <4>1, <4>2
    <3> QED
      BY <3>1, <3>2
  <2>2. current' \in Seq(Jobs) /\ Len(current') < MaxBatchSize
    BY <2>1, <2>e
  <2>3. out' \in Seq(Jobs) /\ Len(out') <= MaxBatchSize
    BY <2>1, <2>e
  <2> QED
    BY <1>3, <2>2, <2>3 DEF BatchTick, Leave, JSTypeOK, runVars
<1>4. CASE SendBatch
  <2>1. batchQueue \in Seq(Seq(Jobs)) /\ out \in Seq(Jobs) /\ Len(batchQueue) < RunnerCount
        /\ batchQueue' = Append(batchQueue, out) /\ out' = <<>>
    BY <1>4 DEF SendBatch, JSTypeOK
  <2>2. batchQueue' \in Seq(Seq(Jobs)) /\ Len(batchQueue') <= RunnerCount
    BY <1>n, <2>1, ListLengths
  <2>3. \A i \in DOMAIN batchQueue' : batchQueue'[i] = out \/ (i \in DOMAIN batchQueue /\ batchQueue'[i] = batchQueue[i])
    BY <2>1, ListLengths
  <2>4. \A i \in DOMAIN batchQueue' : Len(batchQueue'[i]) <= MaxBatchSize
    BY <2>3 DEF JSTypeOK
  <2>5. out' \in Seq(Jobs) /\ Len(out') <= MaxBatchSize
    BY <1>n, <2>1, NoJobs
  <2> QED
    BY <1>4, <2>2, <2>4, <2>5 DEF SendBatch, JSTypeOK, runVars
<1>5. CASE CreateEnds
  BY <1>5 DEF CreateEnds, CreateEnded, JSTypeOK, runVars
<1>6. ASSUME NEW r \in Runners, RunBatch(r) PROVE JSTypeOK'
  <2>1. batchQueue \in Seq(Seq(Jobs)) /\ batchQueue # <<>> /\ Len(batchQueue) <= RunnerCount
        /\ batchQueue' = Tail(batchQueue) /\ running' = [running EXCEPT ![r] = Head(batchQueue)]
    BY <1>6 DEF RunBatch, JSTypeOK
  <2>2. /\ batchQueue' \in Seq(Seq(Jobs)) /\ Len(batchQueue') <= RunnerCount
        /\ \A i \in DOMAIN batchQueue' : i + 1 \in DOMAIN batchQueue /\ batchQueue'[i] = batchQueue[i + 1]
        /\ Head(batchQueue) \in Seq(Jobs) /\ 1 \in DOMAIN batchQueue /\ Head(batchQueue) = batchQueue[1]
    BY <1>n, <2>1, ListLengths
  <2>3. \A i \in DOMAIN batchQueue' : Len(batchQueue'[i]) <= MaxBatchSize
    BY <2>2 DEF JSTypeOK
  <2>4. Len(Head(batchQueue)) <= MaxBatchSize
    BY <2>2 DEF JSTypeOK
  <2>5. running' \in [Runners -> Seq(Jobs)] /\ \A q \in Runners : Len(running'[q]) <= MaxBatchSize
    BY <2>1, <2>2, <2>4 DEF JSTypeOK
  <2>6. verdict' \in [Runners -> {"none", "ok", "failed"}]
    BY <1>6 DEF RunBatch, JSTypeOK
  <2> QED
    BY <1>6, <2>2, <2>3, <2>5, <2>6 DEF RunBatch, JSTypeOK
<1>7. ASSUME NEW r \in Runners, Answer(r) PROVE JSTypeOK'
  <2>1. running[r] \in Seq(Jobs) /\ running[r] # <<>> /\ Len(running[r]) <= MaxBatchSize
    BY <1>7 DEF Answer, JSTypeOK
  <2>2. /\ Head(running[r]) \in Jobs /\ Tail(running[r]) \in Seq(Jobs)
        /\ Len(Tail(running[r])) <= MaxBatchSize
    BY <1>n, <2>1, ListLengths
  <2>3. running' \in [Runners -> Seq(Jobs)] /\ \A q \in Runners : Len(running'[q]) <= MaxBatchSize
    BY <1>7, <2>2 DEF Answer, JSTypeOK
  <2>4. verdict[r] \in {"ok", "failed"}
    BY <2>1 DEF SchedulerInv, ListTypes
  <2>5. job' \in [Jobs -> {"new", "waiting", "ok", "failed"}]
    BY <1>7, <2>2, <2>4 DEF Answer, JSTypeOK
  <2> QED
    BY <1>7, <2>3, <2>5 DEF Answer, JSTypeOK, createVars
<1>8. ASSUME NEW r \in Runners, RunnerEnds(r) PROVE JSTypeOK'
  BY <1>8 DEF RunnerEnds, JSTypeOK, createVars
<1>9. CASE CancelScheduler
  BY <1>9 DEF CancelScheduler, JSTypeOK, createVars, runVars
<1>10. CASE UNCHANGED jsVars
  BY <1>10 DEF jsVars, JSTypeOK, createVars, runVars
<1> QED
  BY <1>1, <1>2, <1>3, <1>4, <1>5, <1>6, <1>7, <1>8, <1>9, <1>10
     DEF JSNext, CreateBatches, ExecuteBatches

\* No batch is larger than MaxBatchSize, in the making, queued or in work, and neither
\* queue holds more than there are runners: the room their channels are made with.
THEOREM SchedulerTypes == JSSpec => []JSTypeOK
<1>1. JSInit => JSTypeOK
  <2> SUFFICES ASSUME JSInit PROVE JSTypeOK
    OBVIOUS
  <2>1. RunnerCount \in Nat /\ MaxBatchSize \in Nat \ {0}
    BY SchedulerAssumption, FS_CardinalityType DEF RunnerCount
  <2>2. <<>> \in Seq(Jobs) /\ <<>> \in Seq(Seq(Jobs)) /\ Len(<<>>) = 0 /\ DOMAIN <<>> = {}
    BY NoJobs
  <2>3. /\ workQueue \in Seq(Jobs) /\ Len(workQueue) <= RunnerCount
        /\ current \in Seq(Jobs) /\ Len(current) < MaxBatchSize
        /\ out \in Seq(Jobs) /\ Len(out) <= MaxBatchSize
    BY <2>1, <2>2 DEF JSInit
  <2>4. /\ batchQueue \in Seq(Seq(Jobs)) /\ Len(batchQueue) <= RunnerCount
        /\ \A i \in DOMAIN batchQueue : Len(batchQueue[i]) <= MaxBatchSize
    BY <2>1, <2>2 DEF JSInit
  <2>5. running \in [Runners -> Seq(Jobs)] /\ \A r \in Runners : Len(running[r]) <= MaxBatchSize
    BY <2>1, <2>2 DEF JSInit
  <2> QED
    BY <2>3, <2>4, <2>5 DEF JSInit, JSTypeOK
<1> QED
  BY <1>1, NewSchedulerInv, SchedulerStep, SchedulerTypeStep, PTL DEF JSSpec

-----------------------------------------------------------------------------
(* The distributed lock.                                                   *)

\* What the deployment has to grant: clocks differ by no more than the margin, and
\* no renewal asks for less than the time a lock is acquired for.
Trusted == MaxSkew <= Margin * Second /\ LockTime <= RenewTime

-----------------------------------------------------------------------------
(* Whole seconds.                                                          *)

\* The Unix second of a tick: the division's quotient.
LEMMA UnixBounds ==
    ASSUME NEW t \in Int
    PROVE  /\ Unix(t) \in Int
           /\ Second * Unix(t) <= t
           /\ t < Second * (Unix(t) + 1)
  BY LockAssumption DEF Unix, LockAssumption

\* A tick that is later by at most some whole seconds has a Unix second that is
\* later by at most as many: what the margin of acquire relies on.
LEMMA UnixShift ==
    ASSUME NEW s \in Int, NEW t \in Int, NEW m \in Nat, s <= t + m * Second
    PROVE  Unix(s) <= Unix(t) + m
<1> DEFINE a == Unix(s)
           b == Unix(t) + m + 1
<1>1. /\ Second \in Int /\ Second > 0 /\ a \in Int /\ b \in Int
      /\ Second * a <= s /\ t < Second * (Unix(t) + 1)
  BY UnixBounds, LockAssumption DEF LockAssumption
<1>2. Second * b = Second * (Unix(t) + 1) + m * Second
  <2>1. Unix(t) \in Int
    BY UnixBounds
  <2> QED
    BY <1>1, <2>1
<1>3. Second * a < Second * b
  <2> HIDE DEF a, b
  <2>1. m * Second \in Int /\ Second * (Unix(t) + 1) \in Int /\ Second * a \in Int /\ Second * b \in Int
    BY <1>1, UnixBounds
  <2> QED
    BY <1>1, <1>2, <2>1
<1>4. a < b
  <2> HIDE DEF a, b
  <2> QED
    BY <1>1, <1>3
<1> QED
  BY <1>1, <1>4, UnixBounds

\* Later ticks have later Unix seconds.
LEMMA UnixMonotone ==
    ASSUME NEW s \in Int, NEW t \in Int, s <= t
    PROVE  Unix(s) <= Unix(t)
<1>1. s <= t + 0 * Second
  BY LockAssumption DEF LockAssumption
<1>2. Unix(s) <= Unix(t) + 0
  BY <1>1, UnixShift
<1> QED
  BY <1>2, UnixBounds

\* Ticks after the epoch are in seconds after it.
LEMMA UnixNat ==
    ASSUME NEW t \in Nat
    PROVE  Unix(t) \in Nat
<1>1. /\ Second \in Nat /\ Second > 0 /\ Unix(t) \in Int
      /\ t < Second * (Unix(t) + 1)
  BY UnixBounds, LockAssumption DEF LockAssumption
<1>2. SUFFICES ASSUME Unix(t) < 0 PROVE FALSE
  BY <1>1
<1>3. Second * (Unix(t) + 1) <= 0
  <2> DEFINE q == Unix(t) + 1
  <2>1. q \in Int /\ q <= 0
    BY <1>1, <1>2
  <2> HIDE DEF q
  <2>2. Second * q <= 0
    BY <1>1, <2>1
  <2> QED
    BY <2>2 DEF q
<1> QED
  BY <1>1, <1>3

-----------------------------------------------------------------------------
(* Types.                                                                  *)

LEMMA Numbers ==
    /\ Second \in Nat /\ Second > 0 /\ Margin \in Nat /\ LockTime \in Nat
    /\ RenewTime \in Nat /\ MaxSkew \in Nat
    /\ NoItem \notin [token : Clients \X Nat, ttl : Nat]
  BY LockAssumption DEF LockAssumption

\* Clocks show natural numbers.
LEMMA ClockNat ==
    ASSUME TypeOK, NEW c \in Clients
    PROVE  Clock(c) \in Nat /\ skew[c] \in Nat /\ skew[c] <= MaxSkew /\ now \in Nat
  BY Numbers DEF TypeOK, Clock

\* The types are kept by the steps of a client.
LEMMA TypeStep ==
    ASSUME TypeOK, [Next]_vars
    PROVE  TypeOK'
<1> USE DEF TypeOK, Goto, Called, Dropped
<1>1. ASSUME NEW c \in Clients, Client(c)
      PROVE  TypeOK'
  <2>0. Clock(c) \in Nat /\ at[c] \in Nat /\ expires[c] \in Nat
    BY ClockNat
  <2>1. Locked(c) \in [token : Clients \X Nat, ttl : Nat]
    <3>1. at[c] + LockTime \in Nat
      BY Numbers
    <3> QED
      BY <3>1, UnixNat DEF Locked, Token
  <2>2. Owned(c) => Renewed(c) \in [token : Clients \X Nat, ttl : Nat]
    <3>1. at[c] + RenewTime \in Nat
      BY Numbers
    <3>2. Unix(at[c] + RenewTime) \in Nat
      BY <3>1, UnixNat
    <3> QED
      BY <3>2 DEF Owned, Renewed
  <2>3. CASE Acquire(c)
    BY <2>3 DEF Acquire
  <2>4. CASE AcquireRead(c)
    BY <2>4, <2>0 DEF AcquireRead
  <2>5. CASE AcquirePut(c)
    <3>1. at[c] + LockTime \in Nat
      BY Numbers
    <3> QED
      BY <2>5, <2>1, <3>1 DEF AcquirePut
  <2>6. CASE AcquireOwned(c)
    BY <2>6 DEF AcquireOwned, AgainOrGiveUp
  <2>7. CASE AcquireError(c)
    BY <2>7, <2>1 DEF AcquireError, AgainOrGiveUp, Fault
  <2>8. CASE RenewRead(c)
    BY <2>8, <2>0 DEF RenewRead
  <2>9. CASE RenewLock(c)
    <3>1. at[c] + RenewTime \in Nat
      BY Numbers
    <3> QED
      BY <2>9, <2>2, <3>1 DEF RenewLock
  <2>10. CASE RenewError(c)
    BY <2>10, <2>2 DEF RenewError, Fault
  <2>11. CASE ReleaseLate(c)
    BY <2>11 DEF ReleaseLate
  <2>12. CASE Release(c)
    BY <2>12 DEF Release
  <2>13. CASE ReleaseLock(c)
    BY <2>13 DEF ReleaseLock, Fault
  <2>14. CASE Crash(c)
    BY <2>14 DEF Crash, Fault
  <2> QED
    BY <1>1, <2>3, <2>4, <2>5, <2>6, <2>7, <2>8, <2>9, <2>10, <2>11, <2>12, <2>13, <2>14
    DEF Client
<1>2. CASE TtlDelete
  BY <1>2 DEF TtlDelete
<1>3. CASE Tick
  BY <1>3 DEF Tick
<1>4. CASE UNCHANGED vars
  BY <1>4 DEF vars
<1> QED
  BY <1>1, <1>2, <1>3, <1>4 DEF Next

LEMMA TypeInit == Init => TypeOK
  BY Numbers DEF Init, TypeOK

\* Every reachable state has the types, and a lock object exists only while a
\* client holds, renews or releases its lock.
THEOREM TypesHold == Spec => []TypeOK
  BY TypeInit, TypeStep, PTL DEF Spec

-----------------------------------------------------------------------------
(* Mutual exclusion.                                                       *)

\* What a call has read from the clock is in the past, and no lease ends later than
\* one renewed with that reading: a renewal never leaves the item behind its lease.
LeasesEnd ==
    \A c \in Clients :
        /\ at[c] <= Clock(c)
        /\ expires[c] <= Clock(c) + RenewTime
        /\ pc[c] = "renew" => expires[c] <= at[c] + RenewTime

LockInv == TypeOK /\ LeasesEnd /\ OwnerIsCovered

LEMMA InvInit == Init => LockInv
<1> SUFFICES ASSUME Init PROVE LockInv
  OBVIOUS
<1>1. TypeOK
  BY TypeInit
<1>2. LeasesEnd
  <2> SUFFICES ASSUME NEW c \in Clients
               PROVE  /\ at[c] <= Clock(c) /\ expires[c] <= Clock(c) + RenewTime
                      /\ pc[c] # "renew"
    BY DEF LeasesEnd
  <2>1. Clock(c) \in Nat /\ at[c] = 0 /\ expires[c] = 0 /\ pc[c] = "idle"
    BY <1>1, ClockNat DEF Init
  <2>2. RenewTime \in Nat
    BY Numbers
  <2> QED
    BY <2>1, <2>2
<1>3. OwnerIsCovered
  BY DEF OwnerIsCovered, Owns, Init
<1> QED
  BY <1>1, <1>2, <1>3 DEF LockInv

LEMMA LeasesEndStep ==
    ASSUME Trusted, TypeOK, LeasesEnd, [Next]_vars
    PROVE  LeasesEnd'
<1>0. TypeOK'
  BY TypeStep
<1>1. ASSUME NEW c \in Clients
      PROVE  /\ Clock(c) \in Nat /\ Clock(c)' \in Nat /\ Clock(c) <= Clock(c)'
             /\ at[c] \in Nat /\ expires[c] \in Nat
  <2>1. skew' = skew /\ now' \in Nat /\ now <= now'
    <3> USE DEF TypeOK
    <3>1. ASSUME NEW d \in Clients, Client(d)
          PROVE  skew' = skew /\ now' = now
      BY <3>1 DEF Client, Acquire, AcquireRead, AcquirePut, AcquireOwned, AcquireError, RenewRead,
        RenewLock, RenewError, ReleaseLate, Release, ReleaseLock, Crash
    <3> QED
      BY <3>1 DEF Next, TtlDelete, Tick, vars
  <2> QED
    BY <2>1, <1>0, ClockNat DEF TypeOK, Clock
<1>2. /\ LockTime \in Nat /\ RenewTime \in Nat /\ LockTime <= RenewTime
  BY Numbers DEF Trusted
<1> USE DEF TypeOK, LeasesEnd, Goto, Called, Dropped
<1>3. ASSUME NEW d \in Clients, Client(d)
      PROVE  LeasesEnd'
  <2>1. CASE Acquire(d)
    BY <2>1, <1>1, <1>2 DEF Acquire
  <2>2. CASE AcquireRead(d)
    BY <2>2, <1>1, <1>2 DEF AcquireRead
  <2>3. CASE AcquirePut(d)
    BY <2>3, <1>1, <1>2 DEF AcquirePut
  <2>4. CASE AcquireOwned(d)
    BY <2>4, <1>1, <1>2 DEF AcquireOwned, AgainOrGiveUp
  <2>5. CASE AcquireError(d)
    BY <2>5, <1>1, <1>2 DEF AcquireError, AgainOrGiveUp
  <2>6. CASE RenewRead(d)
    BY <2>6, <1>1, <1>2 DEF RenewRead
  <2>7. CASE RenewLock(d)
    BY <2>7, <1>1, <1>2 DEF RenewLock
  <2>8. CASE RenewError(d)
    BY <2>8, <1>1, <1>2 DEF RenewError
  <2>9. CASE ReleaseLate(d)
    BY <2>9, <1>1, <1>2 DEF ReleaseLate
  <2>10. CASE Release(d)
    BY <2>10, <1>1, <1>2 DEF Release
  <2>11. CASE ReleaseLock(d)
    BY <2>11, <1>1, <1>2 DEF ReleaseLock
  <2>12. CASE Crash(d)
    BY <2>12, <1>1, <1>2 DEF Crash
  <2> QED
    BY <1>3, <2>1, <2>2, <2>3, <2>4, <2>5, <2>6, <2>7, <2>8, <2>9, <2>10, <2>11, <2>12 DEF Client
<1>4. CASE TtlDelete
  BY <1>4, <1>1, <1>2 DEF TtlDelete
<1>5. CASE Tick
  BY <1>5, <1>1, <1>2 DEF Tick
<1>6. CASE UNCHANGED vars
  BY <1>6, <1>1, <1>2 DEF vars
<1> QED
  BY <1>3, <1>4, <1>5, <1>6 DEF Next

\* An owner's item is not expired for anybody: neither for a client whose clock is
\* ahead by up to the margin, nor for DynamoDB.
LEMMA OwnerKeepsItem ==
    ASSUME Trusted, LockInv, NEW d \in Clients, Owns(d)
    PROVE  /\ \A c \in Clients : MayPut(c) => FALSE
           /\ ~(item.ttl < Unix(now))
<1>1. /\ Clock(d) \in Nat /\ expires[d] \in Nat /\ now \in Nat /\ skew[d] \in Nat
      /\ now <= Clock(d) /\ Clock(d) < expires[d]
      /\ item # NoItem /\ Unix(expires[d]) <= item.ttl /\ item.ttl \in Nat
  BY ClockNat DEF LockInv, TypeOK, OwnerIsCovered, Owns, Covered, Clock
<1>2. Unix(Clock(d)) <= item.ttl
  <2>1. Unix(Clock(d)) <= Unix(expires[d])
    BY <1>1, UnixMonotone
  <2> QED
    BY <1>1, <2>1, UnixBounds
<1>3. ASSUME NEW c \in Clients
      PROVE  ~MayPut(c)
  <2>1. at[c] <= Clock(d) + Margin * Second
    <3>1. /\ at[c] \in Nat /\ at[c] <= now + skew[c]
          /\ skew[c] \in Nat /\ skew[c] <= MaxSkew
      BY ClockNat DEF LockInv, TypeOK, LeasesEnd, Clock
    <3>2. MaxSkew <= Margin * Second /\ Margin * Second \in Nat /\ MaxSkew \in Nat
      BY Numbers DEF Trusted
    <3> QED
      BY <1>1, <3>1, <3>2
  <2>2. at[c] \in Nat /\ Margin \in Nat
    BY Numbers DEF LockInv, TypeOK
  <2>3. Unix(at[c]) <= Unix(Clock(d)) + Margin
    BY <1>1, <2>1, <2>2, UnixShift
  <2>4. Unix(at[c]) \in Int /\ Unix(Clock(d)) \in Int
    BY <1>1, <2>2, UnixBounds
  <2> QED
    BY <1>1, <1>2, <2>2, <2>3, <2>4 DEF MayPut
<1>4. ~(item.ttl < Unix(now))
  <2>1. Unix(now) <= Unix(Clock(d))
    BY <1>1, UnixMonotone
  <2> QED
    BY <1>1, <1>2, <2>1, UnixBounds
<1> QED
  BY <1>3, <1>4

\* The item covers the owner after every step: others cannot take it, a renewal by
\* the owner covers the old lease as well as the new one.
LEMMA CoveredStep ==
    ASSUME Trusted, LockInv, [Next]_vars
    PROVE  OwnerIsCovered'
<1>0. TypeOK /\ TypeOK' /\ LeasesEnd /\ LeasesEnd'
  BY TypeStep, LeasesEndStep DEF LockInv
<1> SUFFICES ASSUME NEW d \in Clients, Owns(d)'
             PROVE  Covered(d)'
  BY DEF OwnerIsCovered
<1>1. Owns(d) => Covered(d)
  BY DEF LockInv, OwnerIsCovered
<1> USE DEF Goto, Called, Dropped, Token
<1>2. CASE UNCHANGED vars
  BY <1>1, <1>2 DEF vars, Owns, Covered, Clock
<1>3. CASE Tick
  <2>1. Owns(d)
    BY <1>3, <1>0, ClockNat DEF Tick, Owns, Clock, TypeOK
  <2> QED
    BY <1>1, <1>3, <2>1 DEF Tick, Covered
<1>4. CASE TtlDelete
  <2>1. Owns(d)
    BY <1>4 DEF TtlDelete, Owns, Clock
  <2> QED
    BY <1>4, <2>1, OwnerKeepsItem DEF TtlDelete
<1>5. ASSUME NEW c \in Clients, c # d, Client(c)
      PROVE  Covered(d)'
  <2>1. nr'[d] = nr[d] /\ expires'[d] = expires[d] /\ Owns(d)
    <3>1. pc'[d] = pc[d] /\ nr'[d] = nr[d] /\ expires'[d] = expires[d] /\ now' = now /\ skew' = skew
      BY <1>5, <1>0 DEF Client, Acquire, AcquireRead, AcquirePut, AcquireOwned, AcquireError, RenewRead,
        RenewLock, RenewError, ReleaseLate, Release, ReleaseLock, Crash, AgainOrGiveUp, TypeOK
    <3> QED
      BY <3>1 DEF Owns, Clock
  <2>2. ~MayPut(c) /\ ~Owned(c)
    <3>1. ~MayPut(c)
      BY <2>1, OwnerKeepsItem
    <3>2. ~Owned(c)
      BY <1>1, <1>5, <2>1 DEF Owned, Covered
    <3> QED
      BY <3>1, <3>2
  <2>3. item' = item
    BY <1>5, <2>2 DEF Client, Acquire, AcquireRead, AcquirePut, AcquireOwned, AcquireError, RenewRead,
        RenewLock, RenewError, ReleaseLate, Release, ReleaseLock, Crash
  <2> QED
    BY <1>1, <2>1, <2>3 DEF Covered
<1>6. ASSUME Client(d)
      PROVE  Covered(d)'
  <2>1. CASE AcquirePut(d)
    <3>1. /\ item' = [token |-> <<d, nr[d]>>, ttl |-> Unix(at[d] + LockTime)]
          /\ expires'[d] = at[d] + LockTime /\ nr' = nr
      BY <2>1, <1>0 DEF AcquirePut, Locked, TypeOK
    <3>2. at[d] + LockTime \in Int
      BY <1>0, Numbers DEF TypeOK
    <3>3. item' # NoItem
      BY <3>1, <1>0, Numbers, UnixNat DEF TypeOK
    <3> QED
      BY <3>1, <3>2, <3>3, UnixBounds DEF Covered
  <2>2. CASE RenewRead(d)
    BY <2>2, <1>0, <1>1 DEF RenewRead, Owns, Clock, Covered, TypeOK
  <2>3. ASSUME RenewLock(d) \/ RenewError(d)
        PROVE  Covered(d)'
    <3>1. /\ pc[d] = "renew" /\ nr' = nr /\ now' = now /\ skew' = skew
          /\ expires'[d] \in {expires[d], at[d] + RenewTime}
          /\ expires'[d] # expires[d] => Owned(d) /\ item' = Renewed(d)
          /\ item' = item \/ (Owned(d) /\ item' = Renewed(d))
      BY <2>3, <1>0 DEF RenewLock, RenewError, TypeOK
    <3>2. CASE item' = item /\ expires'[d] = expires[d]
      BY <3>1, <3>2, <1>1 DEF Owns, Clock, Covered
    <3>3. CASE Owned(d) /\ item' = Renewed(d)
      <4>1. /\ at[d] \in Nat /\ expires[d] \in Nat /\ RenewTime \in Nat
            /\ expires'[d] <= at[d] + RenewTime /\ expires'[d] \in Nat
        BY <3>1, <1>0, Numbers DEF LeasesEnd, TypeOK
      <4>2. Unix(expires'[d]) <= Unix(at[d] + RenewTime)
        BY <4>1, UnixMonotone
      <4>3. item \in [token : Clients \X Nat, ttl : Nat] /\ item.token = <<d, nr[d]>>
        BY <3>3, <1>0 DEF Owned, TypeOK
      <4>4. item'.ttl = Unix(at[d] + RenewTime) /\ item'.token = <<d, nr[d]>>
        BY <3>3, <4>3 DEF Renewed
      <4>5. item' # NoItem
        <5>1. Unix(at[d] + RenewTime) \in Nat
          BY <4>1, UnixNat
        <5> QED
          BY <3>3, <4>3, <5>1, Numbers DEF Renewed
      <4> QED
        BY <3>1, <4>2, <4>4, <4>5 DEF Covered
    <3> QED
      BY <3>1, <3>2, <3>3
  <2> QED
    BY <1>6, <1>0, <2>1, <2>2, <2>3 DEF Client, Acquire, AcquireRead, AcquireOwned, AcquireError,
      AgainOrGiveUp, ReleaseLate, Release, ReleaseLock, Crash, Owns, TypeOK
<1> QED
  BY <1>2, <1>3, <1>4, <1>5, <1>6 DEF Next

\* Clients that own the lock at the same time are one client: both are named by the
\* token of the item.
LEMMA CoveredExcludes == OwnerIsCovered => MutualExclusion
  BY DEF OwnerIsCovered, MutualExclusion, Covered, Token

\* With clocks that differ by no more than the margin and renewals no shorter than
\* the lock time, the item of the resource covers whoever relies on the lock,
\* whatever calls fail, arrive late or are retried.
THEOREM OwnerCovered == ASSUME Trusted PROVE Spec => []OwnerIsCovered
<1>1. LockInv /\ [Next]_vars => LockInv'
  BY TypeStep, LeasesEndStep, CoveredStep DEF LockInv
<1>2. LockInv => OwnerIsCovered
  BY DEF LockInv
<1> QED
  BY InvInit, <1>1, <1>2, PTL DEF Spec

\* Under the same assumptions two clients never rely on the lock at once.
THEOREM LockExcludes == ASSUME Trusted PROVE Spec => []MutualExclusion
  BY OwnerCovered, CoveredExcludes, PTL

-----------------------------------------------------------------------------
(* How long the lock may be taken.                                         *)

LEMMA LeaseBoundedStep ==
    ASSUME Trusted, LockInv, LeaseBounded, [Next]_vars
    PROVE  LeaseBounded'
<1> DEFINE bound(n) == n + MaxSkew + Longest
<1>0. TypeOK /\ TypeOK' /\ LeasesEnd
  BY TypeStep DEF LockInv
<1>1. /\ Longest \in Nat /\ LockTime <= Longest /\ RenewTime <= Longest
      /\ LockTime \in Nat /\ RenewTime \in Nat /\ MaxSkew \in Nat
  BY Numbers DEF Longest
<1>2. bound(now) \in Nat /\ bound(now') \in Nat /\ bound(now) <= bound(now') /\ Unix(bound(now)) <= Unix(bound(now'))
  <2>1. now \in Nat /\ now' \in Nat /\ now <= now'
    <3>1. ASSUME NEW d \in Clients, Client(d)
          PROVE  now' = now
      BY <3>1 DEF Client, Acquire, AcquireRead, AcquirePut, AcquireOwned, AcquireError, RenewRead,
        RenewLock, RenewError, ReleaseLate, Release, ReleaseLock, Crash
    <3> QED
      BY <3>1, <1>0 DEF Next, TtlDelete, Tick, vars, TypeOK
  <2>2. bound(now) \in Nat /\ bound(now') \in Nat /\ bound(now) <= bound(now')
    <3>1. ASSUME NEW n \in Nat, NEW k \in Nat, n <= k
          PROVE  bound(n) \in Nat /\ bound(k) \in Nat /\ bound(n) <= bound(k)
      BY <1>1, <3>1
    <3> QED
      BY <2>1, <3>1
  <2> HIDE DEF bound
  <2> QED
    BY <2>2, UnixMonotone
<1>3. ASSUME NEW c \in Clients
      PROVE  /\ Unix(at[c] + LockTime) <= Unix(bound(now))
             /\ Unix(at[c] + RenewTime) <= Unix(bound(now))
  <2>1. at[c] \in Nat /\ at[c] <= now + MaxSkew /\ now \in Nat
    BY <1>0, <1>1, ClockNat DEF LeasesEnd, TypeOK, Clock
  <2>2. at[c] + LockTime <= bound(now) /\ at[c] + RenewTime <= bound(now)
    BY <1>1, <2>1
  <2> HIDE DEF bound
  <2> QED
    BY <1>1, <1>2, <2>1, <2>2, UnixMonotone
<1>4. \/ item' = item \/ item' = NoItem
      \/ \E c \in Clients : item' = Locked(c) \/ (Owned(c) /\ item' = Renewed(c))
  BY DEF Next, vars, Client, Acquire, AcquireRead, AcquirePut, AcquireOwned, AcquireError, RenewRead,
    RenewLock, RenewError, ReleaseLate, Release, ReleaseLock, Crash, TtlDelete, Tick
<1>5. SUFFICES ASSUME item' # NoItem
               PROVE  item'.ttl <= Unix(bound(now'))
  BY DEF LeaseBounded
<1>6. item'.ttl \in Nat /\ Unix(bound(now)) \in Int /\ Unix(bound(now')) \in Int
  <2>1. item'.ttl \in Nat
    BY <1>0, <1>5 DEF TypeOK
  <2> HIDE DEF bound
  <2> QED
    BY <1>2, <2>1, UnixBounds
<1>7. CASE item' = item
  <2>1. item'.ttl <= Unix(bound(now))
    BY <1>5, <1>7 DEF LeaseBounded
  <2> HIDE DEF bound
  <2> QED
    BY <1>2, <1>6, <2>1
<1>8. ASSUME NEW c \in Clients, item' = Locked(c) \/ (Owned(c) /\ item' = Renewed(c))
      PROVE  item'.ttl <= Unix(bound(now'))
  <2>1. item'.ttl \in {Unix(at[c] + LockTime), Unix(at[c] + RenewTime)}
    BY <1>8, <1>0 DEF Locked, Owned, Renewed, TypeOK
  <2> HIDE DEF bound
  <2> QED
    BY <1>2, <1>3, <1>6, <2>1
<1> QED
  BY <1>4, <1>5, <1>7, <1>8

\* No crash, lost answer or failed release keeps the lock for longer than a lease:
\* the ttl never is further away than one lock or renew time, and the skew.
THEOREM LeaseEnds == ASSUME Trusted PROVE Spec => []LeaseBounded
<1>1. Init => LeaseBounded
  BY DEF Init, LeaseBounded
<1>2. LockInv /\ [Next]_vars => LockInv'
  BY TypeStep, LeasesEndStep, CoveredStep DEF LockInv
<1>3. LockInv /\ LeaseBounded /\ [Next]_vars => LeaseBounded'
  BY LeaseBoundedStep
<1> QED
  BY InvInit, <1>1, <1>2, <1>3, PTL DEF Spec

-----------------------------------------------------------------------------
(* DdbLock implements LeaseLock.                                           *)

\* What is left of a lease is a number, positive for those that own the lock, and no
\* more than the longest lease.
LEMMA LeftBounds ==
    ASSUME Trusted, TypeOK, LeasesEnd, NEW c \in Clients
    PROVE  /\ LeaseLeft(c) \in 0..Longest
           /\ LeaseLeft(c) > 0 <=> Owns(c)
<1>1. /\ Clock(c) \in Nat /\ expires[c] \in Nat /\ Longest \in Nat /\ RenewTime <= Longest
      /\ RenewTime \in Nat /\ expires[c] <= Clock(c) + RenewTime
  BY ClockNat, Numbers DEF TypeOK, LeasesEnd, Longest
<1> QED
  BY <1>1 DEF LeaseLeft, Owns

\* A step of one client leaves the leases of the others as they are.
LEMMA OthersKeep ==
    ASSUME TypeOK, NEW d \in Clients, Client(d), NEW c \in Clients, c # d
    PROVE  /\ LeaseLeft(c)' = LeaseLeft(c)
           /\ Owns(c)' <=> Owns(c)
<1>1. /\ now' = now /\ skew' = skew /\ pc'[c] = pc[c] /\ expires'[c] = expires[c]
  BY DEF TypeOK, Client, Acquire, AcquireRead, AcquirePut, AcquireOwned, AcquireError, RenewRead,
    RenewLock, RenewError, ReleaseLate, Release, ReleaseLock, Crash, Goto, Dropped, AgainOrGiveUp
<1> QED
  BY <1>1 DEF LeaseLeft, Owns, Clock

\* Every step of DdbLock is one of LeaseLock, or leaves all leases as they are.
LEMMA LeaseStep ==
    ASSUME Trusted, LockInv, LockInv', [Next]_vars
    PROVE  [Lease!Next]_([c \in Clients |-> LeaseLeft(c)])
<1> DEFINE L == [c \in Clients |-> LeaseLeft(c)]
<1>1. /\ TypeOK /\ TypeOK' /\ LeasesEnd /\ LeasesEnd' /\ MutualExclusion'
  BY CoveredExcludes DEF LockInv, OwnerIsCovered, MutualExclusion, Covered, Token
<1>2. ASSUME NEW c \in Clients
      PROVE  /\ LeaseLeft(c) \in 0..Longest /\ LeaseLeft(c)' \in 0..Longest
             /\ LeaseLeft(c) > 0 <=> Owns(c)
             /\ LeaseLeft(c)' > 0 <=> Owns(c)'
  <2>1. LeaseLeft(c) \in 0..Longest /\ (LeaseLeft(c) > 0 <=> Owns(c))
    BY <1>1, LeftBounds
  <2>2. /\ Clock(c)' \in Nat /\ expires'[c] \in Nat /\ Longest \in Nat /\ RenewTime <= Longest
        /\ RenewTime \in Nat /\ expires'[c] <= Clock(c)' + RenewTime
    BY <1>1, Numbers DEF TypeOK, LeasesEnd, Longest, Clock
  <2> QED
    BY <2>1, <2>2 DEF LeaseLeft, Owns
<1>3. ASSUME NEW d \in Clients, Client(d)
      PROVE  Lease!Next \/ L' = L
  <2>1. L' = [L EXCEPT ![d] = LeaseLeft(d)']
    BY <1>1, <1>3, OthersKeep
  <2>2. CASE LeaseLeft(d)' = 0
    <3>1. CASE LeaseLeft(d) = 0
      BY <2>1, <2>2, <3>1
    <3>2. CASE LeaseLeft(d) # 0
      <4>1. LeaseLeft(d) > 0 /\ L' = [L EXCEPT ![d] = 0]
        BY <1>2, <2>1, <2>2, <3>2
      <4> QED
        BY <4>1 DEF Lease!Next, Lease!GiveUp
    <3> QED
      BY <3>1, <3>2
  <2>3. CASE LeaseLeft(d)' # 0
    <3>1. LeaseLeft(d)' \in 1..Longest
      BY <1>2, <2>3
    <3>2. CASE LeaseLeft(d) > 0
      BY <2>1, <3>1, <3>2 DEF Lease!Next, Lease!Renew
    <3>3. CASE LeaseLeft(d) = 0
      <4>1. ASSUME NEW c \in Clients PROVE L[c] = 0
        BY <1>1, <1>2, <1>3, <2>3, <3>3, OthersKeep DEF MutualExclusion
      <4> QED
        BY <2>1, <3>1, <4>1 DEF Lease!Next, Lease!Acquire
    <3> QED
      BY <1>2, <3>2, <3>3
  <2> QED
    BY <2>2, <2>3
<1>4. CASE Tick
  <2>1. ASSUME NEW c \in Clients
        PROVE  LeaseLeft(c)' = Lease!Less(LeaseLeft(c))
    <3>1. /\ Clock(c)' = Clock(c) + 1 /\ Clock(c) \in Nat /\ expires[c] \in Nat
          /\ expires' = expires /\ pc' = pc
      BY <1>1, <1>4, ClockNat DEF Tick, TypeOK, Clock
    <3> QED
      BY <3>1 DEF LeaseLeft, Owns, Lease!Less
  <2> QED
    BY <2>1 DEF Lease!Next, Lease!TimePasses
<1>5. CASE TtlDelete \/ UNCHANGED vars
  BY <1>5 DEF TtlDelete, vars, LeaseLeft, Owns, Clock
<1> QED
  BY <1>3, <1>4, <1>5 DEF Next

\* DdbLock implements LeaseLock: under the same assumptions the leases behave as those
\* of an abstract lock.
THEOREM LockIsLease == ASSUME Trusted PROVE Spec => ImplementsLease
<1>1. Init => Lease!Init
  BY DEF Init, Lease!Init, LeaseLeft, Owns
<1>2. LockInv /\ [Next]_vars => LockInv'
  BY TypeStep, LeasesEndStep, CoveredStep DEF LockInv
<1>3. LockInv /\ LockInv' /\ [Next]_vars => [Lease!Next]_([c \in Clients |-> LeaseLeft(c)])
  BY LeaseStep
<1> QED
  BY InvInit, <1>1, <1>2, <1>3, PTL DEF Spec, ImplementsLease, Lease!Spec
=============================================================================
