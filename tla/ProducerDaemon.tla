--------------------------- MODULE ProducerDaemon ---------------------------
(***************************************************************************)
(* The producer daemon (pkg/stream/producer_daemon*.go, output_channel.go): *)
(* writers pack messages into aggregates and these into batches, a bounded  *)
(* channel hands batches to runners that write them to the output, a ticker *)
(* flushes what has been collected, and Run flushes and closes when the     *)
(* kernel stops.                                                           *)
(*                                                                         *)
(* Messages are numbered in the order in which Write accepts them.  An item *)
(* (an aggregate, or one message without aggregation) has a sequence of     *)
(* messages and the size of its encoding; a batch is a sequence of items.   *)
(* Aggregator and batcher are only touched by the holder of d.lck, whose    *)
(* unfinished work is job.  The partitioned aggregator has an aggregator    *)
(* for each bucket of hash keys; there is one bucket without it.            *)
(***************************************************************************)
EXTENDS Integers, Sequences, Functions

CONSTANTS
    Writers, Runners,    \* goroutines that call Write; outputLoop goroutines
    Kinds,               \* possible messages: the size when encoded, and the bucket
    Buckets,             \* PartitionBucketCount, 1 without partitioning
    Envelope,            \* bytes the encoding adds around an aggregate
    BufferSize, BatchSize, BatchMaxSize, AggregationMaxSize,
    AggregationSizes,    \* the values of AggregationSize to look at
    EarlyWrites,         \* whether Write may be called before Run
    MaxMessages,         \* bound: messages written
    MaxCall,             \* bound: messages in one call of Write
    MaxRestarts          \* bound: how often the daemon is started again

ASSUME DaemonAssumption ==
    /\ {BufferSize, BatchSize, MaxMessages, MaxCall} \union AggregationSizes \subseteq Nat \ {0}
    /\ {BatchMaxSize, AggregationMaxSize, Envelope, MaxRestarts} \subseteq Nat
    /\ Buckets \in Nat \ {0}
    /\ Kinds \subseteq [size : Nat \ {0}, bucket : 1..Buckets]
    /\ Writers \intersect {"run", "ticker", "nobody"} = {}
    /\ Runners # {}

Messages == 1..MaxMessages

VARIABLES
    aggregationSize,  \* the setting
    kind,      \* size of every message, and the bucket of its key (any without a key)
    issued,    \* how many messages Write has accepted
    agg,       \* the aggregator of each bucket: its messages and the length of its buffer
    batch,     \* the items in the batcher, each with the batcher's size after it was added
    size,      \* the size the batcher keeps
    job,       \* the work of the holder of d.lck
    ch,        \* the batches in the output channel
    closed,    \* the output channel is closed
    stopped,   \* d.stopped
    runpc,     \* where Run is: "new", "running", "waiting" or "returned"
    ticking,   \* the ticker loop is running
    postponed, \* the ticker was reset, and its interval is not over
    ctxDone,   \* the kernel is stopping
    loops,     \* the runners whose outputLoop is running
    loop,      \* the batch each outputLoop has read and not yet written
    taken,     \* messages read from the channel
    sent,      \* messages passed to output.Write
    dropped,   \* messages of batches dropped at the closed channel
    late,      \* messages accepted after the channel was closed
    restarts   \* how often the daemon was started again

\* What the holder of the lock has to do: aggregate todo more messages, append items
\* to the batcher, write the batch out to the channel, flush the batcher.
Idle == [by |-> "nobody", todo |-> 0, items |-> <<>>, out |-> <<>>, flush |-> FALSE]

given == <<aggregationSize, kind>>
batchVars == <<agg, batch, size>>
runVars == <<runpc, ticking, postponed, ctxDone, restarts>>
outVars == <<loops, loop, taken, sent>>
vars == <<given, issued, batchVars, job, ch, closed, stopped, dropped, late, runVars, outVars>>

\* An aggregator after reset: its buffer has the opening bracket.
Empty == [msgs |-> <<>>, len |-> 1]

Init ==
    /\ aggregationSize \in AggregationSizes /\ kind \in [Messages -> Kinds]
    /\ issued = 0 /\ agg = [b \in 1..Buckets |-> Empty] /\ batch = <<>> /\ size = 0 /\ job = Idle
    /\ ch = <<>> /\ closed = FALSE /\ stopped = FALSE
    /\ runpc = "new" /\ ticking = FALSE /\ postponed = FALSE /\ ctxDone = FALSE
    /\ loops = {} /\ loop = [r \in Runners |-> <<>>]
    /\ taken = {} /\ sent = {} /\ dropped = {} /\ late = {} /\ restarts = 0

\* The messages in a sequence of items.
MsgsOf(items) == UNION {Range(items[i].msgs) : i \in DOMAIN items}

-----------------------------------------------------------------------------
(* Aggregator.                                                             *)

\* The buffer with one message more, after a separator unless it is the first.
Written(a, id) ==
    [msgs |-> Append(a.msgs, id),
     len |-> a.len + (IF a.msgs = <<>> THEN 0 ELSE 1) + kind[id].size]

\* getCurrentSize: a message to come without its separator, and the closing bracket.
TooLarge(a, extra) == AggregationMaxSize # 0 /\ a.len + extra + 1 >= AggregationMaxSize

\* Flush closes the bracket; the encoding of the aggregate goes around it.
Flushed(a) == [msgs |-> a.msgs, size |-> Envelope + a.len + 1]

\* Write of the partitioned aggregator: a key is always in the same bucket.
BucketOf(id) == kind[id].bucket

\* Write of the aggregator of the message's bucket, which may flush before and after
\* it adds the message.
Aggregate(id) ==
    LET b == BucketOf(id)
        full == agg[b].msgs # <<>> /\ TooLarge(agg[b], kind[id].size)
        with == Written(IF full THEN Empty ELSE agg[b], id)
        ready == IF full THEN Append(job.items, Flushed(agg[b])) ELSE job.items
        flush == Len(with.msgs) >= aggregationSize \/ TooLarge(with, 0)
    IN  /\ agg' = [agg EXCEPT ![b] = IF flush THEN Empty ELSE with]
        /\ job' = [job EXCEPT !.todo = @ - 1,
                              !.items = IF flush THEN Append(ready, Flushed(with)) ELSE ready]

\* Without aggregation every message is an item.
PassOn(id) ==
    /\ job' = [job EXCEPT !.todo = @ - 1,
                          !.items = Append(@, [msgs |-> <<id>>, size |-> kind[id].size])]
    /\ UNCHANGED agg

\* applyAggregation takes the messages of the call one by one.
ApplyAggregation ==
    /\ job.todo > 0
    /\ IF aggregationSize <= 1 THEN PassOn(issued + 1) ELSE Aggregate(issued + 1)
    /\ issued' = issued + 1
    /\ late' = IF closed THEN late \union {issued + 1} ELSE late
    /\ UNCHANGED <<given, batch, size, ch, closed, stopped, dropped, runVars, outVars>>

-----------------------------------------------------------------------------
(* Batcher.                                                                *)

\* Mutant: one message more than the batch can hold.
NeedsFlushLate(count, bytes) ==
    count > BatchSize \/ (BatchMaxSize # 0 /\ bytes >= BatchMaxSize)

NeedsFlush(count, bytes) ==
    count >= BatchSize \/ (BatchMaxSize # 0 /\ bytes >= BatchMaxSize)

\* Append: if the item does not fit the batch is flushed first, and again if the item
\* fills it; both flushes end up in the same result.
BatcherAppend(item) ==
    LET first == NeedsFlush(Len(batch), size + item.size - 1)
        rest == IF first THEN <<>> ELSE batch
        total == (IF first THEN 0 ELSE size) + item.size
        entry == [msgs |-> item.msgs, size |-> item.size, total |-> total]
        full == NeedsFlush(Len(rest) + 1, total)
    IN  /\ batch' = IF full THEN <<>> ELSE Append(rest, entry)
        /\ size' = IF full THEN 0 ELSE total
        /\ job' = [job EXCEPT !.items = Tail(@),
                              !.out = IF full THEN Append(batch, entry)
                                      ELSE IF first THEN batch ELSE <<>>]

-----------------------------------------------------------------------------
(* The holder of d.lck.                                                    *)

\* Write takes the lock and has n messages to aggregate.
Write(w) ==
    /\ job = Idle /\ ~stopped /\ (EarlyWrites \/ runpc # "new")
    /\ \E n \in 1..MaxCall :
          /\ issued + n <= MaxMessages
          /\ job' = [Idle EXCEPT !.by = w, !.todo = n]
    /\ UNCHANGED <<given, issued, batchVars, ch, closed, stopped, dropped, late, runVars, outVars>>

\* Mutant: only the first bucket is flushed.
AggregatesFirst == <<Flushed(agg[1])>>

\* Flush of the aggregators, bucket by bucket.
Aggregates == [b \in 1..Buckets |-> Flushed(agg[b])]

\* flushAll takes what is in the aggregators, and later flushes the batcher.
StartFlush(p) ==
    /\ job = Idle
    /\ job' = [Idle EXCEPT !.by = p, !.items = Aggregates, !.flush = TRUE]
    /\ agg' = [b \in 1..Buckets |-> Empty]

\* Mutant: the ticker only flushes the batcher and leaves the aggregate.
TickBatchOnly ==
    /\ ticking /\ ~postponed /\ job = Idle
    /\ job' = [Idle EXCEPT !.by = "ticker", !.flush = TRUE]
    /\ UNCHANGED <<given, issued, batchVars, ch, closed, stopped, dropped, late, runVars, outVars>>

\* The ticker fires.
Tick ==
    /\ ticking /\ ~postponed /\ StartFlush("ticker")
    /\ UNCHANGED <<given, issued, batch, size, ch, closed, stopped, dropped, late, runVars, outVars>>

\* Run calls close once the context is done.
Close ==
    /\ runpc = "running" /\ ctxDone
    /\ StartFlush("run")
    /\ runpc' = "waiting"
    /\ UNCHANGED <<given, issued, batch, size, ch, closed, stopped, dropped, late, ticking, postponed,
                   ctxDone, restarts, outVars>>

\* The next item goes to the batcher; flushAggregate skips empty aggregates.
AppendItem ==
    /\ job.todo = 0 /\ job.items # <<>> /\ job.out = <<>>
    /\ \/ /\ Head(job.items).msgs # <<>>
          /\ BatcherAppend(Head(job.items))
       \/ /\ Head(job.items).msgs = <<>>
          /\ job' = [job EXCEPT !.items = Tail(@)]
          /\ UNCHANGED <<batch, size>>
    /\ UNCHANGED <<given, issued, agg, ch, closed, stopped, dropped, late, runVars, outVars>>

FlushBatch ==
    /\ job.flush /\ job.items = <<>> /\ job.out = <<>>
    /\ job' = [job EXCEPT !.out = batch, !.flush = FALSE]
    /\ batch' = <<>> /\ size' = 0
    /\ UNCHANGED <<given, issued, agg, ch, closed, stopped, dropped, late, runVars, outVars>>

HasRoom == Len(ch) < BufferSize

\* outCh.Write blocks while the channel is full, and drops when it is closed.  Write
\* has reset the ticker before.
Output ==
    /\ job.out # <<>>
    /\ job' = [job EXCEPT !.out = <<>>]
    /\ \/ /\ closed
          /\ dropped' = dropped \union MsgsOf(job.out)
          /\ UNCHANGED ch
       \/ /\ ~closed /\ HasRoom
          /\ ch' = Append(ch, job.out)
          /\ UNCHANGED dropped
    /\ postponed' = (postponed \/ (ticking /\ job.by \in Writers))
    /\ UNCHANGED <<given, issued, batchVars, closed, stopped, late, runpc, ticking, ctxDone, restarts,
                   outVars>>

\* Write as other traffic does it: messages that are not counted, of a bucket with nothing
\* in it, fill aggregates and a batch of their own.  All they leave is a later tick.
BusyWrite ==
    /\ job = Idle /\ ticking /\ ~closed /\ HasRoom /\ batch = <<>>
    /\ \E b, c \in 1..Buckets : agg[b] = Empty /\ agg[c] # Empty
    /\ postponed' = TRUE
    /\ UNCHANGED <<given, issued, batchVars, job, ch, closed, stopped, dropped, late, runpc, ticking,
                   ctxDone, restarts, outVars>>

\* The interval after a reset is over.
Rearm ==
    /\ postponed /\ postponed' = FALSE
    /\ UNCHANGED <<given, issued, batchVars, job, ch, closed, stopped, dropped, late, runpc, ticking,
                   ctxDone, restarts, outVars>>

Done == job # Idle /\ job.todo = 0 /\ job.items = <<>> /\ job.out = <<>> /\ ~job.flush

\* Mutant: close only flushes.
UnlockKeepsOpen ==
    /\ Done
    /\ job' = Idle
    /\ UNCHANGED <<given, issued, batchVars, ch, closed, stopped, dropped, late, runVars, outVars>>

\* The lock is released; close has closed the channel before.
Unlock ==
    /\ Done
    /\ job' = Idle
    /\ closed' = (closed \/ job.by = "run")
    /\ UNCHANGED <<given, issued, batchVars, ch, stopped, dropped, late, runVars, outVars>>

-----------------------------------------------------------------------------
(* Run, its runners, and the kernel.                                       *)

\* Run needs the lock to set the ticker, and then starts its goroutines.
Run ==
    /\ runpc = "new" /\ job = Idle
    /\ runpc' = "running" /\ ticking' = TRUE
    /\ loops' = Runners
    /\ UNCHANGED <<given, issued, batchVars, job, ch, closed, stopped, dropped, late, postponed,
                   ctxDone, restarts, loop, taken, sent>>

KernelStops ==
    /\ ~ctxDone /\ runpc # "returned" /\ ctxDone' = TRUE
    /\ UNCHANGED <<given, issued, batchVars, job, ch, closed, stopped, dropped, late, runpc,
                   ticking, postponed, restarts, outVars>>

TickerEnds ==
    /\ ticking /\ ctxDone /\ ticking' = FALSE
    /\ UNCHANGED <<given, issued, batchVars, job, ch, closed, stopped, dropped, late, runpc,
                   postponed, ctxDone, restarts, outVars>>

Read(r) ==
    /\ r \in loops /\ loop[r] = <<>> /\ ch # <<>>
    /\ loop' = [loop EXCEPT ![r] = Head(ch)]
    /\ taken' = taken \union MsgsOf(Head(ch))
    /\ ch' = Tail(ch)
    /\ UNCHANGED <<given, issued, batchVars, job, closed, stopped, dropped, late, runVars, loops,
                   sent>>

\* output.Write, whose error is only logged.
Send(r) ==
    /\ loop[r] # <<>>
    /\ sent' = sent \union MsgsOf(loop[r])
    /\ loop' = [loop EXCEPT ![r] = <<>>]
    /\ UNCHANGED <<given, issued, batchVars, job, ch, closed, stopped, dropped, late, runVars,
                   loops, taken>>

\* Mutant: a runner leaves as soon as the channel is closed.
SeesClosed == closed

\* Read of a closed channel first returns what is left in it.
Exhausted == closed /\ ch = <<>>

LoopEnds(r) ==
    /\ r \in loops /\ loop[r] = <<>> /\ Exhausted
    /\ loops' = loops \ {r}
    /\ UNCHANGED <<given, issued, batchVars, job, ch, closed, stopped, dropped, late, runVars,
                   loop, taken, sent>>

\* cfn.Wait returns when all goroutines have.
RunReturns ==
    /\ runpc = "waiting" /\ closed /\ ~ticking /\ loops = {}
    /\ runpc' = "returned" /\ stopped' = TRUE
    /\ UNCHANGED <<given, issued, batchVars, job, ch, closed, dropped, late, ticking, postponed,
                   ctxDone, restarts, outVars>>

\* ProvideProducerDaemon restarts a stopped daemon; another kernel runs it.
Restart ==
    /\ stopped /\ job = Idle /\ restarts < MaxRestarts
    /\ ch' = <<>> /\ closed' = FALSE /\ stopped' = FALSE
    /\ runpc' = "new" /\ ctxDone' = FALSE
    /\ restarts' = restarts + 1
    /\ UNCHANGED <<given, issued, batchVars, job, dropped, late, ticking, postponed, outVars>>

-----------------------------------------------------------------------------
Holder == ApplyAggregation \/ AppendItem \/ FlushBatch \/ Output \/ Unlock
OutputLoop(r) == Read(r) \/ Send(r) \/ LoopEnds(r)

Next ==
    \/ \E w \in Writers : Write(w)
    \/ BusyWrite \/ Rearm \/ Tick \/ Holder
    \/ Run \/ Close \/ RunReturns \/ Restart
    \/ KernelStops \/ TickerEnds
    \/ \E r \in Runners : OutputLoop(r)

\* Goroutines that can run do, of the output loops at least one; an interval without a
\* reset ends, and the ticker fires again and again unless it is reset again and again;
\* a stopping context is seen.  Nobody has to write, and the kernel need not stop.
Fairness ==
    /\ WF_vars(Holder) /\ WF_vars(Rearm) /\ WF_vars(Tick)
    /\ WF_vars(Run \/ Close \/ RunReturns) /\ WF_vars(TickerEnds)
    /\ WF_vars(\E r \in Runners : OutputLoop(r))

Spec == Init /\ [][Next]_vars /\ Fairness

-----------------------------------------------------------------------------
(* Properties.                                                             *)

Entries == [msgs : Seq(Messages), size : Nat, total : Nat]

TypeOK ==
    /\ aggregationSize \in AggregationSizes /\ kind \in [Messages -> Kinds]
    /\ issued \in 0..MaxMessages
    /\ agg \in [1..Buckets -> [msgs : Seq(Messages), len : Nat]]
    /\ batch \in Seq(Entries) /\ size \in Nat
    /\ job \in [by : Writers \union {"run", "ticker", "nobody"}, todo : 0..MaxCall,
                items : Seq([msgs : Seq(Messages), size : Nat]), out : Seq(Entries),
                flush : BOOLEAN]
    /\ ch \in Seq(Seq(Entries)) /\ Len(ch) <= BufferSize
    /\ {closed, stopped, ticking, postponed, ctxDone} \subseteq BOOLEAN
    /\ runpc \in {"new", "running", "waiting", "returned"}
    /\ loops \subseteq Runners /\ loop \in [Runners -> Seq(Entries)]
    /\ taken \union sent \union dropped \union late \subseteq Messages
    /\ restarts \in 0..MaxRestarts

\* Of two messages of the same bucket the one in S was written before the one in T; a
\* message in both would have been written before itself.
Before(S, T) == \A m \in S, n \in T : BucketOf(m) = BucketOf(n) => m < n

\* The messages in a sequence of items are in order.
InOrder(items) ==
    /\ \A i \in DOMAIN items : \A k, l \in DOMAIN items[i].msgs :
          k < l => items[i].msgs[k] < items[i].msgs[l]
    /\ \A i, j \in DOMAIN items : i < j => Before(Range(items[i].msgs), Range(items[j].msgs))

\* The messages on their way, from those that were read from the channel to those in
\* the aggregators.
Stages ==
    <<taken, UNION {MsgsOf(ch[i]) : i \in DOMAIN ch}, MsgsOf(job.out), MsgsOf(batch),
      MsgsOf(job.items), MsgsOf(agg)>>

\* Every accepted message is in exactly one place, or was dropped at the closed
\* channel; and from the output loops back to the aggregators those of a bucket are in
\* the order in which they were written, whoever flushed in between.
InOrderOnce ==
    /\ \A i \in DOMAIN ch :
          InOrder(ch[i]) /\ \A j \in DOMAIN ch : i < j => Before(MsgsOf(ch[i]), MsgsOf(ch[j]))
    /\ InOrder(job.out) /\ InOrder(batch) /\ InOrder(job.items) /\ InOrder(agg)
    /\ \A i, j \in DOMAIN Stages : i < j => Before(Stages[i], Stages[j])
    /\ dropped \union UNION Range(Stages) = 1..issued
    /\ dropped \intersect UNION Range(Stages) = {}

\* A daemon that has stopped has passed every message to its output, except for
\* those written after the channel was closed.
StoppedMeansSent == stopped => (1..issued) \ late \subseteq sent

\* No batch holds more messages than the output takes, no aggregate more than
\* configured, also when two flushes of the batcher are put together; and a batch
\* without its last item is below the size limit.
BatchBounded ==
    \A b \in Range(ch) \union {job.out} :
        /\ Len(b) <= BatchSize
        /\ \A i \in DOMAIN b : Len(b[i].msgs) <= aggregationSize
        /\ \A i \in DOMAIN b : i < Len(b) =>
              /\ b[i].total = b[i].size + (IF i = 1 THEN 0 ELSE b[i - 1].total)
              /\ (BatchMaxSize # 0 => b[i].total < BatchMaxSize)

\* The interval: what is written gets sent after some time, also if no further message
\* comes, the channel is full, or the kernel stops.  This needs the resets to come to an
\* end: a bucket that goes on filling batches puts the tick off for all others.
EventuallySent == <>[]~postponed => []<>((1..issued) \ late \subseteq sent)

\* When the kernel stops, Run returns, although writers may hold the lock.
StopReturns == []<>(ctxDone => stopped)
=============================================================================
