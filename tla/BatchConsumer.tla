--------------------------- MODULE BatchConsumer ---------------------------
(***************************************************************************)
(* The batch consumer (pkg/stream/consumer_batch.go): it collects messages  *)
(* until there are BatchSize of them or its ticker fires, and passes them   *)
(* to the callback in one call.  Inputs, retry and shutdown are those of    *)
(* StreamConsumer.                                                         *)
(*                                                                         *)
(* There is one runner, as by default: the batch belongs to all of them,    *)
(* and they use it without a lock.                                         *)
(***************************************************************************)
EXTENDS StreamConsumer

CONSTANT BatchSize

ASSUME BatchAssumption ==
    /\ BatchSize \in Nat \ {0}
    /\ \A s \in Settings : s.batch => \E r \in Runners : s.runners = {r}

VARIABLES
    batch,   \* c.batch: units with the message they came in
    taken    \* the batch that is being consumed, then what of it is acknowledged

batchVars == <<batch, taken>>
consumerVars == <<vars, batchVars>>

BatchInit == Init /\ batch = <<>> /\ taken = <<>>

Parts(msg) == [i \in DOMAIN msg.units |-> [unit |-> msg.units[i], msg |-> msg]]
UnitsIn(parts) == {parts[i].unit : i \in DOMAIN parts}
MessagesIn(parts) == {parts[i].msg : i \in DOMAIN parts}

\* What is left of a batch when the parts at some places are dropped.
Drop(parts, places) == [i \in DOMAIN parts \ places |-> parts[i]]

Step(r, label) == work' = [work EXCEPT ![r].step = label]

\* The visibility timeout of a message in the batch ends while it is in work.
BatchRedeliver(msg) ==
    /\ IF msg \in MessagesIn(batch) \union MessagesIn(taken) /\ ~InWork(msg)
       THEN faults < MaxFaults /\ faults' = faults + 1 /\ Redeliver(msg)
       ELSE RedeliverIdle(msg) \/ RedeliverEarly(msg)
    /\ UNCHANGED batchVars

-----------------------------------------------------------------------------
(* readFromInput.                                                          *)

\* processBatch: the batch is passed on, a new one started.
ProcessBatch(r, parts) == taken' = parts /\ batch' = <<>> /\ Step(r, "process")

\* processSingleMessage and processAggregateMessage.
Collect(s, r) ==
    /\ work[r].step = "idle"
    /\ \E msg \in ingest[s] :
          LET parts == batch \o Parts(msg)
          IN  IF Len(parts) >= BatchSize THEN ProcessBatch(r, parts)
              ELSE batch' = parts /\ UNCHANGED <<taken, work>>
    /\ ingest' = [ingest EXCEPT ![s] = {}]
    /\ UNCHANGED <<queueVars, pump, pumpEnded, ingestEnded, stopVars, doneVars>>

\* An aggregate that cannot be disaggregated is dropped here, too.
CollectFails(s, r) == DisaggregateFails(s, r) /\ UNCHANGED batchVars

\* The ticker fires, or the data channel is closed and the deferred call comes.  With
\* an empty batch there is nothing but a new ticker.
Flush(r) ==
    /\ work[r].step = "idle" /\ batch # <<>>
    /\ ProcessBatch(r, batch)
    /\ UNCHANGED <<queueVars, flowVars, stopVars, doneVars>>

\* Mutant: nothing is deferred.
LeaveAtOnce(r) == RunnerEnds(r) /\ UNCHANGED batchVars

\* The data channel is closed, and the deferred call has nothing more to do.
Leave(r) == batch = <<>> /\ RunnerEnds(r) /\ UNCHANGED batchVars

-----------------------------------------------------------------------------
(* consumeBatch.                                                           *)

UnitsAt(parts, places) == {parts[i].unit : i \in places}

\* retry of the parts at these places.  What is in retry already is not put again;
\* those whose Put fails are logged, as the bad ones were before.
PutAll(parts, places, bad) ==
    LET new == {i \in places : ~parts[i].msg.retry}
    IN  \E lost \in SUBSET new :
          /\ lost # {} => faults < MaxFaults
          /\ reported' = reported \union UnitsAt(parts, lost \union bad)
          /\ puts' = IF new \ lost = {} THEN puts ELSE puts + Len(parts)
          /\ visible' = visible \union
                {Message(<<parts[i].unit>>, FALSE, TRUE, "retry", puts + i) : i \in new \ lost}

RetryAll(parts, places, bad) ==
    IF NativeRetry
    THEN reported' = reported \union UnitsAt(parts, bad) /\ UNCHANGED <<visible, puts>>
    ELSE PutAll(parts, places, bad)

\* The kernel is stopping: nothing is acknowledged.
ConsumeShutdown(r) ==
    /\ work[r].step = "process" /\ kernelDone
    /\ RetryAll(taken, DOMAIN taken, {})
    /\ taken' = <<>> /\ Step(r, "idle")
    /\ UNCHANGED <<inflight, flowVars, stopVars, consumed, faults, batch>>

\* The callback acknowledges all of them.
ConsumeAck(r) ==
    /\ work[r].step = "process" /\ ~kernelDone
    /\ consumed' = consumed \union UnitsIn(taken)
    /\ Step(r, "ack")
    /\ UNCHANGED <<queueVars, flowVars, stopVars, reported, faults, batchVars>>

\* decodeMessages drops some of them, with an error in the log and without a retry, or
\* some are not acknowledged: the callback says so, returns an error or too few results.
ConsumeSome(r) ==
    /\ work[r].step = "process" /\ ~kernelDone
    /\ faults < MaxFaults /\ faults' = faults + 1
    /\ \E bad \in SUBSET DOMAIN taken : \E nacked \in SUBSET (DOMAIN taken \ bad) :
          /\ bad \union nacked # {} /\ taken' = Drop(taken, bad \union nacked)
          /\ RetryAll(taken, nacked, bad)
    /\ consumed' = consumed \union UnitsIn(taken')
    /\ Step(r, "ack")
    /\ UNCHANGED <<inflight, flowVars, stopVars, batch>>

\* The callback panics: recover has no message to put into retry.
ConsumePanic(r) ==
    /\ work[r].step = "process" /\ ~kernelDone
    /\ faults < MaxFaults /\ faults' = faults + 1
    /\ reported' = IF NativeRetry THEN reported ELSE reported \union UnitsIn(taken)
    /\ taken' = <<>> /\ Step(r, "idle")
    /\ UNCHANGED <<queueVars, flowVars, stopVars, consumed, batch>>

\* AckBatch: a part of an aggregate has no receipt handle of its own.
Deletable == {msg \in MessagesIn(taken) : ~msg.agg}

\* AckBatch of each source deletes what is acknowledged, unless the call fails.
AcknowledgeBatch(r) ==
    /\ work[r].step = "ack"
    /\ \E failed \in SUBSET Sources :
          LET gone == {msg \in Deletable : msg.src \notin failed}
          IN  /\ IF failed = {} THEN UNCHANGED faults
                 ELSE faults < MaxFaults /\ faults' = faults + 1
              /\ visible' = visible \ gone /\ inflight' = inflight \ gone
    /\ taken' = <<>> /\ Step(r, "idle")
    /\ UNCHANGED <<puts, flowVars, stopVars, consumed, reported, batch>>

-----------------------------------------------------------------------------
ConsumeBatch(r) ==
    \/ ConsumeShutdown(r) \/ ConsumeAck(r) \/ ConsumeSome(r) \/ ConsumePanic(r)
    \/ AcknowledgeBatch(r)

ReadFromInput(r) ==
    \/ \E s \in Sources : Collect(s, r) \/ CollectFails(s, r)
    \/ Flush(r) \/ Leave(r) \/ ConsumeBatch(r)

\* The runners, of either kind of consumer.
InputRunner ==
    \/ ~settings.batch /\ ReadData /\ UNCHANGED batchVars
    \/ settings.batch /\ \E r \in Runners : ReadFromInput(r)

BatchNext ==
    \/ BaseConsumer /\ UNCHANGED batchVars
    \/ InputRunner
    \/ \E msg \in inflight : BatchRedeliver(msg)

\* The fairness of StreamConsumer; a ticker fires.
BatchFairness ==
    /\ WF_consumerVars(InputRunner \/ \E s \in Sources : Source(s) /\ UNCHANGED batchVars)
    /\ WF_consumerVars(StopIncomingData /\ UNCHANGED batchVars)
    /\ WF_consumerVars(\E msg \in inflight \ (MessagesIn(batch) \union MessagesIn(taken)) :
                            RedeliverIdle(msg) /\ UNCHANGED batchVars)

BatchSpec == BatchInit /\ [][BatchNext]_consumerVars /\ BatchFairness

-----------------------------------------------------------------------------
(* Properties.                                                             *)

\* No unit disappears silently, as for NoneLost: the batch that is collected, the one
\* that is consumed, the retries of its parts and what a stop finds of both included.
NoneLostInBatch ==
    \A u \in Units :
        \/ Accounted(u)
        \/ u \in UnitsIn(batch) /\ \E r \in Runners : work[r].step # "ended"
        \/ u \in UnitsIn(taken) /\ \E r \in Runners : work[r].step = "process"
=============================================================================
