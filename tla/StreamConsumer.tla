--------------------------- MODULE StreamConsumer ---------------------------
(***************************************************************************)
(* The stream consumer (pkg/stream/consumer*.go) with an SQS input or an    *)
(* input that cannot redeliver, its retry handler and its shutdown.         *)
(*                                                                         *)
(* Payloads are units.  A message carries one unit, or several in an        *)
(* aggregate.  Every source ("input" and "retry") has a loop that receives  *)
(* messages (pump) and a goroutine that shovels them (ingest) to the        *)
(* runners; both channels are unbuffered, so a step hands a message over.   *)
(***************************************************************************)
EXTENDS Integers, Sequences, FiniteSets

CONSTANTS
    Singles,        \* units that arrive in a message of their own
    Aggregates,     \* sequences of units that arrive in an aggregate
    Runners,        \* the goroutines running readData
    Settings,       \* the inputs and modes to look at
    MaxReceive,     \* MaxNumberOfMessages of a Receive
    MaxFaults       \* bound: failing callbacks, panics, failing calls, redeliveries

ASSUME ConsumerAssumption ==
    /\ Settings \subseteq [native : BOOLEAN, mode : {"atLeastOnce", "atMostOnce"},
                            aggregated : BOOLEAN, batch : BOOLEAN, runners : SUBSET Runners]
    /\ \A a \in Aggregates : a \in Seq({a[i] : i \in DOMAIN a}) /\ a # <<>>
    /\ MaxReceive \in Nat \ {0} /\ MaxFaults \in Nat

Sources == {"input", "retry"}
UnitsOf(msg) == {msg.units[i] : i \in DOMAIN msg.units}
Message(units, agg, retry, src, id) ==
    [units |-> units, agg |-> agg, retry |-> retry, src |-> src, id |-> id]
Units == Singles \union UNION {{a[i] : i \in DOMAIN a} : a \in Aggregates}

VARIABLES
    visible,    \* messages that can be received
    inflight,   \* messages that are received and neither deleted nor visible
    puts,       \* how many messages were written by the retry handler
    pump,       \* messages a source has received and not yet passed on
    pumpEnded,  \* the channel of a source is closed
    ingest,     \* the message in the hands of ingestDataFromSource (at most one)
    ingestEnded,
    work,       \* what each runner works on
    kernelDone, \* the kernel context is done
    dying,      \* the coffin of the consumer is dying
    stopped,    \* stopIncomingData was called
    settings,   \* of this consumer: what kind of input, AggregateMessageMode, its runners;
                \* whether its messages are aggregated, and it is a BatchConsumer
    consumed,   \* units acknowledged by the callback
    reported,   \* units that are given up, with an error or a warning in the log
    faults

queueVars == <<visible, inflight, puts>>
flowVars == <<pump, pumpEnded, ingest, ingestEnded>>
stopVars == <<kernelDone, dying, stopped, settings>>
doneVars == <<consumed, reported, faults>>
vars == <<queueVars, flowVars, work, stopVars, doneVars>>

\* The input is a RetryingInput (SQS), else it forgets what it has passed on.
NativeRetry == settings.native
Mode == settings.mode

Initial ==
    IF settings.aggregated
    THEN {Message(<<u>>, FALSE, FALSE, "input", 0) : u \in Singles}
            \union {Message(a, TRUE, FALSE, "input", 0) : a \in Aggregates}
    ELSE {Message(<<u>>, FALSE, FALSE, "input", 0) : u \in Units}

NoMessage == [units |-> <<>>, agg |-> FALSE, retry |-> FALSE, src |-> "input", id |-> -1]
\* step: "idle", "process", "ack" or "ended"; next: the unit to process; ack: the verdict.
Waiting == [msg |-> NoMessage, step |-> "idle", next |-> 1, ack |-> FALSE]

Init ==
    /\ settings \in Settings
    /\ visible = Initial /\ inflight = {} /\ puts = 0
    /\ pump = [s \in Sources |-> {}] /\ pumpEnded = [s \in Sources |-> FALSE]
    /\ ingest = [s \in Sources |-> {}] /\ ingestEnded = [s \in Sources |-> FALSE]
    /\ work = [r \in Runners |->
                IF r \in settings.runners THEN Waiting ELSE [Waiting EXCEPT !.step = "ended"]]
    /\ kernelDone = FALSE /\ dying = FALSE /\ stopped = FALSE
    /\ consumed = {} /\ reported = {} /\ faults = 0

-----------------------------------------------------------------------------
(* The queue behind an SQS source.                                         *)

\* Messages of an input that cannot redeliver are gone once they are received.
Redelivers(msg) == NativeRetry \/ msg.src = "retry"

Delete(msg) ==
    /\ visible' = visible \ {msg}
    /\ inflight' = inflight \ {msg}

\* The visibility timeout ends; that is a fault while the message is still in work.
InWork(msg) ==
    \/ \E s \in Sources : msg \in pump[s] \union ingest[s]
    \/ \E r \in Runners : work[r].msg = msg

Redeliver(msg) ==
    /\ msg \in inflight
    /\ inflight' = inflight \ {msg} /\ visible' = visible \union {msg}
    /\ UNCHANGED <<puts, flowVars, work, stopVars, consumed, reported>>

RedeliverIdle(msg) == ~InWork(msg) /\ Redeliver(msg) /\ UNCHANGED faults
RedeliverEarly(msg) ==
    InWork(msg) /\ faults < MaxFaults /\ faults' = faults + 1 /\ Redeliver(msg)

-----------------------------------------------------------------------------
(* The sources.                                                            *)

\* The loop of the input receives up to MaxReceive messages.
Receive(s) ==
    /\ ~stopped /\ ~pumpEnded[s] /\ pump[s] = {}
    /\ \E got \in SUBSET {msg \in visible : msg.src = s} :
          /\ got # {} /\ Cardinality(got) <= MaxReceive
          /\ pump' = [pump EXCEPT ![s] = got]
          /\ visible' = visible \ got
          /\ inflight' = inflight \union {msg \in got : Redelivers(msg)}
    /\ UNCHANGED <<puts, pumpEnded, ingest, ingestEnded, work, stopVars, doneVars>>

\* The loop only looks at stopped once everything it got is passed on.
PumpDone(s) == stopped /\ pump[s] = {}

PumpEnds(s) ==
    /\ PumpDone(s) /\ ~pumpEnded[s]
    /\ pumpEnded' = [pumpEnded EXCEPT ![s] = TRUE]
    /\ pump' = [pump EXCEPT ![s] = {}]
    /\ UNCHANGED <<queueVars, ingest, ingestEnded, work, stopVars, doneVars>>

Shovel(s) ==
    /\ ingest[s] = {}
    /\ \E msg \in pump[s] :
          /\ ingest' = [ingest EXCEPT ![s] = {msg}]
          /\ pump' = [pump EXCEPT ![s] = @ \ {msg}]
    /\ UNCHANGED <<queueVars, pumpEnded, ingestEnded, work, stopVars, doneVars>>

\* ingestDataFromSource leaves when its input is closed, and stops the other one.
IngestEnds(s) ==
    /\ pumpEnded[s] /\ ingest[s] = {} /\ ~ingestEnded[s]
    /\ ingestEnded' = [ingestEnded EXCEPT ![s] = TRUE]
    /\ stopped' = TRUE
    /\ UNCHANGED <<queueVars, pump, pumpEnded, ingest, work, kernelDone, dying, settings, doneVars>>

-----------------------------------------------------------------------------
(* The runners.                                                            *)

\* A runner gets a message; an aggregate is acknowledged first if it is to be
\* processed at most once.  Only SQS sources can acknowledge; if that fails it is logged.
Take(s, r) ==
    /\ work[r].step = "idle"
    /\ \E msg \in ingest[s] :
          /\ ingest' = [ingest EXCEPT ![s] = {}]
          /\ work' = [work EXCEPT ![r] = [Waiting EXCEPT !.msg = msg, !.step = "process"]]
          /\ IF msg.agg /\ Mode = "atMostOnce"
             THEN \/ Delete(msg) /\ UNCHANGED faults
                  \/ faults < MaxFaults /\ faults' = faults + 1 /\ UNCHANGED <<visible, inflight>>
             ELSE UNCHANGED <<visible, inflight, faults>>
    /\ UNCHANGED <<puts, pump, pumpEnded, ingestEnded, stopVars, consumed, reported>>

\* An aggregate that cannot be disaggregated is dropped, with an error in the log.
DisaggregateFails(s, r) ==
    /\ work[r].step = "idle" /\ faults < MaxFaults
    /\ \E msg \in ingest[s] : msg.agg /\ reported' = reported \union UnitsOf(msg)
    /\ ingest' = [ingest EXCEPT ![s] = {}]
    /\ faults' = faults + 1
    /\ UNCHANGED <<queueVars, pump, pumpEnded, ingestEnded, work, stopVars, consumed>>

\* The last parameter of process: a failed message comes again by itself.
ComesAgain(msg) ==
    IF msg.agg THEN Mode = "atLeastOnce" /\ NativeRetry ELSE NativeRetry

\* retry: Put writes a copy, unless the message is such a copy already.  When
\* Put fails the error is logged.
Put(msg, u) ==
    IF msg.retry
    THEN UNCHANGED <<visible, puts, reported>>
    ELSE \/ /\ puts' = puts + 1
            /\ visible' = visible \union
                   {Message(<<u>>, FALSE, TRUE, IF NativeRetry THEN "input" ELSE "retry", puts + 1)}
            /\ UNCHANGED reported
         \/ /\ faults < MaxFaults
            /\ reported' = reported \union {u}
            /\ UNCHANGED <<visible, puts>>

Unit(r) == work[r].msg.units[work[r].next]

\* What process returns is the verdict on a single message; that on an aggregate
\* is always to acknowledge it.
Processed(r, ack) ==
    LET msg == work[r].msg
        last == work[r].next = Len(msg.units)
    IN  work' = [work EXCEPT ![r].next = @ + 1,
                             ![r].step = IF last THEN "ack" ELSE "process",
                             ![r].ack = IF msg.agg THEN Mode = "atLeastOnce" ELSE ack]

\* process when the kernel is stopping.
ProcessShutdown(r) ==
    /\ work[r].step = "process" /\ kernelDone
    /\ IF ComesAgain(work[r].msg) THEN UNCHANGED <<visible, puts, reported>>
       ELSE Put(work[r].msg, Unit(r))
    /\ Processed(r, FALSE)
    /\ UNCHANGED <<inflight, flowVars, stopVars, consumed, faults>>

\* The callback acknowledges.
ProcessAck(r) ==
    /\ work[r].step = "process" /\ ~kernelDone
    /\ consumed' = consumed \union {Unit(r)}
    /\ Processed(r, TRUE)
    /\ UNCHANGED <<queueVars, flowVars, stopVars, reported, faults>>

\* The callback does not acknowledge.
ProcessNack(r) ==
    /\ work[r].step = "process" /\ ~kernelDone /\ faults < MaxFaults
    /\ faults' = faults + 1
    /\ IF ComesAgain(work[r].msg) THEN UNCHANGED <<visible, puts, reported>>
       ELSE Put(work[r].msg, Unit(r))
    /\ Processed(r, FALSE)
    /\ UNCHANGED <<inflight, flowVars, stopVars, consumed>>

\* The callback panics: the error is logged, and unlike above whether there is a
\* retry depends on the input only.
ProcessPanic(r) ==
    /\ work[r].step = "process" /\ ~kernelDone /\ faults < MaxFaults
    /\ faults' = faults + 1
    /\ IF NativeRetry
       THEN /\ reported' = IF work[r].msg.agg THEN reported \union {Unit(r)} ELSE reported
            /\ UNCHANGED <<visible, puts>>
       ELSE Put(work[r].msg, Unit(r))
    /\ Processed(r, FALSE)
    /\ UNCHANGED <<inflight, flowVars, stopVars, consumed>>

\* Mutant: a message that cannot be decoded is acknowledged.
AckUndecodable(r) ==
    /\ work[r].step = "process" /\ ~kernelDone /\ faults < MaxFaults
    /\ faults' = faults + 1
    /\ reported' = reported \union {Unit(r)}
    /\ Processed(r, TRUE)
    /\ UNCHANGED <<queueVars, flowVars, stopVars, consumed>>

\* GetModel or Decode fail: an error is logged, there is no retry.
ProcessUndecodable(r) ==
    /\ work[r].step = "process" /\ ~kernelDone /\ faults < MaxFaults
    /\ faults' = faults + 1
    /\ reported' = reported \union {Unit(r)}
    /\ Processed(r, FALSE)
    /\ UNCHANGED <<queueVars, flowVars, stopVars, consumed>>

\* Ack of the input deletes a message that was acknowledged.
AckMessage(r) ==
    IF work[r].ack THEN Delete(work[r].msg) ELSE UNCHANGED <<visible, inflight>>

\* Mutant: a runner whose message is not acknowledged keeps it.
AcknowledgeOnly(r) ==
    /\ work[r].step = "ack" /\ work[r].ack
    /\ AckMessage(r)
    /\ work' = [work EXCEPT ![r] = Waiting]
    /\ UNCHANGED <<puts, flowVars, stopVars, doneVars>>

Acknowledge(r) ==
    /\ work[r].step = "ack"
    /\ AckMessage(r)
    /\ work' = [work EXCEPT ![r] = Waiting]
    /\ UNCHANGED <<puts, flowVars, stopVars, doneVars>>

\* The message could not be deleted; the error is logged.
AcknowledgeFails(r) ==
    /\ work[r].step = "ack" /\ work[r].ack /\ faults < MaxFaults
    /\ faults' = faults + 1
    /\ work' = [work EXCEPT ![r] = Waiting]
    /\ UNCHANGED <<queueVars, flowVars, stopVars, consumed, reported>>

\* c.data is closed once both sources have ended.
RunnerEnds(r) ==
    /\ work[r].step = "idle" /\ \A s \in Sources : ingestEnded[s]
    /\ work' = [work EXCEPT ![r].step = "ended"]
    /\ UNCHANGED <<queueVars, flowVars, stopVars, doneVars>>

-----------------------------------------------------------------------------
(* Shutdown.                                                               *)

KernelStops ==
    /\ ~kernelDone /\ kernelDone' = TRUE
    /\ UNCHANGED <<queueVars, flowVars, work, dying, stopped, settings, doneVars>>

\* The Run method of the callback fails; the runners do not see this.
CallbackRunFails ==
    /\ ~dying /\ faults < MaxFaults
    /\ dying' = TRUE /\ faults' = faults + 1
    /\ UNCHANGED <<queueVars, flowVars, work, kernelDone, stopped, settings, consumed, reported>>

\* Mutant: only the kernel stops the input.
KernelOnly == kernelDone

MustStop == kernelDone \/ dying

StopIncomingData ==
    /\ MustStop /\ ~stopped
    /\ stopped' = TRUE
    /\ UNCHANGED <<queueVars, flowVars, work, kernelDone, dying, settings, doneVars>>

-----------------------------------------------------------------------------
Source(s) == Receive(s) \/ PumpEnds(s) \/ Shovel(s) \/ IngestEnds(s)

Process(r) ==
    \/ ProcessShutdown(r) \/ ProcessAck(r) \/ ProcessNack(r) \/ ProcessPanic(r)
    \/ ProcessUndecodable(r)

Runner(r) == Process(r) \/ Acknowledge(r) \/ AcknowledgeFails(r) \/ RunnerEnds(r)

Handover == \E s \in Sources, r \in Runners : Take(s, r) \/ DisaggregateFails(s, r)

\* What all consumers have in common.
BaseConsumer ==
    \/ \E s \in Sources : Source(s)
    \/ KernelStops \/ CallbackRunFails \/ StopIncomingData

ReadData == Handover \/ \E r \in Runners : Runner(r)

Queue == \E msg \in inflight : RedeliverIdle(msg) \/ RedeliverEarly(msg)

Next == Queue \/ BaseConsumer \/ ReadData

Goroutines == ReadData \/ \E s \in Sources : Source(s)

\* As long as a goroutine can run some goroutine does, SQS delivers, and a stop is
\* seen.  A callback returns; it fails only MaxFaults times.
Fairness ==
    /\ WF_vars(Goroutines) /\ WF_vars(StopIncomingData)
    /\ WF_vars(\E msg \in inflight : RedeliverIdle(msg))

Spec == Init /\ [][Next]_vars /\ Fairness

-----------------------------------------------------------------------------
(* Properties.                                                             *)

MessageSet ==
    Initial \union {Message(<<u>>, FALSE, TRUE, IF NativeRetry THEN "input" ELSE "retry", n) :
                        u \in Units, n \in 1..puts}

TypeOK ==
    /\ visible \union inflight \subseteq MessageSet /\ visible \intersect inflight = {}
    /\ puts \in Nat
    /\ \A s \in Sources : pump[s] \union ingest[s] \subseteq MessageSet
                          /\ Cardinality(ingest[s]) <= 1
    /\ pumpEnded \in [Sources -> BOOLEAN] /\ ingestEnded \in [Sources -> BOOLEAN]
    /\ \A r \in Runners : /\ work[r].msg \in MessageSet \union {NoMessage}
                          /\ work[r].step \in {"idle", "process", "ack", "ended"}
                          /\ work[r].step = "process" => work[r].next \in DOMAIN work[r].msg.units
                          /\ work[r].ack \in BOOLEAN
    /\ {kernelDone, dying, stopped} \subseteq BOOLEAN /\ settings \in Settings
    /\ consumed \union reported \subseteq Units
    /\ faults \in 0..MaxFaults

\* The units a runner still has to process.
Pending(r) ==
    IF work[r].step = "process"
    THEN {work[r].msg.units[i] : i \in work[r].next..Len(work[r].msg.units)} ELSE {}

Accounted(u) ==
    \/ u \in consumed \union reported
    \/ \E msg \in visible \union inflight : u \in UnitsOf(msg)
    \/ \E s \in Sources : \E msg \in pump[s] \union ingest[s] : u \in UnitsOf(msg)
    \/ \E r \in Runners : u \in Pending(r)

\* No unit disappears silently: it was acknowledged by the callback or given up
\* with an error in the log, or some queue or goroutine still has it, whichever
\* of failure, panic, early redelivery, shutdown and retry meet.
NoneLost == \A u \in Units : Accounted(u)

\* process: when shutting down, don't acknowledge any messages.  A single message
\* is only ever deleted from its queue once its unit has been consumed.
DeletedWereConsumed ==
    [][\A msg \in visible \union inflight :
          ~msg.agg /\ msg \notin visible' \union inflight' /\ Redelivers(msg)
             => UnitsOf(msg) \subseteq consumed]_vars

\* Unless the consumer is stopped, every unit is consumed in the end, by the
\* first try or by a retry.
EventuallyConsumed == []<>(Units \subseteq consumed \union reported \/ stopped)

\* After a stop all messages under way are passed on and all goroutines leave.
StopDrains == []<>(kernelDone \/ dying => \A r \in Runners : work[r].step = "ended")
=============================================================================
