------------------------ MODULE StreamConsumerProofs ------------------------
(***************************************************************************)
(* Proofs about the stream and the batch consumer, for any messages, number *)
(* of runners, sizes and faults: only consumed messages are deleted, and    *)
(* with the settings below no unit disappears silently.                    *)
(***************************************************************************)
EXTENDS BatchConsumer, SequenceTheorems, TLAPS

\* Aggregates of a queue that are acknowledged last lose units: the run on such a
\* queue shows how.  Everything else is safe.
SafeSettings ==
    \A s \in Settings : ~(s.native /\ s.mode = "atLeastOnce" /\ s.aggregated /\ ~s.batch)

-----------------------------------------------------------------------------
(* The inductive invariant.                                                *)

Msg == [units : Seq(Units), agg : BOOLEAN, retry : BOOLEAN, src : Sources, id : Int]
Part == [unit : Units, msg : Msg]
Job == [msg : Msg, step : {"idle", "process", "ack", "ended"}, next : Nat, ack : BOOLEAN]

TypeInv ==
    /\ settings \in Settings /\ puts \in Nat
    /\ visible \subseteq Msg /\ inflight \subseteq Msg
    /\ pump \in [Sources -> SUBSET Msg] /\ ingest \in [Sources -> SUBSET Msg]
    /\ work \in [Runners -> Job]
    /\ batch \in Seq(Part)
    /\ DOMAIN taken \subseteq Nat /\ \A i \in DOMAIN taken : taken[i] \in Part
    /\ \A r \in Runners : settings.batch /\ work[r].step = "process" => taken \in Seq(Part)

\* What the input and the retry handler make of units.
Shape(msg) ==
    /\ msg.units # <<>>
    /\ ~msg.agg => Len(msg.units) = 1
    /\ msg.agg => ~msg.retry /\ msg.src = "input" /\ settings.aggregated
    /\ msg.src = IF msg.retry /\ ~NativeRetry THEN "retry" ELSE "input"

Busy(r) == ~settings.batch /\ work[r].step \in {"process", "ack"}

\* The messages that are received and that some goroutine has in its hands.
InHand ==
    (UNION {pump[s] \union ingest[s] : s \in Sources})
        \union {work[r].msg : r \in {q \in Runners : Busy(q)}}
        \union MessagesIn(batch) \union MessagesIn(taken)

ShapeInv ==
    /\ \A msg \in visible \union inflight \union InHand : Shape(msg)
    /\ \A s \in Sources : \A m, n \in ingest[s] : m = n
    /\ \A r \in Runners : Busy(r) /\ work[r].step = "process" => work[r].next <= Len(work[r].msg.units) /\ work[r].next # 0
    /\ \A i \in DOMAIN batch : batch[i].unit \in UnitsOf(batch[i].msg)
    /\ \A i \in DOMAIN taken : taken[i].unit \in UnitsOf(taken[i].msg)

\* A batch consumer has one runner; the others have no batch.
RunnerInv ==
    /\ settings.batch => /\ \A q, r \in Runners : q # r => work[q].step = "ended" \/ work[r].step = "ended"
                         /\ \A r \in Runners : work[r].msg = NoMessage /\ work[r].next = 1
    /\ ~settings.batch => batch = <<>> /\ taken = <<>>

\* A queue keeps what was received from it until it is consumed, except for aggregates
\* that are acknowledged first; what another input has passed on is gone.
KeptInv ==
    /\ \A msg \in inflight : Redelivers(msg)
    /\ \A msg \in InHand :
          IF Redelivers(msg)
          THEN \/ msg \in visible \union inflight
               \/ ~msg.agg /\ UnitsOf(msg) \subseteq consumed
               \/ msg.agg /\ ~settings.batch
          ELSE msg \notin visible

\* Only what the callback has acknowledged is about to be deleted.
AckInv ==
    /\ \A r \in Runners : Busy(r) /\ work[r].step = "ack" /\ work[r].ack =>
          IF work[r].msg.agg THEN Mode = "atLeastOnce" ELSE UnitsOf(work[r].msg) \subseteq consumed
    /\ \A r \in Runners : settings.batch /\ work[r].step = "ack" => UnitsIn(taken) \subseteq consumed

ConsumerInv == TypeInv /\ ShapeInv /\ RunnerInv /\ KeptInv /\ AckInv

-----------------------------------------------------------------------------
(* Constants and messages.                                                 *)

\* What the assumptions say of the settings and the messages.
LEMMA Constants ==
    /\ MaxReceive \in Nat /\ MaxFaults \in Nat /\ BatchSize \in Nat
    /\ \A s \in Settings : /\ s.native \in BOOLEAN /\ s.aggregated \in BOOLEAN /\ s.batch \in BOOLEAN
                           /\ s.mode \in {"atLeastOnce", "atMostOnce"} /\ s.runners \subseteq Runners
                           /\ s.batch => \E r \in Runners : s.runners = {r}
    /\ \A a \in Aggregates : a \in Seq(Units) /\ a # <<>>
<1>1. \A a \in Aggregates : a \in Seq({a[i] : i \in DOMAIN a}) /\ a # <<>>
  BY ConsumerAssumption
<1>2. ASSUME NEW a \in Aggregates PROVE a \in Seq(Units)
  <2>1. a \in Seq({a[i] : i \in DOMAIN a})
    BY <1>1
  <2>2. {a[i] : i \in DOMAIN a} \subseteq Units
    BY DEF Units
  <2> QED
    BY <2>1, <2>2
<1> QED
  BY <1>1, <1>2, ConsumerAssumption, BatchAssumption

\* The booleans of the settings, and the kinds of input.
LEMMA SettingsTypes ==
    ASSUME TypeInv
    PROVE  /\ NativeRetry \in BOOLEAN /\ settings.batch \in BOOLEAN /\ settings.aggregated \in BOOLEAN
           /\ Mode \in {"atLeastOnce", "atMostOnce"}
  BY Constants DEF TypeInv, NativeRetry, Mode

\* A message of its own for a unit.
LEMMA SingleMessage ==
    ASSUME NEW u \in Units, NEW retry \in BOOLEAN, NEW src \in Sources, NEW id \in Int
    PROVE  /\ Message(<<u>>, FALSE, retry, src, id) \in Msg
           /\ UnitsOf(Message(<<u>>, FALSE, retry, src, id)) = {u}
<1>1. <<u>> \in Seq(Units) /\ DOMAIN <<u>> = {1} /\ <<u>>[1] = u
  OBVIOUS
<1>2. PICK seq : seq = <<u>>
  OBVIOUS
<1>3. Message(seq, FALSE, retry, src, id) \in Msg
  BY <1>1, <1>2 DEF Message, Msg
<1>4. UnitsOf(Message(seq, FALSE, retry, src, id)) = {u}
  BY <1>1, <1>2 DEF Message, UnitsOf
<1> QED
  BY <1>2, <1>3, <1>4

\* The only unit of a single message, and any unit of a message.
LEMMA UnitsOfMessage ==
    ASSUME NEW msg \in Msg
    PROVE  /\ UnitsOf(msg) \subseteq Units
           /\ \A u \in UnitsOf(msg) : Shape(msg) /\ ~msg.agg => UnitsOf(msg) = {u}
  BY DEF Msg, UnitsOf, Shape

\* Where the messages in hand are.
Places ==
    /\ \A s \in Sources : pump[s] \union ingest[s] \subseteq InHand
    /\ \A r \in Runners : Busy(r) => work[r].msg \in InHand
    /\ \A i \in DOMAIN batch : batch[i].msg \in InHand
    /\ \A i \in DOMAIN taken : taken[i].msg \in InHand
    /\ \A m \in InHand : \/ \E s \in Sources : m \in pump[s] \union ingest[s]
                         \/ \E r \in Runners : Busy(r) /\ m = work[r].msg
                         \/ \E i \in DOMAIN batch : m = batch[i].msg
                         \/ \E i \in DOMAIN taken : m = taken[i].msg

\* They are nowhere else.
LEMMA PlacesHold == Places
<1> DEFINE flow == UNION {pump[s] \union ingest[s] : s \in Sources}
           jobs == {work[r].msg : r \in {q \in Runners : Busy(q)}}
<1>1. \A m : m \in flow <=> \E s \in Sources : m \in pump[s] \union ingest[s]
  OBVIOUS
<1>2. \A m : m \in jobs <=> \E r \in Runners : Busy(r) /\ m = work[r].msg
  OBVIOUS
<1>3. \A m : m \in MessagesIn(batch) <=> \E i \in DOMAIN batch : m = batch[i].msg
  BY DEF MessagesIn
<1>4. \A m : m \in MessagesIn(taken) <=> \E i \in DOMAIN taken : m = taken[i].msg
  BY DEF MessagesIn
<1>5. InHand = flow \union jobs \union MessagesIn(batch) \union MessagesIn(taken)
  BY DEF InHand
<1> HIDE DEF flow, jobs
<1> QED
  BY <1>1, <1>2, <1>3, <1>4, <1>5 DEF Places

\* Before a step and after it.
LEMMA HandOf == Places /\ Places'
  BY PlacesHold, PTL

\* A copy that the retry handler has put.
Copy(msg) == msg \in Msg /\ Shape(msg) /\ Redelivers(msg) /\ ~msg.agg

\* The copy that Put writes.
LEMMA CopyOf ==
    ASSUME TypeInv, NEW u \in Units, NEW n \in Int
    PROVE  /\ Copy(Message(<<u>>, FALSE, TRUE, IF NativeRetry THEN "input" ELSE "retry", n))
           /\ UnitsOf(Message(<<u>>, FALSE, TRUE, IF NativeRetry THEN "input" ELSE "retry", n)) = {u}
<1> DEFINE src == IF NativeRetry THEN "input" ELSE "retry"
           msg == Message(<<u>>, FALSE, TRUE, src, n)
<1>1. src \in Sources
  BY DEF Sources
<1>2. msg \in Msg /\ UnitsOf(msg) = {u}
  BY <1>1, SingleMessage
<1>3. msg.units = <<u>> /\ ~msg.agg /\ msg.retry /\ msg.src = src
  BY DEF Message
<1> HIDE DEF msg
<1>4. Shape(msg)
  <2>1. <<u>> # <<>> /\ Len(<<u>>) = 1
    OBVIOUS
  <2>2. msg.units # <<>> /\ Len(msg.units) = 1
    BY <1>3, <2>1
  <2>3. (NativeRetry => src = "input") /\ (~NativeRetry => src = "retry")
    OBVIOUS
  <2> QED
    BY <1>3, <2>2, <2>3 DEF Shape
<1>5. Redelivers(msg)
  BY <1>3, SettingsTypes DEF Redelivers
<1> QED
  BY <1>2, <1>3, <1>4, <1>5 DEF Copy, msg

\* Put keeps what is in the queue.  After it the unit is in a copy or reported, or it
\* was a copy already, which comes again by itself.
LEMMA PutStep ==
    ASSUME TypeInv, NEW msg \in Msg, Shape(msg), NEW u \in Units, Put(msg, u)
    PROVE  /\ visible \subseteq visible' /\ \A m \in visible' : m \in visible \/ Copy(m)
           /\ puts' \in Nat /\ reported \subseteq reported'
           /\ \/ u \in reported' \/ \E m \in visible' : u \in UnitsOf(m)
              \/ ~msg.agg /\ Redelivers(msg)
<1>1. CASE msg.retry
  <2>1. ~msg.agg /\ Redelivers(msg)
    BY <1>1, SettingsTypes DEF Shape, Redelivers, Msg
  <2> QED
    BY <1>1, <2>1 DEF Put, TypeInv
<1>2. CASE ~msg.retry
  <2> DEFINE new == Message(<<u>>, FALSE, TRUE, IF NativeRetry THEN "input" ELSE "retry", puts + 1)
  <2>0. puts \in Nat /\ puts + 1 \in Nat /\ puts + 1 \in Int
    BY DEF TypeInv
  <2>1. Copy(new) /\ UnitsOf(new) = {u}
    BY <2>0, CopyOf
  <2>2. CASE puts' = puts + 1 /\ visible' = visible \union {new} /\ UNCHANGED reported
    <3>1. u \in UnitsOf(new) /\ new \in visible'
      BY <2>1, <2>2
    <3>2. \A m \in visible' : m \in visible \/ m = new
      BY <2>2
    <3> HIDE DEF new
    <3> QED
      BY <2>0, <2>1, <2>2, <3>1, <3>2
  <2>3. CASE reported' = reported \union {u} /\ UNCHANGED <<visible, puts>>
    BY <2>3 DEF TypeInv
  <2> QED
    BY <1>2, <2>2, <2>3 DEF Put
<1> QED
  BY <1>1, <1>2

\* The same for the retry of a batch.
LEMMA RetryAllStep ==
    ASSUME TypeInv, ShapeInv, taken \in Seq(Part), NEW places \in SUBSET DOMAIN taken,
           NEW bad \in SUBSET DOMAIN taken, RetryAll(taken, places, bad)
    PROVE  /\ visible \subseteq visible' /\ \A m \in visible' : m \in visible \/ Copy(m)
           /\ puts' \in Nat /\ reported \subseteq reported'
           /\ \A i \in bad : taken[i].unit \in reported'
           /\ \A i \in places : \/ taken[i].unit \in reported' \/ \E m \in visible' : taken[i].unit \in UnitsOf(m)
                                \/ Redelivers(taken[i].msg)
<1>1. CASE NativeRetry
  BY <1>1 DEF RetryAll, UnitsAt, Redelivers, TypeInv
<1>2. CASE ~NativeRetry
  <2> DEFINE new == {i \in places : ~taken[i].msg.retry}
             copy(i) == Message(<<taken[i].unit>>, FALSE, TRUE, "retry", puts + i)
  <2>1. PICK lost \in SUBSET new :
          /\ reported' = reported \union {taken[i].unit : i \in lost \union bad}
          /\ puts' = IF new \ lost = {} THEN puts ELSE puts + Len(taken)
          /\ visible' = visible \union {copy(i) : i \in new \ lost}
    BY <1>2 DEF RetryAll, PutAll, UnitsAt
  <2>2. \A i \in DOMAIN taken : i \in Int /\ taken[i] \in Part /\ taken[i].unit \in Units
    BY DEF TypeInv, Part
  <2>3. ASSUME NEW i \in DOMAIN taken PROVE Copy(copy(i)) /\ UnitsOf(copy(i)) = {taken[i].unit}
    <3>1. puts + i \in Int /\ taken[i].unit \in Units
      BY <2>2 DEF TypeInv
    <3> QED
      BY <1>2, <3>1, CopyOf
  <2>4. puts' \in Nat
    BY <2>1 DEF TypeInv
  <2>5. \A m \in visible' : m \in visible \/ Copy(m)
    BY <2>1, <2>3
  <2>6. ASSUME NEW i \in places
        PROVE  \/ taken[i].unit \in reported' \/ \E m \in visible' : taken[i].unit \in UnitsOf(m)
               \/ Redelivers(taken[i].msg)
    <3>1. CASE i \in lost
      BY <2>1, <3>1
    <3>2. CASE i \in new \ lost
      <4>1. copy(i) \in visible' /\ taken[i].unit \in UnitsOf(copy(i))
        BY <2>1, <2>3, <3>2
      <4> QED
        BY <4>1
    <3>3. CASE i \notin new
      <4>1. taken[i].msg.retry
        BY <3>3
      <4>2. taken[i].msg \in InHand
        BY HandOf DEF Places
      <4> QED
        BY <1>2, <4>1, <4>2 DEF ShapeInv, Shape, Redelivers
    <3> QED
      BY <3>1, <3>2, <3>3
  <2> QED
    BY <2>1, <2>4, <2>5, <2>6
<1> QED
  BY <1>1, <1>2

-----------------------------------------------------------------------------
(* What the steps do.                                                      *)

\* What the invariants are about.
shared == <<visible, inflight, puts, pump, ingest, work, settings, consumed, reported, batch, taken>>

Quiet == KernelStops \/ CallbackRunFails \/ StopIncomingData \/ \E s \in Sources : PumpEnds(s) \/ IngestEnds(s)

Consume(r) ==
    ConsumeShutdown(r) \/ ConsumeAck(r) \/ ConsumeSome(r) \/ ConsumePanic(r)

Plain(r) == Process(r) \/ Acknowledge(r) \/ AcknowledgeFails(r) \/ \E s \in Sources : Take(s, r)

Gather(r) == Flush(r) \/ \E s \in Sources : Collect(s, r)

\* The steps that touch no message.
LEMMA QuietStep ==
    ASSUME TypeInv, Quiet, UNCHANGED batchVars
    PROVE  UNCHANGED shared
<1>1. UNCHANGED <<visible, inflight, puts, ingest, work, settings, consumed, reported, batch, taken>>
  BY DEF Quiet, KernelStops, CallbackRunFails, StopIncomingData, PumpEnds, IngestEnds,
         queueVars, flowVars, stopVars, doneVars, batchVars
<1>2. pump' = pump
  <2>1. CASE \E s \in Sources : PumpEnds(s)
    BY <2>1 DEF PumpEnds, PumpDone, TypeInv
  <2>2. CASE ~\E s \in Sources : PumpEnds(s)
    BY <2>2 DEF Quiet, KernelStops, CallbackRunFails, StopIncomingData, IngestEnds, flowVars
  <2> QED
    BY <2>1, <2>2
<1> QED
  BY <1>1, <1>2 DEF shared

\* The steps of a consumer that is not a BatchConsumer leave the batch alone.
LEMMA StepCases ==
    ASSUME TypeInv, [BatchNext]_consumerVars
    PROVE  \/ UNCHANGED shared
           \/ \E s \in Sources : Receive(s) /\ UNCHANGED batchVars
           \/ \E s \in Sources : Shovel(s) /\ UNCHANGED batchVars
           \/ \E msg \in inflight : Redeliver(msg) /\ UNCHANGED batchVars
           \/ ~settings.batch /\ UNCHANGED batchVars /\ \E r \in Runners : Plain(r)
           \/ \E r \in Runners : RunnerEnds(r) /\ UNCHANGED batchVars /\ (settings.batch => batch = <<>>)
           \/ settings.batch /\ \E r \in Runners : Gather(r)
           \/ \E s \in Sources, r \in Runners : CollectFails(s, r)
           \/ settings.batch /\ \E r \in Runners : Consume(r)
           \/ settings.batch /\ \E r \in Runners : AcknowledgeBatch(r)
<1>1. CASE BaseConsumer /\ UNCHANGED batchVars
  BY <1>1, QuietStep DEF BaseConsumer, Source, Quiet
<1>2. CASE InputRunner
  BY <1>2 DEF InputRunner, ReadData, Handover, Runner, ReadFromInput, ConsumeBatch, Consume, Plain, Gather, Leave, CollectFails
<1>3. CASE \E msg \in inflight : BatchRedeliver(msg)
  BY <1>3 DEF BatchRedeliver, RedeliverIdle, RedeliverEarly
<1>4. CASE UNCHANGED consumerVars
  BY <1>4 DEF consumerVars, vars, batchVars, shared, queueVars, flowVars, stopVars, doneVars
<1> QED
  BY <1>1, <1>2, <1>3, <1>4 DEF BatchNext

\* A unit is processed: it is consumed, reported, in a copy, or its message comes again.
LEMMA ProcessStep ==
    ASSUME TypeInv, ShapeInv, ~settings.batch, NEW r \in Runners, Process(r)
    PROVE  /\ work[r].step = "process" /\ Unit(r) \in UnitsOf(work[r].msg)
           /\ UNCHANGED <<inflight, flowVars, settings>>
           /\ visible \subseteq visible' /\ \A m \in visible' : m \in visible \/ Copy(m)
           /\ puts' \in Nat /\ reported \subseteq reported' /\ consumed \subseteq consumed'
           /\ \E ack \in BOOLEAN : Processed(r, ack) /\ (ack => Unit(r) \in consumed')
           /\ SafeSettings => \/ Unit(r) \in consumed' \union reported'
                              \/ \E m \in visible' : Unit(r) \in UnitsOf(m)
                              \/ ~work[r].msg.agg /\ Redelivers(work[r].msg)
<1> DEFINE msg == work[r].msg
<1>1. work[r].step = "process"
  BY DEF Process, ProcessShutdown, ProcessAck, ProcessNack, ProcessPanic, ProcessUndecodable
<1>2. msg \in Msg /\ msg \in InHand /\ Busy(r)
  BY <1>1, HandOf DEF Places, TypeInv, Busy, Job
<1>3. Shape(msg) /\ work[r].next \in DOMAIN msg.units
  BY <1>1, <1>2 DEF ShapeInv, TypeInv, Msg, Job
<1>4. Unit(r) \in UnitsOf(msg) /\ Unit(r) \in Units
  BY <1>2, <1>3, UnitsOfMessage DEF Unit, UnitsOf
<1>5. ASSUME SafeSettings, ComesAgain(msg) PROVE ~msg.agg /\ Redelivers(msg)
  BY <1>2, <1>3, <1>5, SettingsTypes DEF SafeSettings, ComesAgain, Shape, Redelivers, NativeRetry, Mode, TypeInv, Msg
<1> USE DEF queueVars, flowVars, stopVars, doneVars
<1>6. CASE ProcessShutdown(r) \/ ProcessNack(r)
  <2>1. UNCHANGED <<inflight, flowVars, settings, consumed>> /\ Processed(r, FALSE)
    BY <1>6 DEF ProcessShutdown, ProcessNack
  <2>2. CASE ComesAgain(msg)
    BY <1>1, <1>4, <1>5, <1>6, <2>1, <2>2 DEF ProcessShutdown, ProcessNack, TypeInv
  <2>3. CASE ~ComesAgain(msg)
    <3>1. Put(msg, Unit(r))
      BY <1>6, <2>3 DEF ProcessShutdown, ProcessNack
    <3> QED
      BY <1>1, <1>2, <1>3, <1>4, <2>1, <3>1, PutStep
  <2> QED
    BY <2>2, <2>3
<1>7. CASE ProcessPanic(r)
  <2>1. UNCHANGED <<inflight, flowVars, settings, consumed>> /\ Processed(r, FALSE)
    BY <1>7 DEF ProcessPanic
  <2>2. CASE NativeRetry
    <3>1. UNCHANGED <<visible, puts>> /\ reported \subseteq reported' /\ (msg.agg => Unit(r) \in reported')
      BY <1>7, <2>2 DEF ProcessPanic
    <3>2. Redelivers(msg)
      BY <2>2 DEF Redelivers
    <3> QED
      BY <1>1, <1>4, <2>1, <3>1, <3>2 DEF TypeInv
  <2>3. CASE ~NativeRetry
    <3>1. Put(msg, Unit(r))
      BY <1>7, <2>3 DEF ProcessPanic
    <3> QED
      BY <1>1, <1>2, <1>3, <1>4, <2>1, <3>1, PutStep
  <2> QED
    BY <2>2, <2>3
<1>8. CASE ProcessAck(r)
  <2>1. /\ UNCHANGED <<queueVars, flowVars, settings, reported>> /\ Processed(r, TRUE)
        /\ consumed' = consumed \union {Unit(r)}
    BY <1>8 DEF ProcessAck
  <2> QED
    BY <1>1, <1>4, <2>1 DEF TypeInv
<1>9. CASE ProcessUndecodable(r)
  <2>1. /\ UNCHANGED <<queueVars, flowVars, settings, consumed>> /\ Processed(r, FALSE)
        /\ reported' = reported \union {Unit(r)}
    BY <1>9 DEF ProcessUndecodable
  <2> QED
    BY <1>1, <1>4, <2>1 DEF TypeInv
<1> QED
  BY <1>6, <1>7, <1>8, <1>9 DEF Process

\* The state of a runner after that: the next unit, or the acknowledgement.
LEMMA ProcessedWork ==
    ASSUME TypeInv, NEW r \in Runners, NEW ack \in BOOLEAN, Processed(r, ack)
    PROVE  /\ \A q \in Runners : q # r => work'[q] = work[q]
           /\ work'[r].msg = work[r].msg /\ work'[r].next = work[r].next + 1
           /\ work'[r].step = IF work[r].next = Len(work[r].msg.units) THEN "ack" ELSE "process"
           /\ work'[r].ack = IF work[r].msg.agg THEN Mode = "atLeastOnce" ELSE ack
           /\ work' \in [Runners -> Job]
<1> DEFINE new == [work[r] EXCEPT !.next = @ + 1,
                                  !.step = IF work[r].next = Len(work[r].msg.units) THEN "ack" ELSE "process",
                                  !.ack = IF work[r].msg.agg THEN Mode = "atLeastOnce" ELSE ack]
<1>1. work[r] \in Job
  BY DEF TypeInv
<1>2. work' = [work EXCEPT ![r] = new]
  BY <1>1 DEF TypeInv, Processed, Job
<1>3. work \in [Runners -> Job]
  BY DEF TypeInv
<1>4. /\ new.msg = work[r].msg /\ new.next = work[r].next + 1
      /\ new.step = IF work[r].next = Len(work[r].msg.units) THEN "ack" ELSE "process"
      /\ new.ack = IF work[r].msg.agg THEN Mode = "atLeastOnce" ELSE ack
  BY <1>1 DEF Job
<1>5. new \in Job
  <2>1. work[r].next + 1 \in Nat
    BY <1>1 DEF Job
  <2>2. (IF work[r].msg.agg THEN Mode = "atLeastOnce" ELSE ack) \in BOOLEAN
    OBVIOUS
  <2>3. (IF work[r].next = Len(work[r].msg.units) THEN "ack" ELSE "process") \in {"idle", "process", "ack", "ended"}
    OBVIOUS
  <2> QED
    BY <1>1, <2>1, <2>2, <2>3 DEF Job
<1> HIDE DEF new
<1> QED
  BY <1>2, <1>3, <1>4, <1>5

\* A step of a runner that only changes its label.
LEMMA LabelStep ==
    ASSUME TypeInv, NEW r \in Runners, NEW label \in {"idle", "process", "ack", "ended"}, Step(r, label)
    PROVE  /\ \A q \in Runners : q # r => work'[q] = work[q]
           /\ \A q \in Runners : work'[q].msg = work[q].msg /\ work'[q].next = work[q].next
           /\ work'[r].step = label /\ work' \in [Runners -> Job]
<1>1. work \in [Runners -> Job] /\ work' = [work EXCEPT ![r] = [work[r] EXCEPT !.step = label]]
  BY DEF TypeInv, Step
<1>2. /\ [work[r] EXCEPT !.step = label] \in Job /\ [work[r] EXCEPT !.step = label].step = label
      /\ [work[r] EXCEPT !.step = label].msg = work[r].msg /\ [work[r] EXCEPT !.step = label].next = work[r].next
  BY <1>1 DEF Job
<1> QED
  BY <1>1, <1>2

\* What an idle runner has.
LEMMA WaitingType ==
    /\ NoMessage \in Msg /\ Waiting \in Job
    /\ Waiting.msg = NoMessage /\ Waiting.step = "idle" /\ Waiting.next = 1 /\ Waiting.ack = FALSE
<1>1. <<>> \in Seq(Units) /\ -1 \in Int /\ "input" \in Sources
  BY DEF Sources
<1>2. NoMessage \in Msg
  BY <1>1 DEF NoMessage, Msg
<1> QED
  BY <1>2 DEF Waiting, Job

\* What a runner has that gets a message.
LEMMA JobType ==
    ASSUME NEW msg \in Msg
    PROVE  /\ [Waiting EXCEPT !.msg = msg, !.step = "process"] \in Job
           /\ [Waiting EXCEPT !.msg = msg, !.step = "process"].msg = msg
           /\ [Waiting EXCEPT !.msg = msg, !.step = "process"].step = "process"
           /\ [Waiting EXCEPT !.msg = msg, !.step = "process"].next = 1
           /\ [Waiting EXCEPT !.msg = msg, !.step = "process"].ack = FALSE
  BY WaitingType DEF Job

\* The parts of a message.
LEMMA PartsOf ==
    ASSUME NEW msg \in Msg
    PROVE  /\ Parts(msg) \in Seq(Part)
           /\ \A i \in DOMAIN Parts(msg) : Parts(msg)[i].msg = msg /\ Parts(msg)[i].unit \in UnitsOf(msg)
           /\ UnitsIn(Parts(msg)) = UnitsOf(msg)
<1>1. msg.units \in Seq(Units)
  BY DEF Msg
<1>2. PICK n \in Nat : DOMAIN msg.units = 1..n
  BY <1>1
<1>3. \A i \in 1..n : msg.units[i] \in Units
  BY <1>1, <1>2
<1>4. Parts(msg) \in [1..n -> Part]
  BY <1>2, <1>3 DEF Parts, Part
<1>5. Parts(msg) \in Seq(Part)
  BY <1>4, SeqDef
<1>6. DOMAIN Parts(msg) = DOMAIN msg.units
  BY DEF Parts
<1>7. \A i \in DOMAIN msg.units : Parts(msg)[i].msg = msg /\ Parts(msg)[i].unit = msg.units[i]
  BY DEF Parts
<1>8. UnitsIn(Parts(msg)) = UnitsOf(msg)
  BY <1>6, <1>7 DEF UnitsIn, UnitsOf
<1>9. \A i \in DOMAIN msg.units : msg.units[i] \in UnitsOf(msg)
  BY DEF UnitsOf
<1> QED
  BY <1>5, <1>6, <1>7, <1>8, <1>9

\* Appending keeps the parts.
LEMMA Appended ==
    ASSUME NEW left \in Seq(Part), NEW right \in Seq(Part)
    PROVE  /\ left \o right \in Seq(Part)
           /\ \A i \in DOMAIN (left \o right) : \/ \E j \in DOMAIN left : (left \o right)[i] = left[j]
                                                \/ \E j \in DOMAIN right : (left \o right)[i] = right[j]
           /\ UnitsIn(left) \subseteq UnitsIn(left \o right) /\ UnitsIn(right) \subseteq UnitsIn(left \o right)
<1> DEFINE both == left \o right
<1>1. both \in Seq(Part) /\ Len(both) = Len(left) + Len(right)
  OBVIOUS
<1>2. \A i \in 1..Len(left) : both[i] = left[i]
  OBVIOUS
<1>3. \A i \in 1..Len(right) : both[Len(left) + i] = right[i]
  OBVIOUS
<1>4. /\ DOMAIN both = 1..(Len(left) + Len(right)) /\ DOMAIN left = 1..Len(left)
      /\ DOMAIN right = 1..Len(right) /\ Len(left) \in Nat /\ Len(right) \in Nat
  BY <1>1
<1> HIDE DEF both
<1>5. ASSUME NEW i \in DOMAIN both
      PROVE (\E j \in DOMAIN left : both[i] = left[j]) \/ (\E j \in DOMAIN right : both[i] = right[j])
  <2>1. CASE i <= Len(left)
    BY <1>2, <1>4, <2>1
  <2>2. CASE ~(i <= Len(left))
    <3>1. i - Len(left) \in 1..Len(right) /\ Len(left) + (i - Len(left)) = i
      BY <1>4, <2>2
    <3> QED
      BY <1>3, <1>4, <3>1
  <2> QED
    BY <2>1, <2>2
<1>6. ASSUME NEW j \in DOMAIN left PROVE left[j].unit \in UnitsIn(both)
  BY <1>2, <1>4 DEF UnitsIn
<1>7. ASSUME NEW j \in DOMAIN right PROVE right[j].unit \in UnitsIn(both)
  <2>1. Len(left) + j \in DOMAIN both /\ both[Len(left) + j] = right[j]
    BY <1>3, <1>4
  <2> QED
    BY <2>1 DEF UnitsIn
<1>8. UnitsIn(left) \subseteq UnitsIn(both) /\ UnitsIn(right) \subseteq UnitsIn(both)
  BY <1>6, <1>7 DEF UnitsIn
<1> QED
  BY <1>1, <1>5, <1>8 DEF both

\* A runner gets a message: an aggregate may be acknowledged first.
LEMMA TakeStep ==
    ASSUME TypeInv, ShapeInv, ~settings.batch, NEW s \in Sources, NEW r \in Runners, Take(s, r)
    PROVE  \E msg \in Msg :
              /\ ingest[s] = {msg} /\ ingest' = [ingest EXCEPT ![s] = {}] /\ work[r].step = "idle"
              /\ work' \in [Runners -> Job] /\ \A q \in Runners : q # r => work'[q] = work[q]
              /\ work'[r].msg = msg /\ work'[r].step = "process" /\ work'[r].next = 1
              /\ \/ UNCHANGED <<visible, inflight>>
                 \/ msg.agg /\ visible' = visible \ {msg} /\ inflight' = inflight \ {msg}
              /\ UNCHANGED <<puts, pump, settings, consumed, reported>>
<1> DEFINE job(msg) == [Waiting EXCEPT !.msg = msg, !.step = "process"]
<1>1. PICK msg \in ingest[s] :
          /\ ingest' = [ingest EXCEPT ![s] = {}] /\ work' = [work EXCEPT ![r] = job(msg)]
          /\ (msg.agg /\ Delete(msg)) \/ UNCHANGED <<visible, inflight>>
  BY DEF Take
<1>2. msg \in Msg /\ ingest[s] = {msg}
  BY DEF TypeInv, ShapeInv
<1>3. job(msg) \in Job /\ job(msg).msg = msg /\ job(msg).step = "process" /\ job(msg).next = 1
  BY <1>2, JobType
<1>4. work \in [Runners -> Job]
  BY DEF TypeInv
<1> HIDE DEF job
<1>5. /\ work' \in [Runners -> Job] /\ \A q \in Runners : q # r => work'[q] = work[q]
      /\ work'[r].msg = msg /\ work'[r].step = "process" /\ work'[r].next = 1
  BY <1>1, <1>3, <1>4
<1>6. \/ UNCHANGED <<visible, inflight>>
      \/ msg.agg /\ visible' = visible \ {msg} /\ inflight' = inflight \ {msg}
  BY <1>1 DEF Delete
<1>7. UNCHANGED <<puts, pump, settings, consumed, reported>> /\ work[r].step = "idle"
  BY DEF Take, stopVars
<1> QED
  BY <1>1, <1>2, <1>5, <1>6, <1>7

\* A runner is done with its message, which is deleted if it was acknowledged.
LEMMA DoneStep ==
    ASSUME TypeInv, NEW r \in Runners, Acknowledge(r) \/ AcknowledgeFails(r)
    PROVE  /\ work[r].step = "ack" /\ work' \in [Runners -> Job]
           /\ \A q \in Runners : q # r => work'[q] = work[q]
           /\ work'[r].step = "idle" /\ work'[r].msg = NoMessage /\ work'[r].next = 1
           /\ \/ UNCHANGED <<visible, inflight>>
              \/ work[r].ack /\ visible' = visible \ {work[r].msg} /\ inflight' = inflight \ {work[r].msg}
           /\ UNCHANGED <<puts, pump, ingest, settings, consumed, reported>>
<1>1. work' = [work EXCEPT ![r] = Waiting] /\ work[r].step = "ack"
  BY DEF Acknowledge, AcknowledgeFails
<1>2. work \in [Runners -> Job]
  BY DEF TypeInv
<1>3. \/ UNCHANGED <<visible, inflight>>
      \/ work[r].ack /\ visible' = visible \ {work[r].msg} /\ inflight' = inflight \ {work[r].msg}
  BY DEF Acknowledge, AcknowledgeFails, AckMessage, Delete, queueVars
<1>4. UNCHANGED <<puts, pump, ingest, settings, consumed, reported>>
  BY DEF Acknowledge, AcknowledgeFails, queueVars, flowVars, stopVars, doneVars
<1> QED
  BY <1>1, <1>2, <1>3, <1>4, WaitingType

\* A runner leaves.
LEMMA LeaveStep ==
    ASSUME TypeInv, NEW r \in Runners, RunnerEnds(r)
    PROVE  /\ work[r].step = "idle" /\ Step(r, "ended")
           /\ UNCHANGED <<queueVars, pump, ingest, settings, consumed, reported>>
  BY DEF RunnerEnds, Step, flowVars, stopVars, doneVars

\* Messages are added to the batch, or the batch is passed on.
LEMMA GatherStep ==
    ASSUME TypeInv, ShapeInv, NEW r \in Runners, Gather(r)
    PROVE  \E parts \in Seq(Part) :
              /\ ProcessBatch(r, parts) \/ (batch' = parts /\ UNCHANGED <<taken, work>>)
              /\ \A i \in DOMAIN parts : parts[i].msg \in InHand /\ parts[i].unit \in UnitsOf(parts[i].msg)
              /\ UnitsIn(batch) \subseteq UnitsIn(parts)
              /\ \A s \in Sources : /\ ingest'[s] \subseteq ingest[s]
                                    /\ \A m \in ingest[s] : m \in ingest'[s] \/ UnitsOf(m) \subseteq UnitsIn(parts)
              /\ ingest' \in [Sources -> SUBSET Msg]
              /\ UNCHANGED <<queueVars, pump, settings, consumed, reported>> /\ work[r].step = "idle"
<1>0. batch \in Seq(Part)
  BY DEF TypeInv
<1>1. CASE Flush(r)
  <2>1. \A i \in DOMAIN batch : batch[i].msg \in InHand /\ batch[i].unit \in UnitsOf(batch[i].msg)
    BY HandOf DEF Places, ShapeInv
  <2>2. /\ ProcessBatch(r, batch) /\ work[r].step = "idle"
        /\ UNCHANGED <<queueVars, ingest, pump, settings, consumed, reported>>
    BY <1>1 DEF Flush, flowVars, stopVars, doneVars
  <2>3. ingest' \in [Sources -> SUBSET Msg]
    BY <2>2 DEF TypeInv
  <2> QED
    BY <1>0, <2>1, <2>2, <2>3
<1>2. ASSUME NEW s \in Sources, Collect(s, r)
      PROVE  \E parts \in Seq(Part) :
              /\ ProcessBatch(r, parts) \/ (batch' = parts /\ UNCHANGED <<taken, work>>)
              /\ \A i \in DOMAIN parts : parts[i].msg \in InHand /\ parts[i].unit \in UnitsOf(parts[i].msg)
              /\ UnitsIn(batch) \subseteq UnitsIn(parts)
              /\ \A t \in Sources : /\ ingest'[t] \subseteq ingest[t]
                                    /\ \A m \in ingest[t] : m \in ingest'[t] \/ UnitsOf(m) \subseteq UnitsIn(parts)
              /\ ingest' \in [Sources -> SUBSET Msg]
              /\ UNCHANGED <<queueVars, pump, settings, consumed, reported>> /\ work[r].step = "idle"
  <2>1. PICK msg \in ingest[s] :
            \/ ProcessBatch(r, batch \o Parts(msg))
            \/ batch' = batch \o Parts(msg) /\ UNCHANGED <<taken, work>>
    BY <1>2 DEF Collect
  <2>2. /\ ingest' = [ingest EXCEPT ![s] = {}] /\ work[r].step = "idle"
        /\ UNCHANGED <<queueVars, pump, settings, consumed, reported>>
    BY <1>2 DEF Collect, stopVars, doneVars
  <2>3. msg \in Msg /\ ingest[s] = {msg} /\ msg \in InHand
    BY HandOf DEF Places, TypeInv, ShapeInv
  <2> DEFINE parts == batch \o Parts(msg)
  <2>4. Parts(msg) \in Seq(Part) /\ UnitsIn(Parts(msg)) = UnitsOf(msg)
    BY <2>3, PartsOf
  <2>5. parts \in Seq(Part) /\ UnitsIn(batch) \subseteq UnitsIn(parts) /\ UnitsOf(msg) \subseteq UnitsIn(parts)
    BY <1>0, <2>4, Appended
  <2>6. ASSUME NEW i \in DOMAIN parts PROVE parts[i].msg \in InHand /\ parts[i].unit \in UnitsOf(parts[i].msg)
    <3>1. (\E j \in DOMAIN batch : parts[i] = batch[j]) \/ (\E j \in DOMAIN Parts(msg) : parts[i] = Parts(msg)[j])
      BY <1>0, <2>4, Appended
    <3>2. \A j \in DOMAIN batch : batch[j].msg \in InHand /\ batch[j].unit \in UnitsOf(batch[j].msg)
      BY HandOf DEF Places, ShapeInv
    <3>3. \A j \in DOMAIN Parts(msg) : Parts(msg)[j].msg = msg /\ Parts(msg)[j].unit \in UnitsOf(msg)
      BY <2>3, PartsOf
    <3> HIDE DEF parts
    <3> QED
      BY <2>3, <3>1, <3>2, <3>3
  <2>7. \A t \in Sources : /\ ingest'[t] \subseteq ingest[t]
                           /\ \A m \in ingest[t] : m \in ingest'[t] \/ UnitsOf(m) \subseteq UnitsIn(parts)
    BY <2>2, <2>3, <2>5 DEF TypeInv
  <2>8. ingest' \in [Sources -> SUBSET Msg]
    BY <2>2 DEF TypeInv
  <2>9. ProcessBatch(r, parts) \/ (batch' = parts /\ UNCHANGED <<taken, work>>)
    BY <2>1
  <2> HIDE DEF parts
  <2> QED
    BY <2>2, <2>5, <2>6, <2>7, <2>8, <2>9
<1> QED
  BY <1>1, <1>2 DEF Gather

\* An aggregate is dropped.
LEMMA DropStep ==
    ASSUME TypeInv, ShapeInv, NEW s \in Sources, NEW r \in Runners, CollectFails(s, r)
    PROVE  /\ ingest' \in [Sources -> SUBSET Msg]
           /\ \A t \in Sources : /\ ingest'[t] \subseteq ingest[t]
                                 /\ \A m \in ingest[t] : m \in ingest'[t] \/ UnitsOf(m) \subseteq reported'
           /\ reported \subseteq reported'
           /\ UNCHANGED <<queueVars, pump, work, settings, consumed, batchVars>>
<1>1. PICK msg \in ingest[s] : reported' = reported \union UnitsOf(msg)
  BY DEF CollectFails, DisaggregateFails
<1>2. /\ ingest' = [ingest EXCEPT ![s] = {}]
      /\ UNCHANGED <<queueVars, pump, work, settings, consumed, batchVars>>
  BY DEF CollectFails, DisaggregateFails, stopVars
<1>3. ingest[s] = {msg}
  BY DEF ShapeInv
<1> QED
  BY <1>1, <1>2, <1>3 DEF TypeInv

\* A batch is consumed: a part is consumed, reported, in a copy, or its message comes again.
LEMMA ConsumeStep ==
    ASSUME TypeInv, ShapeInv, settings.batch, NEW r \in Runners, Consume(r)
    PROVE  /\ work[r].step = "process" /\ UNCHANGED <<inflight, pump, ingest, settings, batch>>
           /\ visible \subseteq visible' /\ \A m \in visible' : m \in visible \/ Copy(m)
           /\ puts' \in Nat /\ reported \subseteq reported' /\ consumed \subseteq consumed'
           /\ \/ taken' = <<>> /\ Step(r, "idle")
              \/ /\ Step(r, "ack") /\ DOMAIN taken' \subseteq DOMAIN taken
                 /\ \A i \in DOMAIN taken' : taken'[i] = taken[i] /\ taken[i].unit \in consumed'
           /\ \A i \in DOMAIN taken : \/ taken[i].unit \in consumed' \union reported'
                                      \/ \E m \in visible' : taken[i].unit \in UnitsOf(m)
                                      \/ Redelivers(taken[i].msg)
<1>1. work[r].step = "process" /\ UNCHANGED <<inflight, pump, ingest, settings, batch>>
  BY DEF Consume, ConsumeShutdown, ConsumeAck, ConsumeSome, ConsumePanic,
         queueVars, flowVars, stopVars, batchVars
<1>2. taken \in Seq(Part)
  BY <1>1 DEF TypeInv
<1>3. CASE ConsumeShutdown(r)
  <2>1. /\ RetryAll(taken, DOMAIN taken, {}) /\ taken' = <<>> /\ Step(r, "idle")
        /\ UNCHANGED consumed
    BY <1>3 DEF ConsumeShutdown
  <2> QED
    BY <1>1, <1>2, <2>1, RetryAllStep
<1>4. CASE ConsumeAck(r)
  <2>1. /\ consumed' = consumed \union UnitsIn(taken) /\ Step(r, "ack")
        /\ UNCHANGED <<visible, puts, reported, taken>>
    BY <1>4 DEF ConsumeAck, queueVars, batchVars
  <2>2. \A i \in DOMAIN taken : taken[i].unit \in consumed'
    BY <2>1 DEF UnitsIn
  <2> QED
    BY <1>1, <2>1, <2>2 DEF TypeInv
<1>5. CASE ConsumeSome(r)
  <2>1. PICK bad \in SUBSET DOMAIN taken, nacked \in SUBSET DOMAIN taken :
            taken' = Drop(taken, bad \union nacked) /\ RetryAll(taken, nacked, bad)
    BY <1>5 DEF ConsumeSome
  <2>2. consumed' = consumed \union UnitsIn(taken') /\ Step(r, "ack")
    BY <1>5 DEF ConsumeSome
  <2>3. DOMAIN taken' = DOMAIN taken \ (bad \union nacked) /\ \A i \in DOMAIN taken' : taken'[i] = taken[i]
    BY <2>1 DEF Drop
  <2>4. \A i \in DOMAIN taken' : taken[i].unit \in consumed'
    BY <2>2, <2>3 DEF UnitsIn
  <2>5. /\ visible \subseteq visible' /\ \A m \in visible' : m \in visible \/ Copy(m)
        /\ puts' \in Nat /\ reported \subseteq reported'
        /\ \A i \in bad : taken[i].unit \in reported'
        /\ \A i \in nacked : \/ taken[i].unit \in reported' \/ \E m \in visible' : taken[i].unit \in UnitsOf(m)
                             \/ Redelivers(taken[i].msg)
    BY <1>2, <2>1, RetryAllStep
  <2>6. ASSUME NEW i \in DOMAIN taken
        PROVE  \/ taken[i].unit \in consumed' \union reported'
               \/ \E m \in visible' : taken[i].unit \in UnitsOf(m)
               \/ Redelivers(taken[i].msg)
    BY <2>3, <2>4, <2>5
  <2>7. DOMAIN taken' \subseteq DOMAIN taken /\ consumed \subseteq consumed'
    BY <2>2, <2>3
  <2> QED
    BY <1>1, <2>2, <2>3, <2>4, <2>5, <2>6, <2>7
<1>7. CASE ConsumePanic(r)
  <2>1. /\ taken' = <<>> /\ Step(r, "idle") /\ UNCHANGED <<visible, puts, consumed>>
        /\ reported' = IF NativeRetry THEN reported ELSE reported \union UnitsIn(taken)
    BY <1>7 DEF ConsumePanic, queueVars
  <2>2. ASSUME NEW i \in DOMAIN taken
        PROVE  taken[i].unit \in consumed' \union reported' \/ Redelivers(taken[i].msg)
    BY <2>1 DEF UnitsIn, Redelivers
  <2> QED
    BY <1>1, <2>1, <2>2 DEF TypeInv
<1> QED
  BY <1>3, <1>4, <1>5, <1>7 DEF Consume

\* The acknowledged parts of a batch are deleted, as far as the calls succeed.
LEMMA AckBatchStep ==
    ASSUME NEW r \in Runners, AcknowledgeBatch(r)
    PROVE  /\ work[r].step = "ack" /\ taken' = <<>> /\ Step(r, "idle")
           /\ UNCHANGED <<puts, pump, ingest, settings, consumed, reported, batch>>
           /\ visible' \subseteq visible /\ inflight' \subseteq inflight
           /\ \A m \in visible \union inflight :
                 m \in visible' \union inflight' \/ (~m.agg /\ m \in MessagesIn(taken))
  BY DEF AcknowledgeBatch, Deletable, flowVars, stopVars

-----------------------------------------------------------------------------
(* What any step does to the queue and to the messages in hand.            *)

\* Messages become visible again or are copies, and those in flight were received from
\* a queue.
LEMMA QueueStep ==
    ASSUME TypeInv, ShapeInv, [BatchNext]_consumerVars
    PROVE  /\ settings' = settings /\ puts' \in Nat
           /\ consumed \subseteq consumed' /\ reported \subseteq reported'
           /\ \A m \in visible' : m \in visible \union inflight \/ Copy(m)
           /\ \A m \in inflight' : m \in inflight \/ (m \in visible /\ Redelivers(m))
<1> USE DEF queueVars, flowVars, stopVars, doneVars
<1>0. puts \in Nat
  BY DEF TypeInv
<1>1. CASE UNCHANGED shared
  BY <1>0, <1>1 DEF shared
<1>2. CASE \E s \in Sources : Receive(s) /\ UNCHANGED batchVars
  <2>1. PICK s \in Sources : Receive(s)
    BY <1>2
  <2>2. PICK got \in SUBSET {m \in visible : m.src = s} :
            visible' = visible \ got /\ inflight' = inflight \union {m \in got : Redelivers(m)}
    BY <2>1 DEF Receive
  <2>3. UNCHANGED <<puts, settings, consumed, reported>>
    BY <2>1 DEF Receive
  <2> QED
    BY <1>0, <2>2, <2>3
<1>3. CASE \E s \in Sources : Shovel(s) /\ UNCHANGED batchVars
  BY <1>0, <1>3 DEF Shovel
<1>4. CASE \E msg \in inflight : Redeliver(msg) /\ UNCHANGED batchVars
  BY <1>0, <1>4 DEF Redeliver
<1>5. CASE ~settings.batch /\ UNCHANGED batchVars /\ \E r \in Runners : Plain(r)
  <2>1. PICK r \in Runners : Plain(r)
    BY <1>5
  <2>2. CASE Process(r)
    BY <1>5, <2>2, ProcessStep
  <2>3. CASE Acknowledge(r) \/ AcknowledgeFails(r)
    BY <1>0, <2>3, DoneStep
  <2>4. CASE \E s \in Sources : Take(s, r)
    BY <1>0, <1>5, <2>4, TakeStep
  <2> QED
    BY <2>1, <2>2, <2>3, <2>4 DEF Plain
<1>6. CASE \E r \in Runners : RunnerEnds(r) /\ UNCHANGED batchVars /\ (settings.batch => batch = <<>>)
  BY <1>0, <1>6, LeaveStep
<1>7. CASE settings.batch /\ \E r \in Runners : Gather(r)
  BY <1>0, <1>7, GatherStep
<1>8. CASE \E s \in Sources, r \in Runners : CollectFails(s, r)
  BY <1>0, <1>8, DropStep
<1>9. CASE settings.batch /\ \E r \in Runners : Consume(r)
  BY <1>9, ConsumeStep
<1>10. CASE settings.batch /\ \E r \in Runners : AcknowledgeBatch(r)
  BY <1>0, <1>10, AckBatchStep
<1> QED
  BY <1>1, <1>2, <1>3, <1>4, <1>5, <1>6, <1>7, <1>8, <1>9, <1>10, StepCases

\* What is in hand was in hand, or is received by this step.
LEMMA HandStep ==
    ASSUME ConsumerInv, [BatchNext]_consumerVars, NEW m \in InHand'
    PROVE  m \in InHand \/ (m \in visible /\ m \notin visible' /\ (Redelivers(m) => m \in inflight'))
<1> USE DEF queueVars, flowVars, stopVars, doneVars, batchVars
<1>0. TypeInv /\ ShapeInv /\ RunnerInv /\ settings' = settings
  BY QueueStep DEF ConsumerInv
<1>a. \/ \E s \in Sources : m \in pump'[s] \union ingest'[s]
      \/ \E r \in Runners : ~settings.batch /\ work'[r].step \in {"process", "ack"} /\ m = work'[r].msg
      \/ \E i \in DOMAIN batch' : m = batch'[i].msg
      \/ \E i \in DOMAIN taken' : m = taken'[i].msg
  BY <1>0, HandOf DEF Places, Busy
<1>b. /\ \A s \in Sources : pump[s] \union ingest[s] \subseteq InHand
      /\ \A r \in Runners : ~settings.batch /\ work[r].step \in {"process", "ack"} => work[r].msg \in InHand
      /\ \A i \in DOMAIN batch : batch[i].msg \in InHand
      /\ \A i \in DOMAIN taken : taken[i].msg \in InHand
  BY HandOf DEF Places, Busy
<1>1. CASE UNCHANGED shared
  BY <1>1, <1>a, <1>b DEF shared
<1>2. CASE \E s \in Sources : Receive(s) /\ UNCHANGED batchVars
  <2>1. PICK s \in Sources : Receive(s) /\ UNCHANGED batchVars
    BY <1>2
  <2>2. PICK got \in SUBSET {x \in visible : x.src = s} :
            /\ visible' = visible \ got /\ inflight' = inflight \union {x \in got : Redelivers(x)}
            /\ pump' = [pump EXCEPT ![s] = got]
    BY <2>1 DEF Receive
  <2>3. UNCHANGED <<ingest, work, batch, taken>>
    BY <2>1 DEF Receive
  <2>4. \A t \in Sources : pump'[t] = IF t = s THEN got ELSE pump[t]
    BY <1>0, <2>2 DEF TypeInv
  <2>5. CASE m \in got
    BY <2>2, <2>5
  <2>6. CASE m \notin got
    BY <1>a, <1>b, <2>3, <2>4, <2>6
  <2> QED
    BY <2>5, <2>6
<1>3. CASE \E s \in Sources : Shovel(s) /\ UNCHANGED batchVars
  <2>1. PICK s \in Sources : Shovel(s) /\ UNCHANGED batchVars
    BY <1>3
  <2>2. UNCHANGED <<work, batch, taken>>
    BY <2>1 DEF Shovel
  <2>3. \A t \in Sources : pump'[t] \union ingest'[t] \subseteq pump[t] \union ingest[t]
    BY <1>0, <2>1 DEF Shovel, TypeInv
  <2> QED
    BY <1>a, <1>b, <2>2, <2>3
<1>4. CASE \E msg \in inflight : Redeliver(msg) /\ UNCHANGED batchVars
  <2>1. UNCHANGED <<pump, ingest, work, batch, taken>>
    BY <1>4 DEF Redeliver
  <2> QED
    BY <1>a, <1>b, <2>1
<1>5. CASE ~settings.batch /\ UNCHANGED batchVars /\ \E r \in Runners : Plain(r)
  <2>1. PICK r \in Runners : Plain(r)
    BY <1>5
  <2>2. UNCHANGED <<batch, taken>>
    BY <1>5
  <2>3. CASE Process(r)
    <3>1. UNCHANGED <<pump, ingest>> /\ work[r].step = "process"
      BY <1>0, <1>5, <2>3, ProcessStep
    <3>2. \A q \in Runners : work'[q].msg = work[q].msg /\ (q # r => work'[q] = work[q])
      BY <1>0, <1>5, <2>3, ProcessStep, ProcessedWork
    <3> QED
      BY <1>5, <1>a, <1>b, <2>2, <3>1, <3>2
  <2>4. CASE Acknowledge(r) \/ AcknowledgeFails(r)
    <3>1. UNCHANGED <<pump, ingest>> /\ work'[r].step = "idle" /\ \A q \in Runners : q # r => work'[q] = work[q]
      BY <1>0, <2>4, DoneStep
    <3> QED
      BY <1>5, <1>a, <1>b, <2>2, <3>1
  <2>5. CASE \E s \in Sources : Take(s, r)
    <3>1. PICK s \in Sources : Take(s, r)
      BY <2>5
    <3>2. PICK msg \in Msg :
              /\ ingest[s] = {msg} /\ ingest' = [ingest EXCEPT ![s] = {}] /\ pump' = pump
              /\ work'[r].msg = msg /\ \A q \in Runners : q # r => work'[q] = work[q]
      BY <1>0, <1>5, <3>1, TakeStep
    <3>3. \A t \in Sources : pump'[t] \union ingest'[t] \subseteq pump[t] \union ingest[t]
      BY <1>0, <3>2 DEF TypeInv
    <3>4. work'[r].msg \in InHand
      BY <1>b, <3>2
    <3> QED
      BY <1>5, <1>a, <1>b, <2>2, <3>2, <3>3, <3>4
  <2> QED
    BY <2>1, <2>3, <2>4, <2>5 DEF Plain
<1>6. CASE \E r \in Runners : RunnerEnds(r) /\ UNCHANGED batchVars /\ (settings.batch => batch = <<>>)
  <2>1. PICK r \in Runners : RunnerEnds(r)
    BY <1>6
  <2>2. UNCHANGED <<pump, ingest, batch, taken>> /\ Step(r, "ended")
    BY <1>0, <1>6, <2>1, LeaveStep
  <2>3. work'[r].step = "ended" /\ \A q \in Runners : q # r => work'[q] = work[q]
    BY <1>0, <2>2, LabelStep
  <2> QED
    BY <1>a, <1>b, <2>2, <2>3
<1>7. CASE settings.batch /\ \E r \in Runners : Gather(r)
  <2>1. PICK r \in Runners : Gather(r)
    BY <1>7
  <2>2. PICK parts \in Seq(Part) :
              /\ ProcessBatch(r, parts) \/ (batch' = parts /\ UNCHANGED <<taken, work>>)
              /\ \A i \in DOMAIN parts : parts[i].msg \in InHand
              /\ \A s \in Sources : ingest'[s] \subseteq ingest[s]
              /\ pump' = pump
    BY <1>0, <2>1, GatherStep
  <2>3. \A i \in DOMAIN batch' : batch'[i].msg \in InHand
    BY <2>2 DEF ProcessBatch
  <2>4. \A i \in DOMAIN taken' : taken'[i].msg \in InHand
    BY <1>b, <2>2 DEF ProcessBatch
  <2> QED
    BY <1>7, <1>a, <1>b, <2>2, <2>3, <2>4
<1>8. CASE \E s \in Sources, r \in Runners : CollectFails(s, r)
  <2>1. /\ \A t \in Sources : ingest'[t] \subseteq ingest[t]
        /\ UNCHANGED <<pump, work, batchVars>>
    BY <1>0, <1>8, DropStep
  <2> QED
    BY <1>8, <1>a, <1>b, <2>1
<1>9. CASE settings.batch /\ \E r \in Runners : Consume(r)
  <2>1. UNCHANGED <<pump, ingest, batch>> /\ \A i \in DOMAIN taken' : i \in DOMAIN taken /\ taken'[i] = taken[i]
    BY <1>0, <1>9, ConsumeStep
  <2> QED
    BY <1>9, <1>a, <1>b, <2>1
<1>10. CASE settings.batch /\ \E r \in Runners : AcknowledgeBatch(r)
  <2>1. UNCHANGED <<pump, ingest, batch>> /\ taken' = <<>>
    BY <1>10, AckBatchStep
  <2> QED
    BY <1>10, <1>a, <1>b, <2>1
<1> QED
  BY <1>0, <1>1, <1>2, <1>3, <1>4, <1>5, <1>6, <1>7, <1>8, <1>9, <1>10, StepCases

\* What a queue still has stays there, unless it is consumed or an aggregate of a plain
\* consumer.
LEMMA DeleteStep ==
    ASSUME ConsumerInv, [BatchNext]_consumerVars, NEW m \in visible \union inflight, Redelivers(m)
    PROVE  \/ m \in visible' \union inflight'
           \/ ~m.agg /\ UnitsOf(m) \subseteq consumed
           \/ m.agg /\ ~settings.batch
<1> USE DEF queueVars, flowVars, stopVars, doneVars, batchVars
<1>0. TypeInv /\ ShapeInv /\ AckInv /\ m \in Msg /\ m.agg \in BOOLEAN
  BY DEF ConsumerInv, TypeInv, Msg
<1>1. CASE UNCHANGED shared
  BY <1>1 DEF shared
<1>2. CASE \E s \in Sources : Receive(s) /\ UNCHANGED batchVars
  BY <1>2 DEF Receive
<1>3. CASE \E s \in Sources : Shovel(s) /\ UNCHANGED batchVars
  BY <1>3 DEF Shovel
<1>4. CASE \E msg \in inflight : Redeliver(msg) /\ UNCHANGED batchVars
  BY <1>4 DEF Redeliver
<1>5. CASE ~settings.batch /\ UNCHANGED batchVars /\ \E r \in Runners : Plain(r)
  <2>1. PICK r \in Runners : Plain(r)
    BY <1>5
  <2>2. CASE Process(r)
    BY <1>0, <1>5, <2>2, ProcessStep
  <2>3. CASE Acknowledge(r) \/ AcknowledgeFails(r)
    <3>1. /\ work[r].step = "ack"
          /\ \/ UNCHANGED <<visible, inflight>>
             \/ work[r].ack /\ visible' = visible \ {work[r].msg} /\ inflight' = inflight \ {work[r].msg}
      BY <1>0, <2>3, DoneStep
    <3>2. CASE m = work[r].msg /\ work[r].ack
      BY <1>0, <1>5, <3>1, <3>2 DEF AckInv, Busy
    <3> QED
      BY <3>1, <3>2
  <2>4. CASE \E s \in Sources : Take(s, r)
    <3>1. \E msg \in Msg : \/ UNCHANGED <<visible, inflight>>
                           \/ msg.agg /\ visible' = visible \ {msg} /\ inflight' = inflight \ {msg}
      BY <1>0, <1>5, <2>4, TakeStep
    <3> QED
      BY <1>5, <3>1
  <2> QED
    BY <2>1, <2>2, <2>3, <2>4 DEF Plain
<1>6. CASE \E r \in Runners : RunnerEnds(r) /\ UNCHANGED batchVars /\ (settings.batch => batch = <<>>)
  BY <1>0, <1>6, LeaveStep
<1>7. CASE settings.batch /\ \E r \in Runners : Gather(r)
  BY <1>0, <1>7, GatherStep
<1>8. CASE \E s \in Sources, r \in Runners : CollectFails(s, r)
  BY <1>0, <1>8, DropStep
<1>9. CASE settings.batch /\ \E r \in Runners : Consume(r)
  BY <1>0, <1>9, ConsumeStep
<1>10. CASE settings.batch /\ \E r \in Runners : AcknowledgeBatch(r)
  <2>1. PICK r \in Runners : AcknowledgeBatch(r)
    BY <1>10
  <2>2. work[r].step = "ack" /\ (m \in visible' \union inflight' \/ (~m.agg /\ m \in MessagesIn(taken)))
    BY <2>1, AckBatchStep
  <2>3. ASSUME ~m.agg, m \in MessagesIn(taken) PROVE UnitsOf(m) \subseteq consumed
    <3>1. PICK i \in DOMAIN taken : m = taken[i].msg
      BY <2>3 DEF MessagesIn
    <3>2. taken[i].unit \in UnitsOf(m) /\ Shape(m)
      BY <1>0, <3>1, HandOf DEF Places, ShapeInv
    <3>3. UnitsOf(m) = {taken[i].unit}
      BY <1>0, <2>3, <3>2, UnitsOfMessage
    <3>4. taken[i].unit \in consumed
      BY <1>0, <1>10, <2>2 DEF AckInv, UnitsIn
    <3> QED
      BY <3>3, <3>4
  <2> QED
    BY <2>2, <2>3
<1> QED
  BY <1>0, <1>1, <1>2, <1>3, <1>4, <1>5, <1>6, <1>7, <1>8, <1>9, <1>10, StepCases

-----------------------------------------------------------------------------
(* The invariant is inductive.                                             *)

\* It holds at first.
LEMMA InvariantAtFirst ==
    ASSUME BatchInit
    PROVE  ConsumerInv
<1> USE DEF BatchInit, Init
<1>1. settings \in Settings /\ settings.batch \in BOOLEAN /\ settings.aggregated \in BOOLEAN
  BY Constants
<1>2. ASSUME NEW m \in visible PROVE m \in Msg /\ Shape(m)
  <2>1. CASE \E u \in Units : m = Message(<<u>>, FALSE, FALSE, "input", 0)
    <3>1. PICK u \in Units : m = Message(<<u>>, FALSE, FALSE, "input", 0)
      BY <2>1
    <3>2. m \in Msg
      <4>1. "input" \in Sources /\ FALSE \in BOOLEAN /\ 0 \in Int
        BY DEF Sources
      <4> QED
        BY <3>1, <4>1, SingleMessage
    <3>3. m.units = <<u>> /\ ~m.agg /\ ~m.retry /\ m.src = "input"
      BY <3>1 DEF Message
    <3>4. m.units # <<>> /\ Len(m.units) = 1
      BY <3>3
    <3> QED
      BY <3>2, <3>3, <3>4 DEF Shape
  <2>2. CASE settings.aggregated /\ \E a \in Aggregates : m = Message(a, TRUE, FALSE, "input", 0)
    <3>1. PICK a \in Aggregates : m = Message(a, TRUE, FALSE, "input", 0)
      BY <2>2
    <3>2. a \in Seq(Units) /\ a # <<>>
      BY Constants
    <3>3. m \in Msg
      BY <3>1, <3>2 DEF Message, Msg, Sources
    <3>4. m.units = a /\ m.agg /\ ~m.retry /\ m.src = "input"
      BY <3>1 DEF Message
    <3> QED
      BY <2>2, <3>2, <3>3, <3>4 DEF Shape
  <2>3. Singles \subseteq Units
    BY DEF Units
  <2> QED
    BY <2>1, <2>2, <2>3 DEF Initial
<1>3. work \in [Runners -> Job]
  BY WaitingType DEF Job
<1>4. \A r \in Runners : /\ work[r].step = IF r \in settings.runners THEN "idle" ELSE "ended"
                         /\ work[r].msg = NoMessage /\ work[r].next = 1
  BY WaitingType DEF Job
<1>5. <<>> \in Seq(Part) /\ DOMAIN <<>> = {}
  OBVIOUS
<1>6. InHand = {}
  <2>1. \A m \in InHand : FALSE
    BY <1>4, <1>5, HandOf DEF Places, Busy
  <2> QED
    BY <2>1
<1>7. TypeInv
  BY <1>1, <1>2, <1>3, <1>4, <1>5 DEF TypeInv
<1>8. ShapeInv
  BY <1>2, <1>4, <1>5, <1>6 DEF ShapeInv, Busy
<1>9. RunnerInv
  <2>1. settings.batch => \E r \in Runners : settings.runners = {r}
    BY <1>1, Constants
  <2> QED
    BY <1>1, <1>4, <2>1 DEF RunnerInv
<1>10. KeptInv /\ AckInv
  BY <1>4, <1>6 DEF KeptInv, AckInv, Busy
<1> QED
  BY <1>7, <1>8, <1>9, <1>10 DEF ConsumerInv

\* A step keeps the types.
LEMMA TypeStep ==
    ASSUME ConsumerInv, [BatchNext]_consumerVars
    PROVE  TypeInv'
<1> USE DEF queueVars, flowVars, stopVars, doneVars, batchVars
<1>0. TypeInv /\ ShapeInv /\ RunnerInv
  BY DEF ConsumerInv
<1>a. settings' \in Settings /\ settings' = settings /\ puts' \in Nat
  BY <1>0, QueueStep DEF TypeInv
<1>b. visible' \subseteq Msg /\ inflight' \subseteq Msg
  BY <1>0, QueueStep DEF TypeInv, Copy
<1> DEFINE Flow == pump' \in [Sources -> SUBSET Msg] /\ ingest' \in [Sources -> SUBSET Msg]
           Work == /\ work' \in [Runners -> Job] /\ batch' \in Seq(Part)
                   /\ DOMAIN taken' \subseteq Nat /\ \A i \in DOMAIN taken' : taken'[i] \in Part
                   /\ \A r \in Runners : settings.batch /\ work'[r].step = "process" => taken' \in Seq(Part)
<1>c. Flow /\ Work => TypeInv'
  BY <1>a, <1>b DEF TypeInv
<1>d. /\ pump \in [Sources -> SUBSET Msg] /\ ingest \in [Sources -> SUBSET Msg]
      /\ work \in [Runners -> Job] /\ batch \in Seq(Part)
      /\ DOMAIN taken \subseteq Nat /\ \A i \in DOMAIN taken : taken[i] \in Part
      /\ \A r \in Runners : settings.batch /\ work[r].step = "process" => taken \in Seq(Part)
  BY <1>0 DEF TypeInv
<1>e. <<>> \in Seq(Part) /\ DOMAIN <<>> = {}
  OBVIOUS
<1>1. CASE UNCHANGED shared
  BY <1>1, <1>c, <1>d DEF shared
<1>2. CASE \E s \in Sources : Receive(s) /\ UNCHANGED batchVars
  <2>1. PICK s \in Sources : Receive(s) /\ UNCHANGED batchVars
    BY <1>2
  <2>2. PICK got \in SUBSET {x \in visible : x.src = s} : pump' = [pump EXCEPT ![s] = got]
    BY <2>1 DEF Receive
  <2>3. got \subseteq Msg
    BY <1>0 DEF TypeInv
  <2>4. UNCHANGED <<ingest, work, batch, taken>>
    BY <2>1 DEF Receive
  <2> QED
    BY <1>c, <1>d, <2>2, <2>3, <2>4
<1>3. CASE \E s \in Sources : Shovel(s) /\ UNCHANGED batchVars
  <2>1. PICK s \in Sources : Shovel(s) /\ UNCHANGED batchVars
    BY <1>3
  <2>2. PICK msg \in pump[s] : ingest' = [ingest EXCEPT ![s] = {msg}] /\ pump' = [pump EXCEPT ![s] = @ \ {msg}]
    BY <2>1 DEF Shovel
  <2>3. UNCHANGED <<work, batch, taken>>
    BY <2>1 DEF Shovel
  <2> QED
    BY <1>c, <1>d, <2>2, <2>3
<1>4. CASE \E msg \in inflight : Redeliver(msg) /\ UNCHANGED batchVars
  <2>1. UNCHANGED <<pump, ingest, work, batch, taken>>
    BY <1>4 DEF Redeliver
  <2> QED
    BY <1>c, <1>d, <2>1
<1>5. CASE ~settings.batch /\ UNCHANGED batchVars /\ \E r \in Runners : Plain(r)
  <2>1. PICK r \in Runners : Plain(r)
    BY <1>5
  <2>2. CASE Process(r)
    <3>1. UNCHANGED <<pump, ingest>> /\ \E ack \in BOOLEAN : Processed(r, ack)
      BY <1>0, <1>5, <2>2, ProcessStep
    <3>2. work' \in [Runners -> Job]
      BY <1>0, <3>1, ProcessedWork
    <3> QED
      BY <1>5, <1>c, <1>d, <3>1, <3>2
  <2>3. CASE Acknowledge(r) \/ AcknowledgeFails(r)
    <3>1. UNCHANGED <<pump, ingest>> /\ work' \in [Runners -> Job]
      BY <1>0, <2>3, DoneStep
    <3> QED
      BY <1>5, <1>c, <1>d, <3>1
  <2>4. CASE \E s \in Sources : Take(s, r)
    <3>1. /\ pump' = pump /\ \E s \in Sources : ingest' = [ingest EXCEPT ![s] = {}]
          /\ work' \in [Runners -> Job]
      BY <1>0, <1>5, <2>4, TakeStep
    <3> QED
      BY <1>5, <1>c, <1>d, <3>1
  <2> QED
    BY <2>1, <2>2, <2>3, <2>4 DEF Plain
<1>6. CASE \E r \in Runners : RunnerEnds(r) /\ UNCHANGED batchVars /\ (settings.batch => batch = <<>>)
  <2>1. PICK r \in Runners : RunnerEnds(r)
    BY <1>6
  <2>2. UNCHANGED <<pump, ingest, batch, taken>> /\ Step(r, "ended")
    BY <1>0, <1>6, <2>1, LeaveStep
  <2>3. /\ work'[r].step = "ended" /\ \A q \in Runners : q # r => work'[q] = work[q]
        /\ work' \in [Runners -> Job]
    BY <1>0, <2>2, LabelStep
  <2> QED
    BY <1>c, <1>d, <2>2, <2>3
<1>7. CASE settings.batch /\ \E r \in Runners : Gather(r)
  <2>1. PICK r \in Runners : Gather(r)
    BY <1>7
  <2>2. PICK parts \in Seq(Part) :
              /\ ProcessBatch(r, parts) \/ (batch' = parts /\ UNCHANGED <<taken, work>>)
              /\ ingest' \in [Sources -> SUBSET Msg] /\ pump' = pump
    BY <1>0, <2>1, GatherStep
  <2>3. CASE ProcessBatch(r, parts)
    <3>1. taken' = parts /\ batch' = <<>> /\ Step(r, "process")
      BY <2>3 DEF ProcessBatch
    <3>2. work' \in [Runners -> Job]
      BY <1>0, <3>1, LabelStep
    <3>3. DOMAIN parts \subseteq Nat /\ \A i \in DOMAIN parts : parts[i] \in Part
      OBVIOUS
    <3> QED
      BY <1>c, <1>d, <1>e, <2>2, <3>1, <3>2, <3>3
  <2>4. CASE batch' = parts /\ UNCHANGED <<taken, work>>
    BY <1>c, <1>d, <2>2, <2>4
  <2> QED
    BY <2>2, <2>3, <2>4
<1>8. CASE \E s \in Sources, r \in Runners : CollectFails(s, r)
  <2>1. ingest' \in [Sources -> SUBSET Msg] /\ UNCHANGED <<pump, work, batch, taken>>
    BY <1>0, <1>8, DropStep
  <2> QED
    BY <1>c, <1>d, <2>1
<1>9. CASE settings.batch /\ \E r \in Runners : Consume(r)
  <2>1. PICK r \in Runners : Consume(r)
    BY <1>9
  <2>2. /\ UNCHANGED <<pump, ingest, batch>> /\ work[r].step = "process"
        /\ \A i \in DOMAIN taken' : i \in DOMAIN taken /\ taken'[i] = taken[i]
        /\ Step(r, "idle") \/ Step(r, "ack")
    BY <1>0, <1>9, <2>1, <1>e, ConsumeStep
  <2>3. /\ work'[r].step # "process" /\ \A q \in Runners : q # r => work'[q] = work[q]
        /\ work' \in [Runners -> Job]
    BY <1>0, <2>2, LabelStep
  <2>4. \A q \in Runners : work'[q].step # "process"
    BY <1>0, <1>9, <2>2, <2>3 DEF RunnerInv
  <2> QED
    BY <1>c, <1>d, <2>2, <2>3, <2>4
<1>10. CASE settings.batch /\ \E r \in Runners : AcknowledgeBatch(r)
  <2>1. PICK r \in Runners : AcknowledgeBatch(r)
    BY <1>10
  <2>2. UNCHANGED <<pump, ingest, batch>> /\ taken' = <<>> /\ Step(r, "idle")
    BY <2>1, AckBatchStep
  <2>3. work' \in [Runners -> Job]
    BY <1>0, <2>2, LabelStep
  <2> QED
    BY <1>c, <1>d, <1>e, <2>2, <2>3
<1> QED
  BY <1>0, <1>1, <1>2, <1>3, <1>4, <1>5, <1>6, <1>7, <1>8, <1>9, <1>10, StepCases

\* A step keeps the shape of the messages and of what the runners have of them.
LEMMA ShapeStep ==
    ASSUME ConsumerInv, [BatchNext]_consumerVars
    PROVE  ShapeInv'
<1> USE DEF queueVars, flowVars, stopVars, doneVars, batchVars
<1>0. TypeInv /\ ShapeInv /\ RunnerInv /\ settings' = settings
  BY QueueStep DEF ConsumerInv
<1>a. \A m : Shape(m)' <=> Shape(m)
  BY <1>0 DEF Shape, NativeRetry
<1>b. \A m \in (visible \union inflight \union InHand)' : Shape(m)'
  <2>1. \A m \in visible' \union inflight' : Shape(m)
    BY <1>0, QueueStep DEF ShapeInv, Copy
  <2>2. \A m \in InHand' : Shape(m)
    BY <1>0, HandStep DEF ShapeInv
  <2> QED
    BY <1>a, <2>1, <2>2
<1> DEFINE One == \A s \in Sources : \A m, n \in ingest'[s] : m = n
           Nexts == \A r \in Runners : ~settings.batch /\ work'[r].step = "process"
                                         => work'[r].next <= Len(work'[r].msg.units) /\ work'[r].next # 0
           Batches == /\ \A i \in DOMAIN batch' : batch'[i].unit \in UnitsOf(batch'[i].msg)
                      /\ \A i \in DOMAIN taken' : taken'[i].unit \in UnitsOf(taken'[i].msg)
<1>c. One /\ Nexts /\ Batches => ShapeInv'
  BY <1>0, <1>b DEF ShapeInv, Busy, UnitsOf
<1>d. /\ \A s \in Sources : \A m, n \in ingest[s] : m = n
      /\ \A r \in Runners : ~settings.batch /\ work[r].step = "process"
                              => work[r].next <= Len(work[r].msg.units) /\ work[r].next # 0
      /\ \A i \in DOMAIN batch : batch[i].unit \in UnitsOf(batch[i].msg)
      /\ \A i \in DOMAIN taken : taken[i].unit \in UnitsOf(taken[i].msg)
  BY <1>0 DEF ShapeInv, Busy
<1> HIDE DEF One, Nexts, Batches
<1>1. CASE UNCHANGED shared
  BY <1>1, <1>c, <1>d DEF shared, One, Nexts, Batches
<1>2. CASE \E s \in Sources : Receive(s) /\ UNCHANGED batchVars
  <2>1. UNCHANGED <<ingest, work, batch, taken>>
    BY <1>2 DEF Receive
  <2> QED
    BY <1>c, <1>d, <2>1 DEF One, Nexts, Batches
<1>3. CASE \E s \in Sources : Shovel(s) /\ UNCHANGED batchVars
  <2>1. PICK s \in Sources : Shovel(s) /\ UNCHANGED batchVars
    BY <1>3
  <2>2. PICK msg \in pump[s] : ingest' = [ingest EXCEPT ![s] = {msg}]
    BY <2>1 DEF Shovel
  <2>3. UNCHANGED <<work, batch, taken>>
    BY <2>1 DEF Shovel
  <2>4. One
    BY <1>0, <1>d, <2>2 DEF One, TypeInv
  <2> QED
    BY <1>c, <1>d, <2>3, <2>4 DEF Nexts, Batches
<1>4. CASE \E msg \in inflight : Redeliver(msg) /\ UNCHANGED batchVars
  <2>1. UNCHANGED <<pump, ingest, work, batch, taken>>
    BY <1>4 DEF Redeliver
  <2> QED
    BY <1>c, <1>d, <2>1 DEF One, Nexts, Batches
<1>5. CASE ~settings.batch /\ UNCHANGED batchVars /\ \E r \in Runners : Plain(r)
  <2>1. PICK r \in Runners : Plain(r)
    BY <1>5
  <2>2. Batches
    BY <1>5, <1>d DEF Batches
  <2>3. CASE Process(r)
    <3>1. UNCHANGED <<pump, ingest>> /\ work[r].step = "process" /\ \E ack \in BOOLEAN : Processed(r, ack)
      BY <1>0, <1>5, <2>3, ProcessStep
    <3>2. /\ \A q \in Runners : q # r => work'[q] = work[q]
          /\ work'[r].msg = work[r].msg /\ work'[r].next = work[r].next + 1
          /\ work'[r].step = IF work[r].next = Len(work[r].msg.units) THEN "ack" ELSE "process"
      BY <1>0, <3>1, ProcessedWork
    <3>3. work[r].next \in Nat /\ Len(work[r].msg.units) \in Nat
      BY <1>0 DEF TypeInv, Job, Msg
    <3>4. work[r].next <= Len(work[r].msg.units)
      BY <1>5, <1>d, <3>1
    <3>5. work'[r].step = "process" => work'[r].next <= Len(work'[r].msg.units) /\ work'[r].next # 0
      BY <3>2, <3>3, <3>4
    <3>6. Nexts
      BY <1>d, <3>2, <3>5 DEF Nexts
    <3>7. One
      BY <1>d, <3>1 DEF One
    <3> QED
      BY <1>c, <2>2, <3>6, <3>7
  <2>4. CASE Acknowledge(r) \/ AcknowledgeFails(r)
    <3>1. UNCHANGED <<pump, ingest>> /\ work'[r].step = "idle" /\ \A q \in Runners : q # r => work'[q] = work[q]
      BY <1>0, <2>4, DoneStep
    <3>2. Nexts /\ One
      BY <1>d, <3>1 DEF Nexts, One
    <3> QED
      BY <1>c, <2>2, <3>2
  <2>5. CASE \E s \in Sources : Take(s, r)
    <3>1. PICK s \in Sources : Take(s, r)
      BY <2>5
    <3>2. PICK msg \in Msg :
              /\ ingest[s] = {msg} /\ ingest' = [ingest EXCEPT ![s] = {}]
              /\ work'[r].msg = msg /\ work'[r].next = 1 /\ \A q \in Runners : q # r => work'[q] = work[q]
      BY <1>0, <1>5, <3>1, TakeStep
    <3>3. msg \in InHand
      BY <3>2, HandOf DEF Places
    <3>4. msg.units \in Seq(Units) /\ msg.units # <<>>
      BY <1>0, <3>3 DEF ShapeInv, Shape, Msg
    <3>5. 1 <= Len(msg.units)
      BY <3>4
    <3>6. Nexts
      BY <1>d, <3>2, <3>5 DEF Nexts
    <3>7. One
      BY <1>0, <1>d, <3>2 DEF One, TypeInv
    <3> QED
      BY <1>c, <2>2, <3>6, <3>7
  <2> QED
    BY <2>1, <2>3, <2>4, <2>5 DEF Plain
<1>6. CASE \E r \in Runners : RunnerEnds(r) /\ UNCHANGED batchVars /\ (settings.batch => batch = <<>>)
  <2>1. PICK r \in Runners : RunnerEnds(r)
    BY <1>6
  <2>2. UNCHANGED <<pump, ingest, batch, taken>> /\ Step(r, "ended")
    BY <1>0, <1>6, <2>1, LeaveStep
  <2>3. work'[r].step = "ended" /\ \A q \in Runners : q # r => work'[q] = work[q]
    BY <1>0, <2>2, LabelStep
  <2> QED
    BY <1>c, <1>d, <2>2, <2>3 DEF One, Nexts, Batches
<1>7. CASE settings.batch /\ \E r \in Runners : Gather(r)
  <2>1. PICK r \in Runners : Gather(r)
    BY <1>7
  <2>2. PICK parts \in Seq(Part) :
              /\ ProcessBatch(r, parts) \/ (batch' = parts /\ UNCHANGED <<taken, work>>)
              /\ \A i \in DOMAIN parts : parts[i].unit \in UnitsOf(parts[i].msg)
              /\ \A s \in Sources : ingest'[s] \subseteq ingest[s]
    BY <1>0, <2>1, GatherStep
  <2>3. Batches
    BY <1>d, <2>2 DEF ProcessBatch, Batches
  <2>4. One
    BY <1>d, <2>2 DEF One
  <2>5. Nexts
    BY <1>7 DEF Nexts
  <2> QED
    BY <1>c, <2>3, <2>4, <2>5
<1>8. CASE \E s \in Sources, r \in Runners : CollectFails(s, r)
  <2>1. (\A t \in Sources : ingest'[t] \subseteq ingest[t]) /\ UNCHANGED <<work, batch, taken>>
    BY <1>0, <1>8, DropStep
  <2> QED
    BY <1>8, <1>c, <1>d, <2>1 DEF One, Nexts, Batches
<1>9. CASE settings.batch /\ \E r \in Runners : Consume(r)
  <2>1. UNCHANGED <<ingest, batch>> /\ \A i \in DOMAIN taken' : i \in DOMAIN taken /\ taken'[i] = taken[i]
    BY <1>0, <1>9, ConsumeStep
  <2> QED
    BY <1>9, <1>c, <1>d, <2>1 DEF One, Nexts, Batches
<1>10. CASE settings.batch /\ \E r \in Runners : AcknowledgeBatch(r)
  <2>1. UNCHANGED <<ingest, batch>> /\ taken' = <<>>
    BY <1>10, AckBatchStep
  <2> QED
    BY <1>10, <1>c, <1>d, <2>1 DEF One, Nexts, Batches
<1> QED
  BY <1>0, <1>1, <1>2, <1>3, <1>4, <1>5, <1>6, <1>7, <1>8, <1>9, <1>10, StepCases

\* A step keeps what is received or it is consumed.
LEMMA KeptStep ==
    ASSUME ConsumerInv, [BatchNext]_consumerVars
    PROVE  KeptInv'
<1>0. TypeInv /\ ShapeInv /\ KeptInv /\ settings' = settings /\ consumed \subseteq consumed'
  BY QueueStep DEF ConsumerInv
<1>a. \A m : Redelivers(m)' <=> Redelivers(m)
  BY <1>0 DEF Redelivers, NativeRetry
<1>b. \A m : UnitsOf(m)' = UnitsOf(m)
  BY DEF UnitsOf
<1>1. \A m \in inflight' : Redelivers(m)
  BY <1>0, QueueStep DEF KeptInv
<1>2. ASSUME NEW m \in InHand', Redelivers(m)
      PROVE  \/ m \in visible' \union inflight'
             \/ ~m.agg /\ UnitsOf(m) \subseteq consumed'
             \/ m.agg /\ ~settings.batch
  <2>1. CASE m \in InHand
    <3>1. \/ m \in visible \union inflight
          \/ ~m.agg /\ UnitsOf(m) \subseteq consumed
          \/ m.agg /\ ~settings.batch
      BY <1>0, <1>2, <2>1 DEF KeptInv
    <3> QED
      BY <1>0, <1>2, <3>1, DeleteStep
  <2>2. CASE m \notin InHand
    BY <1>2, <2>2, HandStep
  <2> QED
    BY <2>1, <2>2
<1>3. ASSUME NEW m \in InHand', ~Redelivers(m)
      PROVE  m \notin visible'
  <2>1. CASE m \in InHand
    <3>1. m \notin visible /\ m \notin inflight
      BY <1>0, <1>3, <2>1 DEF KeptInv
    <3> QED
      BY <1>0, <1>3, <3>1, QueueStep DEF Copy
  <2>2. CASE m \notin InHand
    BY <1>3, <2>2, HandStep
  <2> QED
    BY <2>1, <2>2
<1> QED
  BY <1>0, <1>1, <1>2, <1>3, <1>a, <1>b DEF KeptInv

\* A step leaves a batch to one runner.
LEMMA RunnerStep ==
    ASSUME ConsumerInv, [BatchNext]_consumerVars
    PROVE  RunnerInv'
<1> USE DEF queueVars, flowVars, stopVars, doneVars, batchVars
<1>0. TypeInv /\ ShapeInv /\ RunnerInv /\ settings' = settings
  BY QueueStep DEF ConsumerInv
<1>1. CASE ~settings.batch
  <2>1. batch = <<>> /\ taken = <<>>
    BY <1>0, <1>1 DEF RunnerInv
  <2>2. UNCHANGED <<batch, taken>>
    <3>1. CASE UNCHANGED shared
      BY <3>1 DEF shared
    <3>2. CASE \E s \in Sources, r \in Runners : CollectFails(s, r)
      BY <1>0, <3>2, DropStep
    <3> QED
      BY <1>0, <1>1, <3>1, <3>2, StepCases
  <2> QED
    BY <1>0, <1>1, <2>1, <2>2 DEF RunnerInv
<1>2. CASE settings.batch
  <2>1. SUFFICES ASSUME TRUE
                 PROVE  /\ \A q, r \in Runners : q # r => work'[q].step = "ended" \/ work'[r].step = "ended"
                        /\ \A r \in Runners : work'[r].msg = NoMessage /\ work'[r].next = 1
    BY <1>0, <1>2 DEF RunnerInv, NoMessage
  <2>2. /\ \A q, r \in Runners : q # r => work[q].step = "ended" \/ work[r].step = "ended"
        /\ \A r \in Runners : work[r].msg = NoMessage /\ work[r].next = 1
    BY <1>0, <1>2 DEF RunnerInv
  <2>3. CASE UNCHANGED work
    BY <2>2, <2>3
  <2>4. ASSUME NEW r \in Runners, work[r].step # "ended",
               NEW label \in {"idle", "process", "ack", "ended"}, Step(r, label)
        PROVE  /\ \A p, q \in Runners : p # q => work'[p].step = "ended" \/ work'[q].step = "ended"
               /\ \A q \in Runners : work'[q].msg = NoMessage /\ work'[q].next = 1
    <3>1. /\ \A q \in Runners : q # r => work'[q] = work[q]
          /\ \A q \in Runners : work'[q].msg = work[q].msg /\ work'[q].next = work[q].next
      BY <1>0, <2>4, LabelStep
    <3>2. \A q \in Runners : q # r => work[q].step = "ended"
      BY <2>2, <2>4
    <3> QED
      BY <2>2, <3>1, <3>2
  <2>5. CASE UNCHANGED shared
    BY <2>3, <2>5 DEF shared
  <2>6. CASE \E s \in Sources : (Receive(s) \/ Shovel(s)) /\ UNCHANGED batchVars
    BY <2>3, <2>6 DEF Receive, Shovel
  <2>7. CASE \E msg \in inflight : Redeliver(msg) /\ UNCHANGED batchVars
    BY <2>3, <2>7 DEF Redeliver
  <2>8. CASE \E r \in Runners : RunnerEnds(r) /\ UNCHANGED batchVars /\ (settings.batch => batch = <<>>)
    BY <1>0, <2>4, <2>8, LeaveStep
  <2>9. CASE \E r \in Runners : Gather(r)
    <3>1. PICK r \in Runners : Gather(r)
      BY <2>9
    <3>2. work[r].step = "idle" /\ (Step(r, "process") \/ UNCHANGED work)
      BY <1>0, <3>1, GatherStep DEF ProcessBatch
    <3> QED
      BY <2>3, <2>4, <3>2
  <2>10. CASE \E s \in Sources, r \in Runners : CollectFails(s, r)
    BY <1>0, <2>3, <2>10, DropStep
  <2>11. CASE \E r \in Runners : Consume(r)
    <3>1. PICK r \in Runners : Consume(r)
      BY <2>11
    <3>2. work[r].step = "process" /\ (Step(r, "idle") \/ Step(r, "ack"))
      BY <1>0, <1>2, <3>1, ConsumeStep
    <3> QED
      BY <2>4, <3>2
  <2>12. CASE \E r \in Runners : AcknowledgeBatch(r)
    <3>1. PICK r \in Runners : AcknowledgeBatch(r)
      BY <2>12
    <3>2. work[r].step = "ack" /\ Step(r, "idle")
      BY <3>1, AckBatchStep
    <3> QED
      BY <2>4, <3>2
  <2> QED
    BY <1>0, <1>2, <2>5, <2>6, <2>7, <2>8, <2>9, <2>10, <2>11, <2>12, StepCases
<1> QED
  BY <1>1, <1>2

\* A verdict comes from the callback.
LEMMA AckStep ==
    ASSUME ConsumerInv, [BatchNext]_consumerVars
    PROVE  AckInv'
<1> USE DEF queueVars, flowVars, stopVars, doneVars, batchVars
<1>0. TypeInv /\ ShapeInv /\ RunnerInv /\ AckInv /\ settings' = settings /\ consumed \subseteq consumed'
  BY QueueStep DEF ConsumerInv
<1>1. CASE ~settings.batch
  <2> DEFINE Good(job, done) == job.step = "ack" /\ job.ack =>
                 IF job.msg.agg THEN Mode = "atLeastOnce" ELSE UnitsOf(job.msg) \subseteq done
  <2>1. SUFFICES ASSUME NEW q \in Runners PROVE Good(work'[q], consumed')
    BY <1>0, <1>1 DEF AckInv, Busy, Mode, UnitsOf
  <2>2. \A r \in Runners : Good(work[r], consumed)
    BY <1>0, <1>1 DEF AckInv, Busy
  <2>3. \A r \in Runners : Good(work[r], consumed')
    BY <1>0, <2>2
  <2>4. CASE work'[q] = work[q]
    BY <2>3, <2>4
  <2>5. CASE work'[q].step # "ack"
    BY <2>5
  <2> HIDE DEF Good
  <2>6. CASE UNCHANGED work
    BY <2>4, <2>6
  <2>7. CASE UNCHANGED shared
    BY <2>6, <2>7 DEF shared
  <2>8. CASE \E s \in Sources : (Receive(s) \/ Shovel(s)) /\ UNCHANGED batchVars
    BY <2>6, <2>8 DEF Receive, Shovel
  <2>9. CASE \E msg \in inflight : Redeliver(msg) /\ UNCHANGED batchVars
    BY <2>6, <2>9 DEF Redeliver
  <2>10. CASE \E r \in Runners : RunnerEnds(r) /\ UNCHANGED batchVars /\ (settings.batch => batch = <<>>)
    <3>1. PICK r \in Runners : RunnerEnds(r)
      BY <2>10
    <3>2. work'[r].step = "ended" /\ \A p \in Runners : p # r => work'[p] = work[p]
      BY <1>0, <3>1, LeaveStep, LabelStep
    <3> QED
      BY <2>4, <2>5, <3>2
  <2>11. CASE \E r \in Runners : Plain(r)
    <3>1. PICK r \in Runners : Plain(r)
      BY <2>11
    <3>2. CASE Process(r)
      <4>1. PICK ack \in BOOLEAN : Processed(r, ack) /\ (ack => Unit(r) \in consumed')
        BY <1>0, <1>1, <3>2, ProcessStep
      <4>2. work[r].step = "process" /\ Unit(r) \in UnitsOf(work[r].msg)
        BY <1>0, <1>1, <3>2, ProcessStep
      <4>3. /\ \A p \in Runners : p # r => work'[p] = work[p]
            /\ work'[r].msg = work[r].msg
            /\ work'[r].ack = IF work[r].msg.agg THEN Mode = "atLeastOnce" ELSE ack
        BY <1>0, <4>1, ProcessedWork
      <4>4. work[r].msg \in Msg /\ Shape(work[r].msg)
        BY <1>0, <1>1, <4>2, HandOf DEF Places, Busy, TypeInv, Job, ShapeInv
      <4>5. ~work[r].msg.agg => UnitsOf(work[r].msg) = {Unit(r)}
        BY <4>2, <4>4, UnitsOfMessage
      <4>6. Good(work'[r], consumed')
        BY <4>1, <4>3, <4>5 DEF Good
      <4> QED
        BY <2>4, <4>3, <4>6
    <3>3. CASE Acknowledge(r) \/ AcknowledgeFails(r)
      <4>1. work'[r].step = "idle" /\ \A p \in Runners : p # r => work'[p] = work[p]
        BY <1>0, <3>3, DoneStep
      <4> QED
        BY <2>4, <2>5, <4>1
    <3>4. CASE \E s \in Sources : Take(s, r)
      <4>1. work'[r].step = "process" /\ \A p \in Runners : p # r => work'[p] = work[p]
        BY <1>0, <1>1, <3>4, TakeStep
      <4> QED
        BY <2>4, <2>5, <4>1
    <3> QED
      BY <3>1, <3>2, <3>3, <3>4 DEF Plain
  <2>12. CASE \E s \in Sources, r \in Runners : CollectFails(s, r)
    BY <1>0, <2>6, <2>12, DropStep
  <2> QED
    BY <1>0, <1>1, <2>7, <2>8, <2>9, <2>10, <2>11, <2>12, StepCases
<1>2. CASE settings.batch
  <2>1. SUFFICES ASSUME NEW q \in Runners, work'[q].step = "ack", NEW i \in DOMAIN taken'
                 PROVE  taken'[i].unit \in consumed'
    BY <1>0, <1>2 DEF AckInv, Busy, UnitsIn
  <2>2. work[q].step = "ack" => \A j \in DOMAIN taken : taken[j].unit \in consumed'
    BY <1>0, <1>2 DEF AckInv, UnitsIn
  <2>3. CASE UNCHANGED <<work, taken>>
    BY <2>1, <2>2, <2>3
  <2>4. \A p, r \in Runners : p # r => work[p].step = "ended" \/ work[r].step = "ended"
    BY <1>0, <1>2 DEF RunnerInv
  <2>5. CASE UNCHANGED shared
    BY <2>3, <2>5 DEF shared
  <2>6. CASE \E s \in Sources : (Receive(s) \/ Shovel(s)) /\ UNCHANGED batchVars
    BY <2>3, <2>6 DEF Receive, Shovel
  <2>7. CASE \E msg \in inflight : Redeliver(msg) /\ UNCHANGED batchVars
    BY <2>3, <2>7 DEF Redeliver
  <2>8. CASE \E r \in Runners : RunnerEnds(r) /\ UNCHANGED batchVars /\ (settings.batch => batch = <<>>)
    <3>1. PICK r \in Runners : RunnerEnds(r)
      BY <2>8
    <3>2. work'[r].step = "ended" /\ \A p \in Runners : p # r => work'[p] = work[p]
      BY <1>0, <3>1, LeaveStep, LabelStep
    <3> QED
      BY <2>1, <2>2, <2>8, <3>2
  <2>9. CASE \E r \in Runners : Gather(r)
    <3>1. PICK r \in Runners : Gather(r)
      BY <2>9
    <3>2. work[r].step = "idle" /\ (Step(r, "process") \/ UNCHANGED <<work, taken>>)
      BY <1>0, <3>1, GatherStep DEF ProcessBatch
    <3>3. CASE Step(r, "process")
      <4>1. work'[r].step = "process" /\ \A p \in Runners : p # r => work'[p] = work[p]
        BY <1>0, <3>3, LabelStep
      <4>2. q # r /\ work[q].step = "ack"
        BY <2>1, <4>1
      <4> QED
        BY <2>4, <3>2, <4>2
    <3> QED
      BY <2>3, <3>2, <3>3
  <2>10. CASE \E s \in Sources, r \in Runners : CollectFails(s, r)
    BY <1>0, <2>3, <2>10, DropStep
  <2>11. CASE \E r \in Runners : Consume(r)
    <3>1. PICK r \in Runners : Consume(r)
      BY <2>11
    <3>2. \/ taken' = <<>>
          \/ \A j \in DOMAIN taken' : taken'[j] = taken[j] /\ taken[j].unit \in consumed'
      BY <1>0, <1>2, <3>1, ConsumeStep
    <3> QED
      BY <2>1, <3>2
  <2>12. CASE \E r \in Runners : AcknowledgeBatch(r)
    <3>1. taken' = <<>>
      BY <2>12, AckBatchStep
    <3> QED
      BY <2>1, <3>1
  <2> QED
    BY <1>0, <1>2, <2>5, <2>6, <2>7, <2>8, <2>9, <2>10, <2>11, <2>12, StepCases
<1> QED
  BY <1>0, <1>1, <1>2, SettingsTypes

-----------------------------------------------------------------------------
(* No unit is lost.                                                        *)

\* The places of a unit.
Known(u) == u \in consumed \union reported
Queued(u) == \E msg \in visible \union inflight : u \in UnitsOf(msg)
Flowing(u) == \E s \in Sources : \E msg \in pump[s] \union ingest[s] : u \in UnitsOf(msg)
Working(u) == \E r \in Runners : u \in Pending(r)
Collected(u) == u \in UnitsIn(batch) /\ \E r \in Runners : work[r].step # "ended"
Passed(u) == u \in UnitsIn(taken) /\ \E r \in Runners : work[r].step = "process"
Somewhere(u) == Known(u) \/ Queued(u) \/ Flowing(u) \/ Working(u) \/ Collected(u) \/ Passed(u)

\* They are what NoneLostInBatch looks at.
LEMMA SomewhereIs == NoneLostInBatch <=> \A u \in Units : Somewhere(u)
  BY DEF NoneLostInBatch, Accounted, Somewhere, Known, Queued, Flowing, Working, Collected, Passed

\* At first all units are in the input.
LEMMA NoneLostAtFirst ==
    ASSUME BatchInit
    PROVE  NoneLostInBatch
<1> USE DEF BatchInit, Init
<1>1. ASSUME NEW u \in Units PROVE Queued(u)
  <2>1. CASE settings.aggregated /\ u \notin Singles
    <3>1. PICK a \in Aggregates : u \in {a[i] : i \in DOMAIN a}
      BY <2>1 DEF Units
    <3>2. Message(a, TRUE, FALSE, "input", 0) \in visible
      BY <2>1 DEF Initial
    <3>3. Message(a, TRUE, FALSE, "input", 0).units = a
      BY DEF Message
    <3>4. u \in UnitsOf(Message(a, TRUE, FALSE, "input", 0))
      BY <3>1, <3>3 DEF UnitsOf
    <3> QED
      BY <3>2, <3>4 DEF Queued
  <2>2. CASE ~(settings.aggregated /\ u \notin Singles)
    <3>1. Message(<<u>>, FALSE, FALSE, "input", 0) \in visible
      BY <2>2 DEF Initial
    <3>2. "input" \in Sources /\ FALSE \in BOOLEAN /\ 0 \in Int
      BY DEF Sources
    <3>3. u \in UnitsOf(Message(<<u>>, FALSE, FALSE, "input", 0))
      BY <3>2, SingleMessage
    <3> QED
      BY <3>1, <3>3 DEF Queued
  <2> QED
    BY <2>1, <2>2
<1> QED
  BY <1>1, SomewhereIs DEF Somewhere

\* What a runner still has to process.
LEMMA PendingIs ==
    \A r \in Runners : \A u : u \in Pending(r) <=>
        /\ work[r].step = "process"
        /\ \E i \in work[r].next..Len(work[r].msg.units) : u = work[r].msg.units[i]
  BY DEF Pending

\* After a step as well.
LEMMA PendingIsThen ==
    \A r \in Runners : \A u : u \in Pending(r)' <=>
        /\ work'[r].step = "process"
        /\ \E i \in work'[r].next..Len(work'[r].msg.units) : u = work'[r].msg.units[i]
  BY DEF Pending

\* The places after a step.
LEMMA Arrives ==
    \A u : /\ u \in consumed' \union reported' => Somewhere(u)'
           /\ (\E m \in visible' \union inflight' : u \in UnitsOf(m)) => Somewhere(u)'
           /\ (\E s \in Sources : \E m \in pump'[s] \union ingest'[s] : u \in UnitsOf(m)) => Somewhere(u)'
           /\ (\E r \in Runners : u \in Pending(r)') => Somewhere(u)'
           /\ u \in UnitsIn(batch') /\ (\E r \in Runners : work'[r].step # "ended") => Somewhere(u)'
           /\ u \in UnitsIn(taken') /\ (\E r \in Runners : work'[r].step = "process") => Somewhere(u)'
  BY DEF Somewhere, Known, Queued, Flowing, Working, Collected, Passed, UnitsOf, UnitsIn

\* A runner that starts a message has all its units.
LEMMA StartedHasAll ==
    ASSUME NEW r \in Runners, NEW m \in Msg, NEW u \in UnitsOf(m),
           work'[r].msg = m, work'[r].step = "process", work'[r].next = 1
    PROVE  Somewhere(u)'
<1>1. m.units \in Seq(Units)
  BY DEF Msg
<1>2. \E i \in 1..Len(m.units) : u = m.units[i]
  BY <1>1 DEF UnitsOf
<1> QED
  BY <1>2, PendingIsThen, Arrives

\* What comes again was kept.
LEMMA ComesBack ==
    ASSUME ConsumerInv, [BatchNext]_consumerVars, NEW m \in InHand, Redelivers(m), ~(m.agg /\ ~settings.batch),
           NEW u \in UnitsOf(m), visible \subseteq visible', inflight' = inflight
    PROVE  Somewhere(u)'
<1>1. m \in visible \union inflight \/ UnitsOf(m) \subseteq consumed
  BY DEF ConsumerInv, KeptInv
<1>2. consumed \subseteq consumed'
  BY QueueStep DEF ConsumerInv
<1> QED
  BY <1>1, <1>2, Arrives

\* A unit in a queue.
LEMMA QueuedStep ==
    ASSUME SafeSettings, ConsumerInv, [BatchNext]_consumerVars, NEW u \in Units, Queued(u)
    PROVE  Somewhere(u)'
<1> USE DEF queueVars, flowVars, stopVars, doneVars, batchVars
<1>0. TypeInv /\ ShapeInv /\ AckInv /\ KeptInv /\ consumed \subseteq consumed'
  BY QueueStep DEF ConsumerInv
<1>a. PICK m \in visible \union inflight : u \in UnitsOf(m)
  BY DEF Queued
<1>b. m \in Msg /\ m.agg \in BOOLEAN
  BY <1>0 DEF TypeInv, Msg
<1>c. CASE m \in visible' \union inflight'
  BY <1>a, <1>c, Arrives
<1>d. CASE UnitsOf(m) \subseteq consumed
  BY <1>0, <1>a, <1>d, Arrives
<1>1. CASE UNCHANGED shared
  BY <1>1, <1>c DEF shared
<1>2. CASE \E s \in Sources : Receive(s) /\ UNCHANGED batchVars
  <2>1. PICK s \in Sources : Receive(s)
    BY <1>2
  <2>2. PICK got \in SUBSET {x \in visible : x.src = s} :
            /\ visible' = visible \ got /\ inflight' = inflight \union {x \in got : Redelivers(x)}
            /\ pump' = [pump EXCEPT ![s] = got]
    BY <2>1 DEF Receive
  <2>3. CASE m \in got
    <3>1. m \in pump'[s]
      BY <1>0, <2>2, <2>3 DEF TypeInv
    <3> QED
      BY <1>a, <3>1, Arrives
  <2> QED
    BY <1>c, <2>2, <2>3
<1>3. CASE \E s \in Sources : Shovel(s) /\ UNCHANGED batchVars
  BY <1>3, <1>c DEF Shovel
<1>4. CASE \E msg \in inflight : Redeliver(msg) /\ UNCHANGED batchVars
  BY <1>4, <1>c DEF Redeliver
<1>5. CASE ~settings.batch /\ UNCHANGED batchVars /\ \E r \in Runners : Plain(r)
  <2>1. PICK r \in Runners : Plain(r)
    BY <1>5
  <2>2. CASE Process(r)
    BY <1>0, <1>5, <1>c, <2>2, ProcessStep
  <2>3. CASE Acknowledge(r) \/ AcknowledgeFails(r)
    <3>1. /\ work[r].step = "ack"
          /\ \/ UNCHANGED <<visible, inflight>>
             \/ work[r].ack /\ visible' = visible \ {work[r].msg} /\ inflight' = inflight \ {work[r].msg}
      BY <1>0, <2>3, DoneStep
    <3>2. CASE m = work[r].msg /\ work[r].ack
      <4>1. Busy(r) /\ m \in InHand
        BY <1>5, <3>1, <3>2, HandOf DEF Places, Busy
      <4>2. IF m.agg THEN Mode = "atLeastOnce" ELSE UnitsOf(m) \subseteq consumed
        BY <1>0, <3>1, <3>2, <4>1 DEF AckInv
      <4>3. ASSUME m.agg PROVE FALSE
        <5>1. m.src = "input" /\ settings.aggregated
          BY <1>0, <4>1, <4>3 DEF ShapeInv, Shape
        <5>2. ~NativeRetry
          BY <1>0, <1>5, <4>2, <4>3, <5>1 DEF SafeSettings, NativeRetry, Mode, TypeInv
        <5>3. ~Redelivers(m)
          BY <5>1, <5>2 DEF Redelivers
        <5> QED
          BY <1>0, <1>a, <4>1, <5>3 DEF KeptInv
      <4> QED
        BY <1>b, <1>d, <4>2, <4>3
    <3> QED
      BY <1>c, <3>1, <3>2
  <2>4. CASE \E s \in Sources : Take(s, r)
    <3>1. PICK msg \in Msg : /\ work'[r].msg = msg /\ work'[r].step = "process" /\ work'[r].next = 1
                             /\ \/ UNCHANGED <<visible, inflight>>
                                \/ visible' = visible \ {msg} /\ inflight' = inflight \ {msg}
      BY <1>0, <1>5, <2>4, TakeStep
    <3>2. CASE m = msg
      BY <1>a, <1>b, <3>1, <3>2, StartedHasAll
    <3> QED
      BY <1>c, <3>1, <3>2
  <2> QED
    BY <2>1, <2>2, <2>3, <2>4 DEF Plain
<1>6. CASE \E r \in Runners : RunnerEnds(r) /\ UNCHANGED batchVars /\ (settings.batch => batch = <<>>)
  BY <1>0, <1>6, <1>c, LeaveStep
<1>7. CASE settings.batch /\ \E r \in Runners : Gather(r)
  BY <1>0, <1>7, <1>c, GatherStep
<1>8. CASE \E s \in Sources, r \in Runners : CollectFails(s, r)
  BY <1>0, <1>8, <1>c, DropStep
<1>9. CASE settings.batch /\ \E r \in Runners : Consume(r)
  BY <1>0, <1>9, <1>c, ConsumeStep
<1>10. CASE settings.batch /\ \E r \in Runners : AcknowledgeBatch(r)
  <2>1. CASE Redelivers(m)
    BY <1>10, <1>b, <1>c, <1>d, <2>1, DeleteStep
  <2>2. CASE ~Redelivers(m)
    <3>1. m \in visible
      BY <1>0, <1>a, <2>2 DEF KeptInv
    <3>2. m \notin InHand
      BY <1>0, <2>2, <3>1 DEF KeptInv
    <3>3. m \notin MessagesIn(taken)
      BY <3>2 DEF InHand
    <3> QED
      BY <1>10, <1>c, <3>3, AckBatchStep
  <2> QED
    BY <2>1, <2>2
<1> QED
  BY <1>0, <1>1, <1>2, <1>3, <1>4, <1>5, <1>6, <1>7, <1>8, <1>9, <1>10, StepCases

\* A unit between the queue and the runners.
LEMMA FlowingStep ==
    ASSUME ConsumerInv, [BatchNext]_consumerVars, NEW u \in Units, Flowing(u)
    PROVE  Somewhere(u)'
<1> USE DEF queueVars, flowVars, stopVars, doneVars, batchVars
<1>0. TypeInv /\ ShapeInv
  BY DEF ConsumerInv
<1>a. PICK s \in Sources : \E msg \in pump[s] \union ingest[s] : u \in UnitsOf(msg)
  BY DEF Flowing
<1>b. PICK m \in pump[s] \union ingest[s] : u \in UnitsOf(m)
  BY <1>a
<1>c. CASE m \in pump'[s] \union ingest'[s]
  BY <1>b, <1>c, Arrives
<1>1. CASE UNCHANGED shared
  BY <1>1, <1>c DEF shared
<1>2. CASE \E t \in Sources : Receive(t) /\ UNCHANGED batchVars
  <2>1. PICK t \in Sources : Receive(t)
    BY <1>2
  <2>2. pump[t] = {} /\ ingest' = ingest /\ \E got : pump' = [pump EXCEPT ![t] = got]
    BY <2>1 DEF Receive
  <2>3. pump[s] \subseteq pump'[s]
    BY <1>0, <2>2 DEF TypeInv
  <2> QED
    BY <1>c, <2>2, <2>3
<1>3. CASE \E t \in Sources : Shovel(t) /\ UNCHANGED batchVars
  <2>1. PICK t \in Sources : Shovel(t)
    BY <1>3
  <2>2. PICK msg \in pump[t] : ingest' = [ingest EXCEPT ![t] = {msg}] /\ pump' = [pump EXCEPT ![t] = @ \ {msg}]
    BY <2>1 DEF Shovel
  <2>3. ingest[t] = {}
    BY <2>1 DEF Shovel
  <2>4. pump[s] \union ingest[s] \subseteq pump'[s] \union ingest'[s]
    BY <1>0, <2>2, <2>3 DEF TypeInv
  <2> QED
    BY <1>c, <2>4
<1>4. CASE \E msg \in inflight : Redeliver(msg) /\ UNCHANGED batchVars
  BY <1>4, <1>c DEF Redeliver
<1>5. CASE ~settings.batch /\ UNCHANGED batchVars /\ \E r \in Runners : Plain(r)
  <2>1. PICK r \in Runners : Plain(r)
    BY <1>5
  <2>2. CASE Process(r)
    BY <1>0, <1>5, <1>c, <2>2, ProcessStep
  <2>3. CASE Acknowledge(r) \/ AcknowledgeFails(r)
    BY <1>0, <1>c, <2>3, DoneStep
  <2>4. CASE \E t \in Sources : Take(t, r)
    <3>1. PICK t \in Sources : Take(t, r)
      BY <2>4
    <3>2. PICK msg \in Msg : /\ work'[r].msg = msg /\ work'[r].step = "process" /\ work'[r].next = 1
                             /\ ingest[t] = {msg} /\ ingest' = [ingest EXCEPT ![t] = {}] /\ pump' = pump
      BY <1>0, <1>5, <3>1, TakeStep
    <3>3. CASE m = msg
      BY <1>b, <3>2, <3>3, StartedHasAll
    <3>4. CASE m # msg
      <4>1. m \in pump'[s] \union ingest'[s]
        BY <1>0, <3>2, <3>4 DEF TypeInv
      <4> QED
        BY <1>c, <4>1
    <3> QED
      BY <3>3, <3>4
  <2> QED
    BY <2>1, <2>2, <2>3, <2>4 DEF Plain
<1>6. CASE \E r \in Runners : RunnerEnds(r) /\ UNCHANGED batchVars /\ (settings.batch => batch = <<>>)
  BY <1>0, <1>6, <1>c, LeaveStep
<1>7. CASE settings.batch /\ \E r \in Runners : Gather(r)
  <2>1. PICK r \in Runners : Gather(r)
    BY <1>7
  <2>2. PICK parts \in Seq(Part) :
              /\ ProcessBatch(r, parts) \/ (batch' = parts /\ UNCHANGED <<taken, work>>)
              /\ \A x \in ingest[s] : x \in ingest'[s] \/ UnitsOf(x) \subseteq UnitsIn(parts)
              /\ pump' = pump /\ work[r].step = "idle"
    BY <1>0, <2>1, GatherStep
  <2>3. CASE u \in UnitsIn(parts)
    <3>1. CASE ProcessBatch(r, parts)
      <4>1. taken' = parts /\ work'[r].step = "process"
        BY <1>0, <3>1, LabelStep DEF ProcessBatch
      <4> QED
        BY <2>3, <4>1, Arrives
    <3>2. CASE batch' = parts /\ UNCHANGED <<taken, work>>
      <4>1. work'[r].step # "ended"
        BY <2>2, <3>2
      <4> QED
        BY <2>3, <3>2, <4>1, Arrives
    <3> QED
      BY <2>2, <3>1, <3>2
  <2> QED
    BY <1>b, <1>c, <2>2, <2>3
<1>8. CASE \E t \in Sources, r \in Runners : CollectFails(t, r)
  <2>1. pump' = pump /\ (m \in ingest[s] => m \in ingest'[s] \/ UnitsOf(m) \subseteq reported')
    BY <1>0, <1>8, DropStep
  <2>2. CASE UnitsOf(m) \subseteq reported'
    BY <1>b, <2>2, Arrives
  <2> QED
    BY <1>c, <2>1, <2>2
<1>9. CASE settings.batch /\ \E r \in Runners : Consume(r)
  BY <1>0, <1>9, <1>c, ConsumeStep
<1>10. CASE settings.batch /\ \E r \in Runners : AcknowledgeBatch(r)
  BY <1>10, <1>c, AckBatchStep
<1> QED
  BY <1>0, <1>1, <1>2, <1>3, <1>4, <1>5, <1>6, <1>7, <1>8, <1>9, <1>10, StepCases

\* A unit that a runner has still to process.
LEMMA WorkingStep ==
    ASSUME SafeSettings, ConsumerInv, [BatchNext]_consumerVars, NEW u \in Units, Working(u)
    PROVE  Somewhere(u)'
<1> USE DEF queueVars, flowVars, stopVars, doneVars, batchVars
<1>0. TypeInv /\ ShapeInv /\ RunnerInv
  BY DEF ConsumerInv
<1>a. PICK r \in Runners : u \in Pending(r)
  BY DEF Working
<1>b. work[r].step = "process" /\ \E i \in work[r].next..Len(work[r].msg.units) : u = work[r].msg.units[i]
  BY <1>a, PendingIs
<1>c. ~settings.batch
  <2>1. SUFFICES ASSUME settings.batch PROVE FALSE
    OBVIOUS
  <2>2. work[r].msg = NoMessage /\ work[r].next = 1
    BY <1>0, <2>1 DEF RunnerInv
  <2>3. NoMessage.units = <<>> /\ Len(<<>>) = 0
    BY DEF NoMessage
  <2>4. \E i \in 1..0 : TRUE
    BY <1>b, <2>2, <2>3
  <2> QED
    BY <2>4
<1>d. CASE work'[r] = work[r]
  BY <1>b, <1>d, PendingIsThen, Arrives
<1>1. CASE UNCHANGED shared
  BY <1>1, <1>d DEF shared
<1>2. CASE \E s \in Sources : (Receive(s) \/ Shovel(s)) /\ UNCHANGED batchVars
  BY <1>2, <1>d DEF Receive, Shovel
<1>3. CASE \E msg \in inflight : Redeliver(msg) /\ UNCHANGED batchVars
  BY <1>3, <1>d DEF Redeliver
<1>4. CASE \E q \in Runners : RunnerEnds(q) /\ UNCHANGED batchVars /\ (settings.batch => batch = <<>>)
  <2>1. PICK q \in Runners : RunnerEnds(q)
    BY <1>4
  <2>2. work[q].step = "idle" /\ \A p \in Runners : p # q => work'[p] = work[p]
    BY <1>0, <2>1, LeaveStep, LabelStep
  <2> QED
    BY <1>b, <1>d, <2>2
<1>5. CASE \E q \in Runners : Plain(q)
  <2>1. PICK q \in Runners : Plain(q)
    BY <1>5
  <2>2. CASE Acknowledge(q) \/ AcknowledgeFails(q)
    BY <1>0, <1>b, <1>d, <2>2, DoneStep
  <2>3. CASE \E s \in Sources : Take(s, q)
    BY <1>0, <1>b, <1>c, <1>d, <2>3, TakeStep
  <2>4. CASE Process(q) /\ q # r
    <3>1. \E ack \in BOOLEAN : Processed(q, ack)
      BY <1>0, <1>c, <2>4, ProcessStep
    <3>2. work'[r] = work[r]
      BY <1>0, <2>4, <3>1, ProcessedWork
    <3> QED
      BY <1>d, <3>2
  <2>5. CASE Process(q) /\ q = r
    <3>1. Process(r)
      BY <2>5
    <3>2. PICK i \in work[r].next..Len(work[r].msg.units) : u = work[r].msg.units[i]
      BY <1>b
    <3>3. work[r].next \in Nat /\ Len(work[r].msg.units) \in Nat
      BY <1>0 DEF TypeInv, Job, Msg
    <3>4. CASE i = work[r].next
      <4>1. u = Unit(r)
        BY <3>2, <3>4 DEF Unit
      <4>2. \/ Unit(r) \in consumed' \union reported' \/ \E m \in visible' : Unit(r) \in UnitsOf(m)
            \/ ~work[r].msg.agg /\ Redelivers(work[r].msg)
        BY <1>0, <1>c, <3>1, ProcessStep
      <4>3. visible \subseteq visible' /\ inflight' = inflight /\ Unit(r) \in UnitsOf(work[r].msg)
        BY <1>0, <1>c, <3>1, ProcessStep
      <4>4. CASE ~work[r].msg.agg /\ Redelivers(work[r].msg)
        <5>1. work[r].msg \in InHand
          BY <1>b, <1>c, HandOf DEF Places, Busy
        <5> QED
          BY <4>1, <4>3, <4>4, <5>1, ComesBack
      <4> QED
        BY <4>1, <4>2, <4>4, Arrives
    <3>5. CASE i # work[r].next
      <4>1. work[r].next # Len(work[r].msg.units) /\ i \in (work[r].next + 1)..Len(work[r].msg.units)
        BY <3>2, <3>3, <3>5
      <4>2. \E ack \in BOOLEAN : Processed(r, ack)
        BY <1>0, <1>c, <3>1, ProcessStep
      <4>3. work'[r].msg = work[r].msg /\ work'[r].next = work[r].next + 1 /\ work'[r].step = "process"
        BY <1>0, <4>1, <4>2, ProcessedWork
      <4>4. u \in Pending(r)'
        BY <3>2, <4>1, <4>3, PendingIsThen
      <4> QED
        BY <4>4, Arrives
    <3> QED
      BY <3>4, <3>5
  <2> QED
    BY <2>1, <2>2, <2>3, <2>4, <2>5 DEF Plain
<1>6. CASE \E s \in Sources, q \in Runners : CollectFails(s, q)
  BY <1>0, <1>6, <1>d, DropStep
<1> QED
  BY <1>0, <1>1, <1>2, <1>3, <1>4, <1>5, <1>6, <1>c, StepCases

\* A unit in the batch that is collected.
LEMMA CollectedStep ==
    ASSUME ConsumerInv, [BatchNext]_consumerVars, NEW u \in Units, Collected(u)
    PROVE  Somewhere(u)'
<1> USE DEF queueVars, flowVars, stopVars, doneVars, batchVars
<1>0. TypeInv /\ ShapeInv /\ RunnerInv
  BY DEF ConsumerInv
<1>a. PICK q \in Runners : u \in UnitsIn(batch) /\ work[q].step # "ended"
  BY DEF Collected
<1>b. settings.batch /\ batch # <<>>
  BY <1>0, <1>a DEF RunnerInv, UnitsIn
<1>c. CASE batch' = batch /\ \E r \in Runners : work'[r].step # "ended"
  BY <1>a, <1>c, Arrives
<1>d. CASE UNCHANGED <<batch, work>>
  BY <1>a, <1>c, <1>d
<1>1. CASE UNCHANGED shared
  BY <1>1, <1>d DEF shared
<1>2. CASE \E s \in Sources : (Receive(s) \/ Shovel(s)) /\ UNCHANGED batchVars
  BY <1>2, <1>d DEF Receive, Shovel
<1>3. CASE \E msg \in inflight : Redeliver(msg) /\ UNCHANGED batchVars
  BY <1>3, <1>d DEF Redeliver
<1>4. CASE \E r \in Runners : Gather(r)
  <2>1. PICK r \in Runners : Gather(r)
    BY <1>4
  <2>2. PICK parts \in Seq(Part) :
              /\ ProcessBatch(r, parts) \/ (batch' = parts /\ UNCHANGED <<taken, work>>)
              /\ UnitsIn(batch) \subseteq UnitsIn(parts)
    BY <1>0, <2>1, GatherStep
  <2>3. CASE ProcessBatch(r, parts)
    <3>1. taken' = parts /\ work'[r].step = "process"
      BY <1>0, <2>3, LabelStep DEF ProcessBatch
    <3> QED
      BY <1>a, <2>2, <3>1, Arrives
  <2>4. CASE batch' = parts /\ UNCHANGED <<taken, work>>
    <3>1. work'[q].step # "ended"
      BY <1>a, <2>4
    <3> QED
      BY <1>a, <2>2, <2>4, <3>1, Arrives
  <2> QED
    BY <2>2, <2>3, <2>4
<1>5. CASE \E s \in Sources, r \in Runners : CollectFails(s, r)
  BY <1>0, <1>5, <1>d, DropStep
<1>6. CASE \E r \in Runners : Consume(r)
  <2>1. PICK r \in Runners : Consume(r)
    BY <1>6
  <2>2. batch' = batch /\ (Step(r, "idle") \/ Step(r, "ack"))
    BY <1>0, <1>b, <2>1, ConsumeStep
  <2>3. work'[r].step # "ended"
    BY <1>0, <2>2, LabelStep
  <2> QED
    BY <1>c, <2>2, <2>3
<1>7. CASE \E r \in Runners : AcknowledgeBatch(r)
  <2>1. PICK r \in Runners : AcknowledgeBatch(r)
    BY <1>7
  <2>2. batch' = batch /\ Step(r, "idle")
    BY <2>1, AckBatchStep
  <2>3. work'[r].step # "ended"
    BY <1>0, <2>2, LabelStep
  <2> QED
    BY <1>c, <2>2, <2>3
<1> QED
  BY <1>0, <1>1, <1>2, <1>3, <1>4, <1>5, <1>6, <1>7, <1>b, StepCases

\* A unit in the batch that is consumed.
LEMMA PassedStep ==
    ASSUME ConsumerInv, [BatchNext]_consumerVars, NEW u \in Units, Passed(u)
    PROVE  Somewhere(u)'
<1> USE DEF queueVars, flowVars, stopVars, doneVars, batchVars
<1>0. TypeInv /\ ShapeInv /\ RunnerInv
  BY DEF ConsumerInv
<1>a. PICK q \in Runners : u \in UnitsIn(taken) /\ work[q].step = "process"
  BY DEF Passed
<1>b. settings.batch
  BY <1>0, <1>a DEF RunnerInv, UnitsIn
<1>c. CASE taken' = taken /\ work'[q] = work[q]
  BY <1>a, <1>c, Arrives
<1>d. \A r \in Runners : work[r].step # "ended" => r = q
  BY <1>0, <1>a, <1>b DEF RunnerInv
<1>1. CASE UNCHANGED shared
  BY <1>1, <1>c DEF shared
<1>2. CASE \E s \in Sources : (Receive(s) \/ Shovel(s)) /\ UNCHANGED batchVars
  BY <1>2, <1>c DEF Receive, Shovel
<1>3. CASE \E msg \in inflight : Redeliver(msg) /\ UNCHANGED batchVars
  BY <1>3, <1>c DEF Redeliver
<1>4. CASE \E r \in Runners : RunnerEnds(r)
  BY <1>0, <1>4, <1>a, <1>d, LeaveStep
<1>5. CASE \E r \in Runners : Gather(r)
  BY <1>0, <1>5, <1>a, <1>d, GatherStep
<1>6. CASE \E s \in Sources, r \in Runners : CollectFails(s, r)
  BY <1>0, <1>6, <1>c, DropStep
<1>7. CASE \E r \in Runners : Consume(r)
  <2>1. PICK r \in Runners : Consume(r)
    BY <1>7
  <2>2. PICK i \in DOMAIN taken : u = taken[i].unit
    BY <1>a DEF UnitsIn
  <2>3. \/ u \in consumed' \union reported' \/ \E m \in visible' : u \in UnitsOf(m)
        \/ Redelivers(taken[i].msg)
    BY <1>0, <1>b, <2>1, <2>2, ConsumeStep
  <2>4. CASE Redelivers(taken[i].msg)
    <3>1. visible \subseteq visible' /\ inflight' = inflight
      BY <1>0, <1>b, <2>1, ConsumeStep
    <3>2. taken[i].msg \in InHand /\ u \in UnitsOf(taken[i].msg)
      BY <1>0, <2>2, HandOf DEF Places, ShapeInv
    <3> QED
      BY <1>b, <2>4, <3>1, <3>2, ComesBack
  <2> QED
    BY <2>3, <2>4, Arrives
<1>8. CASE \E r \in Runners : AcknowledgeBatch(r)
  BY <1>8, <1>a, <1>d, AckBatchStep
<1> QED
  BY <1>0, <1>1, <1>2, <1>3, <1>4, <1>5, <1>6, <1>7, <1>8, <1>b, StepCases

\* No step loses a unit.
LEMMA LostStep ==
    ASSUME SafeSettings, ConsumerInv, NoneLostInBatch, [BatchNext]_consumerVars
    PROVE  NoneLostInBatch'
<1>1. ASSUME NEW u \in Units PROVE Somewhere(u)'
  <2>1. Somewhere(u)
    BY SomewhereIs
  <2>2. CASE Known(u)
    <3>1. consumed \subseteq consumed' /\ reported \subseteq reported'
      BY QueueStep DEF ConsumerInv
    <3> QED
      BY <2>2, <3>1, Arrives DEF Known
  <2> QED
    BY <2>1, <2>2, QueuedStep, FlowingStep, WorkingStep, CollectedStep, PassedStep DEF Somewhere
<1>2. (NoneLostInBatch <=> \A u \in Units : Somewhere(u))'
  BY SomewhereIs, PTL
<1> QED
  BY <1>1, <1>2

-----------------------------------------------------------------------------
(* Theorems.                                                               *)

\* What the goroutines have of a message is what the queue gave them, and until the
\* callback acknowledges it the queue keeps it, for either kind of consumer.
THEOREM ConsumerInvariant == BatchSpec => []ConsumerInv
<1>1. BatchInit => ConsumerInv
  BY InvariantAtFirst
<1>2. ConsumerInv /\ [BatchNext]_consumerVars => ConsumerInv'
  BY TypeStep, ShapeStep, RunnerStep, KeptStep, AckStep DEF ConsumerInv
<1> QED
  BY <1>1, <1>2, PTL DEF BatchSpec

\* A single message is only deleted from its queue, by Ack or by AckBatch, once the
\* callback has acknowledged it; a shutdown deletes none.
THEOREM OnlyConsumedAreDeleted == BatchSpec => DeletedWereConsumed
<1>1. ConsumerInv /\ [BatchNext]_consumerVars =>
        [\A msg \in visible \union inflight :
            ~msg.agg /\ msg \notin visible' \union inflight' /\ Redelivers(msg)
                => UnitsOf(msg) \subseteq consumed]_vars
  BY DeleteStep
<1> QED
  BY <1>1, ConsumerInvariant, PTL DEF BatchSpec, DeletedWereConsumed

\* With these settings no unit disappears silently, whichever of failure, panic, early
\* redelivery, shutdown and retry meet: it is consumed, reported or still with some queue
\* or goroutine.
THEOREM NoUnitDisappears ==
    ASSUME SafeSettings
    PROVE  BatchSpec => []NoneLostInBatch
<1>1. BatchInit => NoneLostInBatch
  BY NoneLostAtFirst
<1>2. ConsumerInv /\ NoneLostInBatch /\ [BatchNext]_consumerVars => NoneLostInBatch'
  BY LostStep
<1> QED
  BY <1>1, <1>2, ConsumerInvariant, PTL DEF BatchSpec
=============================================================================
