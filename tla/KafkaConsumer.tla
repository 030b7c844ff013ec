--------------------------- MODULE KafkaConsumer ---------------------------
(***************************************************************************)
(* The Kafka consumer (pkg/kafka/consumer): the polling loop, the partition *)
(* manager with its callbacks for rebalances, and one goroutine for every   *)
(* partition that handles and commits batches.                              *)
(*                                                                         *)
(* The client library (franz-go) is external.  It is used with               *)
(* BlockRebalanceOnPoll: from a poll to AllowRebalance no callback runs,     *)
(* and a poll waits for a running callback.  Callbacks run one at a time.    *)
(***************************************************************************)
EXTENDS Integers

CONSTANTS
    Partitions,
    LastOffset,      \* bound: the records in each partition, with offsets from 1
    MaxBatch,        \* most records of one partition in a poll
    MaxRebalances,   \* bound: assignments and revocations by the group
    CommitMayFail,   \* CommitRecords may fail although the context is not done
    CtxMayEnd        \* the context passed to Run may end

ASSUME KafkaAssumption ==
    /\ LastOffset \in [Partitions -> Nat] /\ MaxBatch \in Nat \ {0} /\ MaxRebalances \in Nat
    /\ CommitMayFail \in BOOLEAN /\ CtxMayEnd \in BOOLEAN

VARIABLES
    run,         \* where Run is
    fetched,     \* how many records of each partition wait for Handle
    stopped,     \* Stop was called
    ctxDone,
    mapped,      \* the partitions in the consumers map
    gor,         \* the goroutine of the last consumer of each partition
    stopCh,      \* that consumer's stop channel is closed
    batch,       \* how many records it has taken
    upTo,        \* the offset of the last of them
    stopping,    \* the flag of the partition manager
    group,       \* who has a partition: "free", "other", "joining", "us", "leaving"
    cb,          \* the callback in work
    rebalances,
    pos,         \* the last offset the client has fetched
    committed,   \* the committed offset
    handled,     \* the offsets passed to a message handler
    dropped,     \* the offsets whose records the code has thrown away (a ghost)
    panicked     \* Go was called on the dead coffin

loopVars == <<run, fetched, stopped, ctxDone>>
managerVars == <<mapped, stopping>>
workVars == <<gor, stopCh, batch, upTo>>
groupVars == <<group, cb, rebalances>>
offsetVars == <<pos, committed, handled, dropped>>
vars == <<loopVars, managerVars, workVars, groupVars, offsetVars, panicked>>

NoCallback == [kind |-> "none", todo |-> {}, wait |-> {}]
None == [p \in Partitions |-> 0]

Init ==
    /\ run = "loop" /\ fetched = None /\ stopped = FALSE /\ ctxDone = FALSE
    /\ mapped = {} /\ stopping = FALSE
    /\ gor = [p \in Partitions |-> "off"]
    /\ stopCh = [p \in Partitions |-> FALSE]
    /\ batch = None /\ upTo = None
    /\ group = [p \in Partitions |-> "free"] /\ cb = NoCallback /\ rebalances = 0
    /\ pos = None /\ committed = None
    /\ handled = [p \in Partitions |-> {}] /\ dropped = [p \in Partitions |-> {}]
    /\ panicked = FALSE

-----------------------------------------------------------------------------
(* Run.                                                                    *)

LoopChecks ==
    /\ run = "loop"
    /\ run' = IF stopped \/ ctxDone THEN "close" ELSE "poll"
    /\ UNCHANGED <<fetched, stopped, ctxDone, managerVars, workVars, groupVars, offsetVars, panicked>>

\* What a poll may return of each partition.  It waits for a running callback.
Fetches ==
    {n \in [Partitions -> 0..MaxBatch] :
        \A p \in Partitions :
            n[p] > 0 => cb.kind = "none" /\ group[p] = "us" /\ pos[p] + n[p] <= LastOffset[p]}

\* PollRecords moves the position of the client, whatever becomes of the records.
Advanced(n) == [p \in Partitions |-> pos[p] + n[p]]

\* A poll without an error, or with errors that are ignored and keep the records beside
\* them; a stop before it leads to a poll without records.
Poll ==
    /\ run = "poll" /\ cb.kind = "none"
    /\ \E n \in Fetches : fetched' = n /\ pos' = Advanced(n)
    /\ run' = "handle"
    /\ UNCHANGED <<stopped, ctxDone, managerVars, workVars, groupVars, committed, handled, dropped, panicked>>

\* An error of the connection beside records: the executor polls again, and the
\* records of the first poll are gone.
PollAgain ==
    /\ run = "poll"
    /\ \E n \in Fetches \ {None} :
          /\ pos' = Advanced(n)
          /\ dropped' = [p \in Partitions |-> dropped[p] \union (pos[p] + 1)..(pos[p] + n[p])]
    /\ UNCHANGED <<loopVars, managerVars, workVars, groupVars, committed, handled, panicked>>

\* The context is done, the client is closed, or an error that is not retried (any more):
\* Run returns and nobody looks at the records of this poll.
PollFails ==
    /\ run = "poll" /\ run' = "close"
    /\ \E n \in Fetches : pos' = Advanced(n)
    /\ UNCHANGED <<fetched, stopped, ctxDone, managerVars, workVars, groupVars, committed, handled, dropped, panicked>>

\* Mutant: the batch is committed before it is handled.
CommitFirst == "commit"

AfterReceive == "handle"

\* Handle sends the records on the unbuffered channel of the partition's consumer;
\* if none is found, an error is logged and they are dropped.
Handle(p) ==
    /\ run = "handle" /\ fetched[p] > 0
    /\ p \in mapped => gor[p] = "idle"
    /\ gor' = IF p \in mapped THEN [gor EXCEPT ![p] = AfterReceive] ELSE gor
    /\ batch' = IF p \in mapped THEN [batch EXCEPT ![p] = fetched[p]] ELSE batch
    /\ upTo' = IF p \in mapped THEN [upTo EXCEPT ![p] = pos[p]] ELSE upTo
    /\ fetched' = [fetched EXCEPT ![p] = 0]
    /\ UNCHANGED <<run, stopped, ctxDone, managerVars, stopCh, groupVars, offsetVars, panicked>>

AllowRebalance ==
    /\ run = "handle" /\ fetched = None
    /\ run' = "loop"
    /\ UNCHANGED <<fetched, stopped, ctxDone, managerVars, workVars, groupVars, offsetVars, panicked>>

\* CloseAllowingRebalance leaves the group, which revokes all partitions; without
\* its context the client does not wait for that.
CloseReader ==
    /\ run = "close" /\ cb.kind # "revoke"
    /\ ctxDone \/ \A p \in Partitions : group[p] \in {"free", "other"}
    /\ run' = "stop"
    /\ UNCHANGED <<fetched, stopped, ctxDone, managerVars, workVars, groupVars, offsetVars, panicked>>

\* Mutant: the stop channel stays open.
NotStopped(ps) == stopCh

\* PartitionConsumer.Stop of some partitions.
Stopped(ps) == [p \in Partitions |-> stopCh[p] \/ p \in ps]

\* PartitionManager.Stop: the flag, then all consumers under the lock.
StopFlag ==
    /\ run = "stop" /\ stopping' = TRUE /\ run' = "stopAll"
    /\ UNCHANGED <<fetched, stopped, ctxDone, mapped, workVars, groupVars, offsetVars, panicked>>

StopAll ==
    /\ run = "stopAll"
    /\ stopCh' = Stopped(mapped)
    /\ mapped' = {} /\ run' = "wait"
    /\ UNCHANGED <<fetched, stopped, ctxDone, stopping, gor, batch, upTo, groupVars, offsetVars, panicked>>

Tracked(p) == gor[p] \in {"idle", "handle", "commit"}

\* Mutant: the message handler is closed without a wait.
ClosedOnly == run = "wait"

\* The coffin is dead once done is closed and all goroutines have returned.
CoffinDead == run \in {"wait", "returned"} /\ \A p \in Partitions : ~Tracked(p)

\* Wait returns and the message handler closes its channel.
RunReturns ==
    /\ run = "wait" /\ CoffinDead
    /\ run' = "returned"
    /\ UNCHANGED <<fetched, stopped, ctxDone, managerVars, workVars, groupVars, offsetVars, panicked>>

-----------------------------------------------------------------------------
(* PartitionConsumer.Consume.                                              *)

Becomes(p, state) == gor' = [gor EXCEPT ![p] = state]

\* The batch is passed on record by record; a panic of the handler at some record is
\* logged and ends that, and the whole batch is committed all the same.
HandleRecords(p) ==
    /\ gor[p] = "handle"
    /\ \E k \in 0..batch[p] :
          LET first == upTo[p] - batch[p] + 1
          IN  /\ handled' = [handled EXCEPT ![p] = @ \union first..(first + k - 1)]
              /\ dropped' = [dropped EXCEPT ![p] = @ \union (first + k)..upTo[p]]
    /\ Becomes(p, "commit")
    /\ UNCHANGED <<loopVars, managerVars, stopCh, batch, upTo, groupVars, pos, committed, panicked>>

CommitRecords(p) ==
    /\ gor[p] = "commit" /\ ~ctxDone
    /\ committed' = [committed EXCEPT ![p] = upTo[p]]
    /\ batch' = [batch EXCEPT ![p] = 0] /\ upTo' = [upTo EXCEPT ![p] = 0]
    /\ Becomes(p, "idle")
    /\ UNCHANGED <<loopVars, managerVars, stopCh, groupVars, pos, handled, dropped, panicked>>

\* The goroutine returns an error; nobody looks at the dying coffin.
CommitFails(p) ==
    /\ gor[p] = "commit" /\ (ctxDone \/ CommitMayFail)
    /\ batch' = [batch EXCEPT ![p] = 0] /\ upTo' = [upTo EXCEPT ![p] = 0]
    /\ Becomes(p, "gone")
    /\ UNCHANGED <<loopVars, managerVars, stopCh, groupVars, offsetVars, panicked>>

ConsumeReturns(p) ==
    /\ gor[p] = "idle" /\ (stopCh[p] \/ ctxDone)
    /\ Becomes(p, "gone")
    /\ UNCHANGED <<loopVars, managerVars, stopCh, batch, upTo, groupVars, offsetVars, panicked>>

-----------------------------------------------------------------------------
(* The callbacks of the client.                                            *)

RebalanceBlocked == run = "handle"

\* The group gives partitions to this client.
AssignStart(ps) ==
    /\ cb.kind = "none" /\ ~RebalanceBlocked /\ run \in {"loop", "poll", "handle", "close"}
    /\ rebalances < MaxRebalances /\ rebalances' = rebalances + 1
    /\ ps # {} /\ \A p \in ps : group[p] = "free"
    /\ ~stopping   \* the check at the top of OnPartitionsAssigned
    /\ cb' = [kind |-> "assign", todo |-> ps, wait |-> {}]
    /\ group' = [p \in Partitions |-> IF p \in ps THEN "joining" ELSE group[p]]
    /\ UNCHANGED <<loopVars, managerVars, workVars, offsetVars, panicked>>

\* Under the lock a consumer is put into the map, unless the manager is stopping.
AssignRegister(p) ==
    /\ cb.kind = "assign" /\ p \in cb.todo /\ \A q \in Partitions : gor[q] # "spawn"
    /\ IF stopping
       THEN cb' = [cb EXCEPT !.todo = @ \ {p}] /\ UNCHANGED <<mapped, gor, stopCh>>
       ELSE /\ mapped' = mapped \union {p}
            /\ gor' = [gor EXCEPT ![p] = "spawn"]
            /\ stopCh' = [stopCh EXCEPT ![p] = FALSE]
            /\ UNCHANGED cb
    /\ UNCHANGED <<loopVars, stopping, batch, upTo, group, rebalances, offsetVars, panicked>>

\* After the unlock its goroutine is started; on a dead coffin Go panics.
AssignGo(p) ==
    /\ cb.kind = "assign" /\ gor[p] = "spawn"
    /\ gor' = [gor EXCEPT ![p] = IF CoffinDead THEN "gone" ELSE "idle"]
    /\ panicked' = (panicked \/ CoffinDead)
    /\ cb' = [cb EXCEPT !.todo = @ \ {p}]
    /\ UNCHANGED <<loopVars, managerVars, stopCh, batch, upTo, group, rebalances, offsetVars>>

\* The client starts to fetch after what is committed.
AssignDone ==
    /\ cb.kind = "assign" /\ cb.todo = {}
    /\ cb' = NoCallback
    /\ group' = [p \in Partitions |-> IF group[p] = "joining" THEN "us" ELSE group[p]]
    /\ pos' = [p \in Partitions |-> IF group[p] = "joining" THEN committed[p] ELSE pos[p]]
    /\ UNCHANGED <<loopVars, managerVars, workVars, rebalances, committed, handled, dropped, panicked>>

\* The group takes partitions away, or the client leaves the group.
RevokeStart(ps) ==
    /\ cb.kind = "none" /\ ~RebalanceBlocked
    /\ ps # {} /\ \A p \in ps : group[p] = "us"
    /\ \/ rebalances < MaxRebalances /\ rebalances' = rebalances + 1 /\ run \in {"loop", "poll", "handle"}
       \/ run = "close" /\ UNCHANGED rebalances
    /\ cb' = [kind |-> "revoke", todo |-> ps, wait |-> {}]
    /\ group' = [p \in Partitions |-> IF p \in ps THEN "leaving" ELSE group[p]]
    /\ UNCHANGED <<loopVars, managerVars, workVars, offsetVars, panicked>>

RevokeTake(p) ==
    /\ cb.kind = "revoke" /\ p \in cb.todo
    /\ mapped' = mapped \ {p}
    /\ stopCh' = Stopped({p} \intersect mapped)
    /\ cb' = [cb EXCEPT !.todo = @ \ {p}, !.wait = @ \union ({p} \intersect mapped)]
    /\ UNCHANGED <<loopVars, stopping, gor, batch, upTo, group, rebalances, offsetVars, panicked>>

\* Mutant: the callback does not wait for the consumers.
AllTaken == cb.todo = {}

AllFinished == cb.todo = {} /\ \A p \in cb.wait : ~Tracked(p)

\* The callback waits for the consumers it has stopped; then others may have them.
RevokeDone ==
    /\ cb.kind = "revoke" /\ AllFinished
    /\ group' = [p \in Partitions |-> IF group[p] = "leaving" THEN "free" ELSE group[p]]
    /\ pos' = [p \in Partitions |-> IF group[p] = "leaving" THEN 0 ELSE pos[p]]
    /\ cb' = NoCallback
    /\ UNCHANGED <<loopVars, managerVars, workVars, rebalances, committed, handled, dropped, panicked>>

-----------------------------------------------------------------------------
(* The environment.                                                        *)

OtherTakes(p) ==
    /\ group[p] = "free" /\ group' = [group EXCEPT ![p] = "other"]
    /\ UNCHANGED <<loopVars, managerVars, workVars, cb, rebalances, offsetVars, panicked>>

OtherConsumes(p) ==
    /\ group[p] = "other" /\ committed[p] < LastOffset[p]
    /\ committed' = [committed EXCEPT ![p] = @ + 1]
    /\ handled' = [handled EXCEPT ![p] = @ \union {committed[p] + 1}]
    /\ UNCHANGED <<loopVars, managerVars, workVars, groupVars, pos, dropped, panicked>>

OtherLeaves(p) ==
    /\ group[p] = "other" /\ group' = [group EXCEPT ![p] = "free"]
    /\ UNCHANGED <<loopVars, managerVars, workVars, cb, rebalances, offsetVars, panicked>>

Stop ==
    /\ ~stopped /\ stopped' = TRUE
    /\ UNCHANGED <<run, fetched, ctxDone, managerVars, workVars, groupVars, offsetVars, panicked>>

CtxEnds ==
    /\ CtxMayEnd /\ ~ctxDone /\ ctxDone' = TRUE
    /\ UNCHANGED <<run, fetched, stopped, managerVars, workVars, groupVars, offsetVars, panicked>>

-----------------------------------------------------------------------------
Poller ==
    \/ LoopChecks \/ Poll \/ PollAgain \/ PollFails \/ AllowRebalance
    \/ \E p \in Partitions : Handle(p)
    \/ CloseReader \/ StopFlag \/ StopAll \/ RunReturns

Consumer(p) == HandleRecords(p) \/ CommitRecords(p) \/ CommitFails(p) \/ ConsumeReturns(p)

Callback ==
    \/ \E p \in Partitions : AssignRegister(p) \/ AssignGo(p) \/ RevokeTake(p)
    \/ AssignDone \/ RevokeDone

Leave == run = "close" /\ RevokeStart({p \in Partitions : group[p] = "us"})

Rebalance == \E ps \in SUBSET Partitions : AssignStart(ps) \/ RevokeStart(ps)

Others == \E p \in Partitions : OtherTakes(p) \/ OtherConsumes(p) \/ OtherLeaves(p)

Next ==
    \/ Poller \/ (\E p \in Partitions : Consumer(p)) \/ Callback \/ Leave \/ Rebalance
    \/ Others \/ Stop \/ CtxEnds

\* Goroutines run, the message handler takes what it gets, and a client that is
\* closed leaves its group.
Fairness ==
    /\ WF_vars(Poller) /\ WF_vars(Callback) /\ WF_vars(Leave)
    /\ \A p \in Partitions : WF_vars(Consumer(p))

Spec == Init /\ [][Next]_vars /\ Fairness

-----------------------------------------------------------------------------
(* Properties.                                                             *)

TypeOK ==
    /\ run \in {"loop", "poll", "handle", "close", "stop", "stopAll", "wait", "returned"}
    /\ fetched \in [Partitions -> 0..MaxBatch]
    /\ {stopped, ctxDone, stopping, panicked} \subseteq BOOLEAN
    /\ mapped \subseteq Partitions
    /\ gor \in [Partitions -> {"off", "spawn", "idle", "handle", "commit", "gone"}]
    /\ stopCh \in [Partitions -> BOOLEAN]
    /\ batch \in [Partitions -> 0..MaxBatch]
    /\ upTo \in [Partitions -> Nat]
    /\ \A p \in Partitions : batch[p] > 0 <=> gor[p] \in {"handle", "commit"}
    /\ group \in [Partitions -> {"free", "other", "joining", "us", "leaving"}]
    /\ cb \in [kind : {"none", "assign", "revoke"}, todo : SUBSET Partitions, wait : SUBSET Partitions]
    /\ rebalances \in 0..MaxRebalances
    /\ pos \in [Partitions -> Nat] /\ committed \in [Partitions -> Nat]
    /\ \A p \in Partitions : pos[p] <= LastOffset[p] /\ upTo[p] <= LastOffset[p] /\ committed[p] <= LastOffset[p]
    /\ handled \in [Partitions -> SUBSET Nat] /\ dropped \in [Partitions -> SUBSET Nat]

\* What the code throws away is all that is skipped: up to the committed offset every
\* record was passed to a handler, or is one the code itself gave up, in a fetch that it
\* polls again or behind a panic of the handler.  No rebalance, failed commit, stop or
\* interleaving of the poll loop with the goroutines adds a record to those.
CommittedWereHandled == \A p \in Partitions : 1..committed[p] \subseteq handled[p] \union dropped[p]

\* OnPartitionsLostOrRevoked: a partition is not given to another consumer while we
\* are still processing potentially uncommitted messages of it.
RevokedAreFinished == \A p \in Partitions : group[p] = "other" => ~Tracked(p)

\* Stop closes the channel of the message handler last, so that no goroutine can send on
\* it any more; and OnPartitionsAssigned ignores assignments while the manager stops, so
\* that Go is not called on the dead coffin, as long as the reader can wait for its callbacks.
NeverPanics ==
    /\ run = "returned" => \A p \in Partitions : ~Tracked(p)
    /\ panicked => ctxDone

\* Handle waits on the channel of a consumer whose goroutine is gone.
HandleBlocked == run = "handle" /\ \E p \in mapped : fetched[p] > 0 /\ gor[p] = "gone"

\* Input.Stop: Stop causes Run to return, in the midst of rebalances, batches and failed
\* polls, and also after failed commits.  Only one thing can keep it from that while the
\* context goes on: records for a partition whose goroutine a failed commit has ended.
ReturnsUnlessBlocked ==
    stopped ~> run = "returned" \/ ctxDone \/ HandleBlocked
=============================================================================
