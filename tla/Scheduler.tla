----------------------------- MODULE Scheduler -----------------------------
(***************************************************************************)
(* The job scheduler (pkg/conc/scheduler): callers of ScheduleJob wait for  *)
(* the result of a job, createBatches collects jobs from the work queue     *)
(* until a batch is full or its time is up, and executeBatches runs batches *)
(* and answers the callers one by one.  Definitions that other components   *)
(* have as well are prefixed with JS (job scheduler).                       *)
(***************************************************************************)
EXTENDS Integers, Sequences, FiniteSets, Functions

CONSTANTS
    Jobs,           \* calls of ScheduleJob
    Runners,        \* goroutines running executeBatches; both queues have room for
                    \* as many entries
    MaxBatchSize

ASSUME SchedulerAssumption == MaxBatchSize \in Nat \ {0} /\ IsFiniteSet(Runners)

RunnerCount == Cardinality(Runners)

VARIABLES
    job,         \* where each caller is: "new", "waiting", "ok" or "failed"
    workQueue,
    current,     \* currentBatch
    out,         \* the batch being sent to the batch queue, <<>> if none
    ticking,     \* the ticker runs
    batchQueue,
    creating,    \* createBatches: "loop", "leaving" or "ended" (batch queue closed)
    running,     \* the jobs each runner has in work and not yet answered
    verdict,     \* what the batch runner returned: "none", "ok" or "failed"
    ended,       \* runners that have left
    ctxDone

createVars == <<workQueue, current, out, ticking, batchQueue, creating>>
runVars == <<running, verdict, ended>>
jsVars == <<job, createVars, runVars, ctxDone>>

JSInit ==
    /\ job = [j \in Jobs |-> "new"]
    /\ workQueue = <<>> /\ current = <<>> /\ out = <<>> /\ ticking = FALSE
    /\ batchQueue = <<>> /\ creating = "loop"
    /\ running = [r \in Runners |-> <<>>] /\ verdict = [r \in Runners |-> "none"]
    /\ ended = {} /\ ctxDone = FALSE

\* The call blocks while the work queue is full, and then until it gets a result.
ScheduleJob(j) ==
    /\ job[j] = "new" /\ Len(workQueue) < RunnerCount
    /\ workQueue' = Append(workQueue, j)
    /\ job' = [job EXCEPT ![j] = "waiting"]
    /\ UNCHANGED <<current, out, ticking, batchQueue, creating, runVars, ctxDone>>

-----------------------------------------------------------------------------
(* createBatches.                                                          *)

Full(batch) == Len(batch) = MaxBatchSize

\* The first job of a batch starts the ticker, the last one stops it.
CollectJob ==
    /\ creating = "loop" /\ out = <<>> /\ workQueue # <<>>
    /\ workQueue' = Tail(workQueue)
    /\ LET batch == Append(current, Head(workQueue))
       IN  /\ current' = IF Full(batch) THEN <<>> ELSE batch
           /\ out' = IF Full(batch) THEN batch ELSE <<>>
           /\ ticking' = ~Full(batch)
    /\ UNCHANGED <<job, batchQueue, creating, runVars, ctxDone>>

TickFlushes == Len(current) > 0

\* Mutant: a tick is only taken for batches of more than one job.
TickMany ==
    /\ creating = "loop" /\ out = <<>> /\ ticking /\ Len(current) > 1
    /\ out' = current /\ current' = <<>> /\ ticking' = FALSE
    /\ UNCHANGED <<job, workQueue, batchQueue, creating, runVars, ctxDone>>

BatchTick ==
    /\ creating = "loop" /\ out = <<>> /\ ticking
    /\ out' = IF TickFlushes THEN current ELSE <<>>
    /\ current' = IF TickFlushes THEN <<>> ELSE current
    /\ ticking' = FALSE
    /\ UNCHANGED <<job, workQueue, batchQueue, creating, runVars, ctxDone>>

\* Mutant: the open batch is forgotten.
LeaveWithout == out' = <<>>

\* The context is done: flush the open batch and leave.
LeaveWith == out' = current

Leave ==
    /\ creating = "loop" /\ out = <<>> /\ ctxDone
    /\ LeaveWith
    /\ current' = <<>> /\ ticking' = FALSE
    /\ creating' = "leaving"
    /\ UNCHANGED <<job, workQueue, batchQueue, runVars, ctxDone>>

SendBatch ==
    /\ out # <<>> /\ Len(batchQueue) < RunnerCount
    /\ batchQueue' = Append(batchQueue, out)
    /\ out' = <<>>
    /\ UNCHANGED <<job, workQueue, current, ticking, creating, runVars, ctxDone>>

\* Mutant: the batch queue is left open.
CreateStays == "leaving"

CreateEnded == "ended"

CreateEnds ==
    /\ creating = "leaving" /\ out = <<>>
    /\ creating' = CreateEnded
    /\ UNCHANGED <<job, workQueue, current, out, ticking, batchQueue, runVars, ctxDone>>

-----------------------------------------------------------------------------
(* executeBatches.                                                         *)

\* The batch runner runs the jobs of a batch and succeeds or fails as a whole.
RunBatch(r) ==
    /\ r \notin ended /\ running[r] = <<>> /\ batchQueue # <<>>
    /\ running' = [running EXCEPT ![r] = Head(batchQueue)]
    /\ batchQueue' = Tail(batchQueue)
    /\ \E v \in {"ok", "failed"} : verdict' = [verdict EXCEPT ![r] = v]
    /\ UNCHANGED <<job, workQueue, current, out, ticking, creating, ended, ctxDone>>

\* One waiting caller after the other gets its result.
Answer(r) ==
    /\ running[r] # <<>>
    /\ job' = [job EXCEPT ![Head(running[r])] = verdict[r]]
    /\ running' = [running EXCEPT ![r] = Tail(@)]
    /\ UNCHANGED <<createVars, verdict, ended, ctxDone>>

RunnerEnds(r) ==
    /\ r \notin ended /\ running[r] = <<>> /\ batchQueue = <<>> /\ creating = "ended"
    /\ ended' = ended \union {r}
    /\ UNCHANGED <<job, createVars, running, verdict, ctxDone>>

CancelScheduler ==
    /\ ~ctxDone /\ ctxDone' = TRUE
    /\ UNCHANGED <<job, createVars, runVars>>

-----------------------------------------------------------------------------
CreateBatches == CollectJob \/ BatchTick \/ Leave \/ SendBatch \/ CreateEnds
ExecuteBatches(r) == RunBatch(r) \/ Answer(r) \/ RunnerEnds(r)

JSNext ==
    \/ \E j \in Jobs : ScheduleJob(j)
    \/ CreateBatches
    \/ \E r \in Runners : ExecuteBatches(r)
    \/ CancelScheduler

\* The goroutines of Run proceed; the ticker fires while it runs; select does not
\* overlook a done context forever.
JSFairness ==
    /\ WF_jsVars(CreateBatches) /\ SF_jsVars(Leave) /\ SF_jsVars(BatchTick)
    /\ \A r \in Runners : WF_jsVars(ExecuteBatches(r))

JSSpec == JSInit /\ [][JSNext]_jsVars /\ JSFairness

-----------------------------------------------------------------------------
(* Properties.                                                             *)

JSTypeOK ==
    /\ job \in [Jobs -> {"new", "waiting", "ok", "failed"}]
    /\ workQueue \in Seq(Jobs) /\ Len(workQueue) <= RunnerCount
    /\ current \in Seq(Jobs) /\ Len(current) < MaxBatchSize
    /\ out \in Seq(Jobs) /\ Len(out) <= MaxBatchSize
    /\ batchQueue \in Seq(Seq(Jobs)) /\ Len(batchQueue) <= RunnerCount
    /\ \A i \in DOMAIN batchQueue : Len(batchQueue[i]) <= MaxBatchSize
    /\ ticking \in BOOLEAN /\ ctxDone \in BOOLEAN
    /\ creating \in {"loop", "leaving", "ended"}
    /\ running \in [Runners -> Seq(Jobs)] /\ \A r \in Runners : Len(running[r]) <= MaxBatchSize
    /\ verdict \in [Runners -> {"none", "ok", "failed"}]
    /\ ended \subseteq Runners

Once(list) == \A i, k \in DOMAIN list : list[i] = list[k] => i = k
Apart(list, other) == Range(list) \intersect Range(other) = {}

\* Every waiting caller's job is in exactly one place, so that it is answered at
\* most once (a second answer would block its runner forever), and an open batch
\* always has a ticker that will end it.
WaitingOnce ==
    LET lists == <<workQueue, current, out>> \o batchQueue
    IN  /\ \A i \in DOMAIN lists :
              /\ Once(lists[i])
              /\ \A k \in DOMAIN lists : k # i => Apart(lists[i], lists[k])
              /\ \A r \in Runners : Apart(lists[i], running[r])
        /\ \A r \in Runners :
              /\ Once(running[r])
              /\ \A q \in Runners : q # r => Apart(running[r], running[q])
        /\ \A j \in Jobs : job[j] = "waiting" <=>
              \/ \E i \in DOMAIN lists : j \in Range(lists[i])
              \/ \E r \in Runners : j \in Range(running[r])
        /\ (current # <<>> => ticking)

\* A job that is scheduled is answered, whatever races with the end of the context:
\* only one that is still in the work queue then may be left there.  Once
\* createBatches has taken it, its caller gets an answer.
ScheduledIsAnswered ==
    \A j \in Jobs : job[j] = "waiting" ~>
        \/ job[j] \in {"ok", "failed"}
        \/ ctxDone /\ j \in Range(workQueue)

\* Run returns when its context is done.
SchedulerReturns == ctxDone ~> ended = Runners
=============================================================================
