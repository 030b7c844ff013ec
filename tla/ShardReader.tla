----------------------------- MODULE ShardReader -----------------------------
(***************************************************************************)
(* The consumers of one Kinesis shard (pkg/cloud/aws/kinesis): how clients  *)
(* acquire the shard through its checkpoint record in DynamoDB, read it,    *)
(* persist their progress, release it and take it over from a client that   *)
(* stopped persisting.                                                     *)
(*                                                                         *)
(* A client has two goroutines, the reader (pc) and the persister (ppc),    *)
(* sharing a checkpoint through an atomic slot.  Sequence numbers are       *)
(* 1..Last, counted from the initial position on (TRIM_HORIZON or a         *)
(* timestamp, not LATEST, which moves); 0 is the empty one.  A shard        *)
(* iterator is the position it stands for, End the missing iterator of a    *)
(* closed shard.  Time is relative: age counts ticks since updatedAt of the *)
(* record, getAge ticks since a client has read it.                        *)
(***************************************************************************)
EXTENDS Integers, FiniteSets

CONSTANTS
    Clients,      \* the competing clients
    Nobody,       \* the missing owningClientId
    Last,         \* the last sequence number of the shard
    MaxBatch,     \* most records in one GetRecords response
    Timeout,      \* checkpointTimeout, in ticks
    MaxStall,     \* bound: most ticks between a client's GetItem and its PutItem
    Timely,       \* the clients that persist within the timeout as long as they are alive
    MaxFaults     \* bound: how often clients are canceled or crash, or calls of Kinesis fail

ASSUME ShardAssumption ==
    /\ Nobody \notin Clients
    /\ {Last, MaxBatch, Timeout} \subseteq Nat \ {0}
    /\ {MaxStall, MaxFaults} \subseteq Nat
    /\ Timely \subseteq Clients

End == Last + 1
Seqs == 0..Last

VARIABLES
    rec,       \* the checkpoint record in the metadata table (unowned at 0: none yet)
    age,       \* ticks since its updatedAt
    pc,        \* the reader goroutine of each client
    copy,      \* the sequence number a client has read from the record
    getAge,    \* ticks since it has done so
    cp,        \* the checkpoint object of each client
    slot,      \* what shardReader.checkpoint holds: "real" or "nop"
    ppc,       \* the persister goroutine of each client
    canceled,  \* the context of a client is done
    iter,      \* the position of the iterator of each client
    batch,     \* the records left of the batch in work
    next,      \* the iterator to continue with after the batch
    handled,   \* the records passed to the handler so far
    faults     \* how much of that happened so far

readVars == <<iter, batch, next>>
vars == <<rec, age, pc, copy, getAge, cp, slot, ppc, canceled, readVars, handled, faults>>

NoCheckpoint == [seq |-> 0, final |-> 0, done |-> FALSE, poisoned |-> TRUE]

Init ==
    /\ rec = [owner |-> Nobody, seq |-> 0, finished |-> FALSE]
    /\ age = 0
    /\ pc = [c \in Clients |-> "idle"]
    /\ copy = [c \in Clients |-> 0]
    /\ getAge = [c \in Clients |-> 0]
    /\ cp = [c \in Clients |-> NoCheckpoint]
    /\ slot = [c \in Clients |-> "nop"]
    /\ ppc = [c \in Clients |-> "off"]
    /\ canceled = [c \in Clients |-> FALSE]
    /\ iter = [c \in Clients |-> 0]
    /\ batch = [c \in Clients |-> 0]
    /\ next = [c \in Clients |-> 0]
    /\ handled = {} /\ faults = 0

Write(owner, seq, finished) ==
    rec' = [owner |-> owner, seq |-> seq, finished |-> finished]

Goto(c, label) == pc' = [pc EXCEPT ![c] = label]

-----------------------------------------------------------------------------
(* AcquireShard.                                                           *)

\* handleExistingRecord: nobody owns the record or its owner has timed out.
NotInUse == rec.owner = Nobody \/ age >= Timeout

\* The consistent GetItem; a finished shard ends the reader.
AcquireGet(c) ==
    /\ pc[c] = "idle" /\ ~canceled[c]
    /\ \/ /\ NotInUse /\ rec.finished
          /\ Goto(c, "done")
          /\ UNCHANGED <<copy, getAge>>
       \/ /\ NotInUse /\ ~rec.finished
          /\ copy' = [copy EXCEPT ![c] = rec.seq]
          /\ getAge' = [getAge EXCEPT ![c] = 0]
          /\ Goto(c, "put")
    /\ UNCHANGED <<rec, age, cp, slot, ppc, canceled, readVars, handled, faults>>

\* Mutant: the write is not conditional.
AlwaysAcquires(c) == TRUE

\* Mutant: a client that stopped persisting is never overtaken.
OnlyReleased(c) == rec.owner = Nobody

\* The condition of the PutItem: no owner, or updatedAt <= timedOutBefore.
MayAcquire(c) == rec.owner = Nobody \/ age - getAge[c] >= Timeout

\* The conditional PutItem with what was read before, under a delayed context.
AcquirePut(c) ==
    /\ pc[c] = "put"
    /\ IF MayAcquire(c)
       THEN Write(c, copy[c], FALSE) /\ age' = getAge[c] /\ Goto(c, "acquired")
       ELSE UNCHANGED <<rec, age>> /\ Goto(c, "idle")
    /\ getAge' = [getAge EXCEPT ![c] = 0]
    /\ UNCHANGED <<copy, cp, slot, ppc, canceled, readVars, handled, faults>>

\* Canceled in the meantime: give the shard back.
AcquireUndo(c) ==
    /\ pc[c] = "acquired" /\ canceled[c]
    /\ IF rec.owner = c
       THEN Write(Nobody, copy[c], FALSE) /\ age' = 0
       ELSE UNCHANGED <<rec, age>>
    /\ Goto(c, "done")
    /\ UNCHANGED <<copy, getAge, cp, slot, ppc, canceled, readVars, handled, faults>>

\* The new checkpoint is stored, reader and persister start from its position.
Acquired(c) ==
    /\ pc[c] = "acquired" /\ ~canceled[c]
    /\ cp' = [cp EXCEPT ![c] = [seq |-> copy[c], final |-> 0, done |-> FALSE, poisoned |-> FALSE]]
    /\ slot' = [slot EXCEPT ![c] = "real"]
    /\ iter' = [iter EXCEPT ![c] = copy[c]]
    /\ next' = [next EXCEPT ![c] = copy[c]]
    /\ batch' = [batch EXCEPT ![c] = 0]
    /\ ppc' = [ppc EXCEPT ![c] = "idle"]
    /\ Goto(c, "fetch")
    /\ UNCHANGED <<rec, age, copy, getAge, canceled, handled, faults>>

-----------------------------------------------------------------------------
(* iterateRecords.                                                         *)

\* Mutant: with its first record the whole batch counts as processed.
AdvanceBatch(c, seq) ==
    cp' = IF slot[c] = "real" THEN [cp EXCEPT ![c].seq = seq + batch[c] - 1] ELSE cp

\* Advance and Done on what the slot holds; on the nop they do nothing.
Advance(c, seq) ==
    cp' = IF slot[c] = "real" THEN [cp EXCEPT ![c].seq = seq] ELSE cp

Done(c, seq) ==
    cp' = IF slot[c] = "real" THEN [cp EXCEPT ![c].done = TRUE, ![c].final = seq] ELSE cp

\* GetRecords: at the end of the shard the next iterator is missing.
Fetch(c) ==
    /\ pc[c] = "fetch" /\ ~canceled[c] /\ iter[c] \in Seqs
    /\ \E n \in 0..MaxBatch :
          /\ iter[c] + n <= Last /\ (n = 0 => iter[c] = Last)
          /\ batch' = [batch EXCEPT ![c] = n]
          /\ \/ n > 0 /\ next' = [next EXCEPT ![c] = iter[c] + n]
             \/ iter[c] + n = Last /\ next' = [next EXCEPT ![c] = End]
    /\ Goto(c, "handle")
    /\ UNCHANGED <<rec, age, copy, getAge, cp, slot, ppc, canceled, iter, handled, faults>>

\* getShardIterator for what the slot holds; the nop has no sequence number.
SlotPosition(c) == IF slot[c] = "real" THEN cp[c].seq ELSE 0

\* The iterator has expired: the reader gets a new one from the checkpoint.
IteratorExpires(c) ==
    /\ pc[c] = "fetch" /\ ~canceled[c] /\ iter[c] \in Seqs /\ faults < MaxFaults
    /\ iter' = [iter EXCEPT ![c] = SlotPosition(c)]
    /\ faults' = faults + 1
    /\ UNCHANGED <<rec, age, pc, copy, getAge, cp, slot, ppc, canceled, batch, next, handled>>

\* lastSequenceNumber: how far the reader has come within its batch.
Position(c) == (IF next[c] = End THEN Last ELSE next[c]) - batch[c]

\* processRecords passes one record to the handler, whose errors are only logged.
Handle(c) ==
    /\ pc[c] = "handle" /\ ~canceled[c] /\ batch[c] > 0
    /\ handled' = handled \union {Position(c) + 1}
    /\ Goto(c, "advance")
    /\ UNCHANGED <<rec, age, copy, getAge, cp, slot, ppc, canceled, readVars, faults>>

AdvanceRecord(c) ==
    /\ pc[c] = "advance"
    /\ Advance(c, Position(c) + 1)
    /\ batch' = [batch EXCEPT ![c] = @ - 1]
    /\ Goto(c, "handle")
    /\ UNCHANGED <<rec, age, copy, getAge, slot, ppc, canceled, iter, next, handled, faults>>

\* The reader got the checkpoint from the slot just before the persister
\* released it: Advance finds the lock poisoned.
AdvanceFails(c) ==
    /\ pc[c] = "advance" /\ slot[c] = "nop" /\ cp[c].poisoned
    /\ Goto(c, "swap")
    /\ UNCHANGED <<rec, age, copy, getAge, cp, slot, ppc, canceled, readVars, handled, faults>>

\* Mutant: the iterator moves on whatever part of the batch was processed.
AlwaysAdvanced(c) == next[c]

\* Only after the whole batch does the iterator move on.
IteratorAfter(c) == IF batch[c] = 0 THEN next[c] ELSE iter[c]

\* processRecords returns, after the batch or because the context is done.
BatchDone(c) ==
    /\ pc[c] = "handle" /\ (batch[c] = 0 \/ canceled[c])
    /\ iter' = [iter EXCEPT ![c] = IteratorAfter(c)]
    /\ Goto(c, "fetch")
    /\ UNCHANGED <<rec, age, copy, getAge, cp, slot, ppc, canceled, batch, next, handled, faults>>

\* No iterator is left: the shard is done.
EndOfShard(c) ==
    /\ pc[c] = "fetch" /\ iter[c] = End
    /\ Done(c, Position(c))
    /\ Goto(c, "swap")
    /\ UNCHANGED <<rec, age, copy, getAge, slot, ppc, canceled, readVars, handled, faults>>

\* The context is done, or Kinesis fails: GetRecords or GetShardIterator return
\* an error.
LeaveCanceled(c) ==
    /\ pc[c] = "fetch" /\ iter[c] # End /\ canceled[c]
    /\ Goto(c, "swap")
    /\ UNCHANGED <<rec, age, copy, getAge, cp, slot, ppc, canceled, readVars, handled, faults>>

ReadFails(c) ==
    /\ pc[c] = "fetch" /\ iter[c] # End /\ faults < MaxFaults
    /\ faults' = faults + 1
    /\ Goto(c, "swap")
    /\ UNCHANGED <<rec, age, copy, getAge, cp, slot, ppc, canceled, readVars, handled>>

-----------------------------------------------------------------------------
(* Persist and Release, by the reader when it leaves and by the persister.  *)

\* The FinishedAt of the record Persist writes.
PersistsFinished(c) ==
    cp[c].done /\ (cp[c].seq = cp[c].final \/ cp[c].final = 0)

\* Persist on a checkpoint that is still owned.
DoPersist(c) ==
    /\ ~cp[c].poisoned /\ rec.owner = c
    /\ Write(c, cp[c].seq, PersistsFinished(c))
    /\ age' = 0

PersistFails(c) == cp[c].poisoned \/ rec.owner # c

\* Release removes the owner; the lock is poisoned even if we are not the owner.
DoRelease(c) ==
    /\ cp' = [cp EXCEPT ![c].poisoned = TRUE]
    /\ IF rec.owner = c
       THEN Write(Nobody, cp[c].seq, rec.finished) /\ age' = 0
       ELSE UNCHANGED <<rec, age>>

\* releaseCheckpoint of the reader: swap in the nop, persist, release.  It has
\* stopped the persister's context before.
ReaderSwap(c) ==
    /\ pc[c] = "swap"
    /\ slot' = [slot EXCEPT ![c] = "nop"]
    /\ canceled' = [canceled EXCEPT ![c] = TRUE]
    /\ Goto(c, IF slot[c] = "real" THEN "persist" ELSE "done")
    /\ UNCHANGED <<rec, age, copy, getAge, cp, ppc, readVars, handled, faults>>

ReaderPersist(c) ==
    /\ pc[c] = "persist"
    /\ \/ DoPersist(c) /\ Goto(c, "release")
       \/ PersistFails(c) /\ Goto(c, "down") /\ UNCHANGED <<rec, age>>
    /\ UNCHANGED <<copy, getAge, cp, slot, ppc, canceled, readVars, handled, faults>>

ReaderRelease(c) ==
    /\ pc[c] = "release"
    /\ DoRelease(c)
    /\ Goto(c, IF rec.owner = c THEN "done" ELSE "down")
    /\ UNCHANGED <<copy, getAge, slot, ppc, canceled, readVars, handled, faults>>

\* The persister's tick: it loads the slot before it calls Persist.
PersisterLoad(c) ==
    /\ ppc[c] = "idle" /\ slot[c] = "real"
    /\ ppc' = [ppc EXCEPT ![c] = "loaded"]
    /\ UNCHANGED <<rec, age, pc, copy, getAge, cp, slot, canceled, readVars, handled, faults>>

\* Persist succeeds; a finished shard is to be released.  A write that fails
\* because the context is done, whether it was applied or not, leads to the
\* release, too.
PersisterPersist(c) ==
    /\ ppc[c] = "loaded"
    /\ \/ /\ DoPersist(c)
          /\ ppc' = [ppc EXCEPT ![c] = IF PersistsFinished(c) THEN "swap" ELSE "idle"]
       \/ /\ canceled[c] /\ ~cp[c].poisoned
          /\ ppc' = [ppc EXCEPT ![c] = "swap"]
          /\ DoPersist(c) \/ UNCHANGED <<rec, age>>
    /\ UNCHANGED <<pc, copy, getAge, cp, slot, canceled, readVars, handled, faults>>

\* Persist fails: the error ends the coffin and so the reader.
PersisterFails(c) ==
    /\ ppc[c] = "loaded" /\ PersistFails(c)
    /\ ppc' = [ppc EXCEPT ![c] = "off"]
    /\ canceled' = [canceled EXCEPT ![c] = TRUE]
    /\ UNCHANGED <<rec, age, pc, copy, getAge, cp, slot, readVars, handled, faults>>

PersisterSwap(c) ==
    /\ ppc[c] = "swap"
    /\ slot' = [slot EXCEPT ![c] = "nop"]
    /\ ppc' = [ppc EXCEPT ![c] = IF slot[c] = "real" THEN "persist" ELSE "off"]
    /\ UNCHANGED <<rec, age, pc, copy, getAge, cp, canceled, readVars, handled, faults>>

PersisterFinal(c) ==
    /\ ppc[c] = "persist"
    /\ \/ DoPersist(c) /\ ppc' = [ppc EXCEPT ![c] = "release"] /\ UNCHANGED canceled
       \/ /\ PersistFails(c)
          /\ ppc' = [ppc EXCEPT ![c] = "off"]
          /\ canceled' = [canceled EXCEPT ![c] = TRUE]
          /\ UNCHANGED <<rec, age>>
    /\ UNCHANGED <<pc, copy, getAge, cp, slot, readVars, handled, faults>>

PersisterRelease(c) ==
    /\ ppc[c] = "release"
    /\ DoRelease(c)
    /\ ppc' = [ppc EXCEPT ![c] = "off"]
    /\ canceled' = [canceled EXCEPT ![c] = @ \/ rec.owner # c]
    /\ UNCHANGED <<pc, copy, getAge, slot, readVars, handled, faults>>

\* The persister sees that its context is done.
PersisterLeaves(c) ==
    /\ ppc[c] = "idle" /\ canceled[c]
    /\ ppc' = [ppc EXCEPT ![c] = "off"]
    /\ UNCHANGED <<rec, age, pc, copy, getAge, cp, slot, canceled, readVars, handled, faults>>

-----------------------------------------------------------------------------
(* The environment.                                                        *)

\* A client is told to stop, or restarts its consumers for new shards.
Cancel(c) ==
    /\ ~canceled[c] /\ pc[c] # "down" /\ faults < MaxFaults
    /\ canceled' = [canceled EXCEPT ![c] = TRUE]
    /\ faults' = faults + 1
    /\ UNCHANGED <<rec, age, pc, copy, getAge, cp, slot, ppc, readVars, handled>>

\* A canceled client that has nothing leaves.
LeaveIdle(c) ==
    /\ pc[c] = "idle" /\ canceled[c]
    /\ Goto(c, "done")
    /\ UNCHANGED <<rec, age, copy, getAge, cp, slot, ppc, canceled, readVars, handled, faults>>

\* A crash, or an error of DynamoDB that tears the client down.
Crash(c) ==
    /\ pc[c] \notin {"down", "done"} /\ faults < MaxFaults
    /\ Goto(c, "down")
    /\ ppc' = [ppc EXCEPT ![c] = "off"]
    /\ faults' = faults + 1
    /\ getAge' = [getAge EXCEPT ![c] = 0]
    /\ UNCHANGED <<rec, age, copy, cp, slot, canceled, readVars, handled>>

\* The kinsumer starts a reader again, unless it sees that the shard is finished
\* (IsShardFinished); all it has is the record.
Restart(c) ==
    /\ pc[c] \in {"down", "done"} /\ ppc[c] = "off" /\ ~rec.finished
    /\ Goto(c, "idle")
    /\ cp' = [cp EXCEPT ![c] = NoCheckpoint]
    /\ slot' = [slot EXCEPT ![c] = "nop"]
    /\ canceled' = [canceled EXCEPT ![c] = FALSE]
    /\ copy' = [copy EXCEPT ![c] = 0]
    /\ iter' = [iter EXCEPT ![c] = 0]
    /\ batch' = [batch EXCEPT ![c] = 0]
    /\ next' = [next EXCEPT ![c] = 0]
    /\ UNCHANGED <<rec, age, getAge, ppc, handled, faults>>

Alive(c) == pc[c] \notin {"idle", "put", "done", "down"}

Tick ==
    /\ \A c \in Clients : pc[c] = "put" => getAge[c] < MaxStall
    /\ rec.owner \in Timely /\ Alive(rec.owner) => age + 1 < Timeout
    /\ age' = IF age < Timeout + MaxStall THEN age + 1 ELSE age
    /\ getAge' = [c \in Clients |-> IF pc[c] = "put" THEN getAge[c] + 1 ELSE getAge[c]]
    /\ UNCHANGED <<rec, pc, copy, cp, slot, ppc, canceled, readVars, handled, faults>>

-----------------------------------------------------------------------------
Reader(c) ==
    \/ AcquireGet(c) \/ AcquirePut(c) \/ AcquireUndo(c) \/ Acquired(c) \/ LeaveIdle(c)
    \/ Fetch(c) \/ Handle(c) \/ AdvanceRecord(c) \/ AdvanceFails(c) \/ BatchDone(c)
    \/ EndOfShard(c) \/ LeaveCanceled(c)
    \/ ReaderSwap(c) \/ ReaderPersist(c) \/ ReaderRelease(c)

Persister(c) ==
    \/ PersisterLoad(c) \/ PersisterPersist(c) \/ PersisterFails(c) \/ PersisterLeaves(c)
    \/ PersisterSwap(c) \/ PersisterFinal(c) \/ PersisterRelease(c)

Next ==
    \/ \E c \in Clients : \/ Reader(c) \/ Persister(c) \/ Cancel(c) \/ Crash(c) \/ Restart(c)
                          \/ ReadFails(c) \/ IteratorExpires(c)
    \/ Tick

\* Goroutines that can run do, clients that left come back, time passes.
Fairness ==
    /\ \A c \in Clients : WF_vars(Reader(c)) /\ WF_vars(Persister(c)) /\ WF_vars(Restart(c))
    /\ WF_vars(Tick)

Spec == Init /\ [][Next]_vars /\ Fairness

-----------------------------------------------------------------------------
(* Properties.                                                             *)

TypeOK ==
    /\ rec \in [owner : Clients \union {Nobody}, seq : Seqs, finished : BOOLEAN]
    /\ age \in 0..(Timeout + MaxStall)
    /\ pc \in [Clients -> {"idle", "put", "acquired", "fetch", "handle", "advance", "swap",
                           "persist", "release", "done", "down"}]
    /\ copy \in [Clients -> Seqs]
    /\ getAge \in [Clients -> 0..MaxStall]
    /\ cp \in [Clients -> [seq : Seqs, final : Seqs, done : BOOLEAN, poisoned : BOOLEAN]]
    /\ slot \in [Clients -> {"real", "nop"}]
    /\ ppc \in [Clients -> {"off", "idle", "loaded", "swap", "persist", "release"}]
    /\ canceled \in [Clients -> BOOLEAN]
    /\ iter \in [Clients -> 0..End]
    /\ batch \in [Clients -> 0..MaxBatch]
    /\ next \in [Clients -> 0..End]
    /\ handled \subseteq 1..Last
    /\ faults \in 0..MaxFaults

\* At least once: whatever was persisted, overtaken or overwritten, the record
\* never claims a sequence number whose records were not all passed to a handler.
CheckpointCovered == 1..rec.seq \subseteq handled

\* A shard is only marked as finished when all of its records were passed to a
\* handler, also if a reader was canceled within the last batch.
FinishedMeansHandled == rec.finished => handled = 1..Last

\* No two clients read the shard at once, however their GetItem and PutItem calls
\* interleave with releases and takeovers, unless one of them did not persist in
\* time, and that one does not own the shard any more.  (A canceled reader passes
\* nothing more to the handler; a record still in work there may overlap with the
\* next owner.)
Reading(c) == ~canceled[c] /\ pc[c] \in {"fetch", "handle", "advance"}
Overtaken(c) == c \notin Timely /\ rec.owner # c
ExclusiveRead ==
    \A c, d \in Clients : Reading(c) /\ Reading(d) => c = d \/ Overtaken(c) \/ Overtaken(d)

\* As long as clients come back and time passes, the shard gets finished: a
\* crashed owner is overtaken and a released shard is acquired again.
EventuallyFinished == <>rec.finished
=============================================================================
