-------------------------- MODULE ShardReaderProofs --------------------------
(***************************************************************************)
(* Proofs about ShardReader, for every number of clients, shard length,      *)
(* batch size, timeout and number of faults.  No record is skipped by a      *)
(* checkpoint, and only a shard that was handled to its end is marked as     *)
(* finished, without assuming that owners persist in time; clients that do   *)
(* are not overtaken, and no two of them read at once.                       *)
(***************************************************************************)
EXTENDS ShardReader, TLAPS

\* All records up to a sequence number were passed to a handler.
Upto(n) == \A k \in 1..n : k \in handled

\* The last record before an iterator; all of them are before the missing one.
Before(i) == IF i = End THEN Last ELSE i

\* What a client knows about the shard is true: the number it has read from the
\* record, its checkpoint, its iterator and its place within the batch.
ReaderInv(c) ==
    /\ Upto(copy[c])
    /\ Upto(cp[c].seq)
    /\ cp[c].done => Upto(Last)
    /\ Upto(Before(iter[c]))
    /\ batch[c] <= Before(next[c])
    /\ Upto(Position(c))
    /\ pc[c] = "advance" => batch[c] > 0 /\ Position(c) + 1 \in handled

RecordInv == Upto(rec.seq) /\ (rec.finished => Upto(Last))

ShardInv == TypeOK /\ RecordInv /\ \A c \in Clients : ReaderInv(c)

LEMMA Numbers ==
    /\ Last \in Nat /\ Last > 0 /\ MaxBatch \in Nat /\ Timeout \in Nat
    /\ MaxStall \in Nat /\ MaxFaults \in Nat /\ Nobody \notin Clients
  BY ShardAssumption DEF ShardAssumption

LEMMA InvInit == Init => ShardInv
<1> SUFFICES ASSUME Init PROVE ShardInv
  OBVIOUS
<1>1. TypeOK
  BY Numbers DEF Init, TypeOK, NoCheckpoint, Seqs, End
<1>2. RecordInv
  BY Numbers DEF Init, RecordInv, Upto
<1>3. ASSUME NEW c \in Clients PROVE ReaderInv(c)
  BY Numbers DEF Init, ReaderInv, Upto, Before, Position, NoCheckpoint, End
<1> QED
  BY <1>1, <1>2, <1>3 DEF ShardInv

-----------------------------------------------------------------------------
(* Positions.                                                              *)

\* Within a batch the reader stands before the batch's last record.
LEMMA Positions ==
    ASSUME ShardInv, NEW c \in Clients
    PROVE  /\ Before(next[c]) \in Seqs /\ Before(iter[c]) \in Seqs
           /\ batch[c] \in Nat /\ Position(c) \in Seqs
           /\ Position(c) = Before(next[c]) - batch[c]
<1>1. /\ next[c] \in 0..(Last + 1) /\ iter[c] \in 0..(Last + 1) /\ batch[c] \in 0..MaxBatch
      /\ batch[c] <= Before(next[c])
  BY DEF ShardInv, TypeOK, ReaderInv, End
<1>2. Before(next[c]) \in 0..Last /\ Before(iter[c]) \in 0..Last
  BY <1>1, Numbers DEF Before, End
<1>3. Position(c) = Before(next[c]) - batch[c]
  BY DEF Position, Before
<1> QED
  BY <1>1, <1>2, <1>3, Numbers DEF Seqs

-----------------------------------------------------------------------------
(* Types.                                                                  *)

Records == [owner : Clients \union {Nobody}, seq : Seqs, finished : BOOLEAN]
Checkpoints == [seq : Seqs, final : Seqs, done : BOOLEAN, poisoned : BOOLEAN]

\* The types of what is written to the record.
LEMMA WriteTypes ==
    ASSUME NEW o \in Clients \union {Nobody}, NEW n \in Seqs, NEW f \in BOOLEAN, Write(o, n, f)
    PROVE  rec' \in Records
  BY DEF Write, Records

LEMMA PersistTypes ==
    ASSUME TypeOK, NEW c \in Clients, DoPersist(c)
    PROVE  rec' \in Records /\ age' = 0
<1>1. cp[c].seq \in Seqs /\ PersistsFinished(c) \in BOOLEAN
  BY DEF TypeOK, PersistsFinished
<1> QED
  BY <1>1, WriteTypes DEF DoPersist

LEMMA ReleaseTypes ==
    ASSUME TypeOK, NEW c \in Clients, DoRelease(c)
    PROVE  /\ rec' \in Records /\ age' \in {0, age}
           /\ cp' \in [Clients -> Checkpoints]
<1>1. cp[c].seq \in Seqs /\ rec.finished \in BOOLEAN /\ rec \in Records
  BY DEF TypeOK, Records
<1>2. rec' \in Records /\ age' \in {0, age}
  BY <1>1, WriteTypes DEF DoRelease
<1>3. cp' \in [Clients -> Checkpoints]
  BY DEF DoRelease, TypeOK, Checkpoints
<1> QED
  BY <1>2, <1>3

\* The readers' steps within a shard and their calls keep the types; a position in
\* a batch is a sequence number because the batch is not longer than what is before
\* the next iterator.
LEMMA TypeStep ==
    ASSUME ShardInv, [Next]_vars
    PROVE  TypeOK'
<1>0. TypeOK
  BY DEF ShardInv
<1> USE Numbers DEF TypeOK, readVars, Goto, Write, Seqs, End
<1>1. ASSUME NEW c \in Clients, Reader(c)
      PROVE  TypeOK'
  <2>1. CASE AcquireGet(c)
    <3>0. rec.seq \in 0..Last /\ 0 \in 0..MaxStall
      BY <1>0
    <3>1. copy' \in [Clients -> 0..Last] /\ getAge' \in [Clients -> 0..MaxStall]
      <4>1. \/ copy' = copy /\ getAge' = getAge
            \/ copy' = [copy EXCEPT ![c] = rec.seq] /\ getAge' = [getAge EXCEPT ![c] = 0]
        BY <2>1 DEF AcquireGet
      <4>2. copy \in [Clients -> 0..Last] /\ getAge \in [Clients -> 0..MaxStall]
        BY <1>0
      <4> QED
        BY <3>0, <4>1, <4>2
    <3>2. pc' \in [Clients -> {"idle", "put", "acquired", "fetch", "handle", "advance", "swap",
                             "persist", "release", "done", "down"}]
      BY <1>0, <2>1 DEF AcquireGet
    <3> QED
      BY <1>0, <2>1, <3>1, <3>2 DEF AcquireGet
  <2>2. CASE AcquirePut(c)
    <3>1. rec' \in Records
      BY <1>0, <2>2, WriteTypes DEF AcquirePut, Records
    <3>2. age' \in 0..(Timeout + MaxStall)
      BY <1>0, <2>2 DEF AcquirePut
    <3> QED
      BY <1>0, <2>2, <3>1, <3>2 DEF AcquirePut, Records
  <2>3. CASE AcquireUndo(c)
    <3>1. rec' \in Records
      BY <1>0, <2>3, WriteTypes DEF AcquireUndo, Records
    <3>2. age' \in 0..(Timeout + MaxStall)
      BY <1>0, <2>3 DEF AcquireUndo
    <3> QED
      BY <1>0, <2>3, <3>1, <3>2 DEF AcquireUndo, Records
  <2>4. CASE Acquired(c)
    BY <1>0, <2>4 DEF Acquired
  <2>5. CASE LeaveIdle(c)
    BY <1>0, <2>5 DEF LeaveIdle
  <2>6. CASE Fetch(c)
    BY <1>0, <2>6 DEF Fetch
  <2>7. CASE Handle(c)
    <3>1. Position(c) + 1 \in 1..Last
      BY <2>7, Positions DEF Handle, Before
    <3> QED
      BY <1>0, <2>7, <3>1 DEF Handle
  <2>8. CASE AdvanceRecord(c)
    <3>1. Position(c) + 1 \in Seqs /\ batch[c] - 1 \in 0..MaxBatch
      BY <1>0, <2>8, Positions DEF AdvanceRecord, Before, ShardInv, ReaderInv
    <3> QED
      BY <1>0, <2>8, <3>1 DEF AdvanceRecord, Advance
  <2>9. CASE AdvanceFails(c)
    BY <1>0, <2>9 DEF AdvanceFails
  <2>10. CASE BatchDone(c)
    BY <1>0, <2>10 DEF BatchDone, IteratorAfter
  <2>11. CASE EndOfShard(c)
    <3>0. Position(c) \in Seqs
      BY Positions
    <3>1. cp' \in [Clients -> Checkpoints]
      <4> DEFINE x == [cp EXCEPT ![c].done = TRUE]
      <4>1. cp \in [Clients -> Checkpoints]
        BY <1>0 DEF Checkpoints
      <4>2. cp' = cp \/ cp' = [x EXCEPT ![c].final = Position(c)]
        BY <2>11 DEF EndOfShard, Done
      <4>3. x \in [Clients -> Checkpoints]
        BY <4>1 DEF Checkpoints
      <4> HIDE DEF x
      <4> QED
        BY <3>0, <4>1, <4>2, <4>3 DEF Checkpoints
    <3> QED
      BY <1>0, <2>11, <3>1 DEF EndOfShard, Checkpoints
  <2>12. CASE LeaveCanceled(c)
    BY <1>0, <2>12 DEF LeaveCanceled
  <2>13. CASE ReaderSwap(c)
    BY <1>0, <2>13 DEF ReaderSwap
  <2>14. CASE ReaderPersist(c)
    <3>1. rec' \in Records /\ age' \in 0..(Timeout + MaxStall)
      BY <1>0, <2>14, PersistTypes DEF ReaderPersist, Records
    <3> QED
      BY <1>0, <2>14, <3>1 DEF ReaderPersist, Records
  <2>15. CASE ReaderRelease(c)
    <3>1. rec' \in Records /\ age' \in 0..(Timeout + MaxStall)
      BY <1>0, <2>15, ReleaseTypes DEF ReaderRelease, Records
    <3> QED
      BY <1>0, <2>15, <3>1, ReleaseTypes DEF ReaderRelease, Records, Checkpoints
  <2> QED
    BY <1>1, <2>1, <2>2, <2>3, <2>4, <2>5, <2>6, <2>7, <2>8, <2>9, <2>10, <2>11, <2>12, <2>13,
      <2>14, <2>15 DEF Reader
<1>2. ASSUME NEW c \in Clients, Persister(c)
      PROVE  TypeOK'
  <2>1. CASE PersisterLoad(c)
    BY <1>0, <2>1 DEF PersisterLoad
  <2>2. CASE PersisterPersist(c)
    <3>1. rec' \in Records /\ age' \in 0..(Timeout + MaxStall)
      BY <1>0, <2>2, PersistTypes DEF PersisterPersist, Records
    <3> QED
      BY <1>0, <2>2, <3>1 DEF PersisterPersist, Records
  <2>3. CASE PersisterFails(c)
    BY <1>0, <2>3 DEF PersisterFails
  <2>4. CASE PersisterLeaves(c)
    BY <1>0, <2>4 DEF PersisterLeaves
  <2>5. CASE PersisterSwap(c)
    BY <1>0, <2>5 DEF PersisterSwap
  <2>6. CASE PersisterFinal(c)
    <3>1. rec' \in Records /\ age' \in 0..(Timeout + MaxStall)
      BY <1>0, <2>6, PersistTypes DEF PersisterFinal, Records
    <3> QED
      BY <1>0, <2>6, <3>1 DEF PersisterFinal, Records
  <2>7. CASE PersisterRelease(c)
    <3>1. rec' \in Records /\ age' \in 0..(Timeout + MaxStall)
      BY <1>0, <2>7, ReleaseTypes DEF PersisterRelease, Records
    <3> QED
      BY <1>0, <2>7, <3>1, ReleaseTypes DEF PersisterRelease, Records, Checkpoints
  <2> QED
    BY <1>2, <2>1, <2>2, <2>3, <2>4, <2>5, <2>6, <2>7 DEF Persister
<1>3. ASSUME NEW c \in Clients, Cancel(c) \/ ReadFails(c) \/ IteratorExpires(c) \/ Crash(c)
      PROVE  TypeOK'
  <2>1. CASE Cancel(c)
    BY <1>0, <2>1 DEF Cancel
  <2>2. CASE ReadFails(c)
    BY <1>0, <2>2 DEF ReadFails
  <2>3. CASE Crash(c)
    BY <1>0, <2>3 DEF Crash
  <2>4. CASE IteratorExpires(c)
    BY <1>0, <2>4 DEF IteratorExpires, SlotPosition
  <2> QED
    BY <1>3, <2>1, <2>2, <2>3, <2>4
<1>4. ASSUME NEW c \in Clients, Restart(c)
      PROVE  TypeOK'
  BY <1>0, <1>4 DEF Restart, NoCheckpoint
<1>5. CASE Tick
  BY <1>0, <1>5 DEF Tick
<1>6. CASE UNCHANGED vars
  BY <1>0, <1>6 DEF vars
<1> QED
  BY <1>1, <1>2, <1>3, <1>4, <1>5, <1>6 DEF Next

-----------------------------------------------------------------------------
(* The record.                                                             *)

\* What a step of a client writes to the record: what it has read from there, or its
\* checkpoint, as finished only if the checkpoint is done or the record was finished.
Written(c) ==
    \/ rec' = rec
    \/ rec'.seq = copy[c] /\ ~rec'.finished
    \/ rec'.seq = cp[c].seq /\ (rec'.finished => cp[c].done \/ rec.finished)

ClientStep(c) ==
    Reader(c) \/ Persister(c) \/ Cancel(c) \/ ReadFails(c) \/ IteratorExpires(c) \/ Crash(c) \/ Restart(c)

LEMMA PersistWrites ==
    ASSUME TypeOK, NEW c \in Clients, DoPersist(c)
    PROVE  Written(c)
  BY DEF DoPersist, Write, Written, PersistsFinished, TypeOK

LEMMA ReleaseWrites ==
    ASSUME TypeOK, NEW c \in Clients, DoRelease(c)
    PROVE  Written(c)
  BY DEF DoRelease, Write, Written, TypeOK

LEMMA StepWrites ==
    ASSUME TypeOK, NEW c \in Clients, ClientStep(c)
    PROVE  Written(c)
<1>1. CASE Reader(c)
  <2>1. CASE AcquirePut(c) \/ AcquireUndo(c)
    BY <2>1 DEF AcquirePut, AcquireUndo, Write, Written
  <2>2. CASE ReaderPersist(c)
    BY <2>2, PersistWrites DEF ReaderPersist, Written
  <2>3. CASE ReaderRelease(c)
    BY <2>3, ReleaseWrites DEF ReaderRelease
  <2> QED
    BY <1>1, <2>1, <2>2, <2>3 DEF Reader, AcquireGet, Acquired, LeaveIdle, Fetch, Handle, AdvanceRecord,
      AdvanceFails, BatchDone, EndOfShard, LeaveCanceled, ReaderSwap, Written
<1>2. CASE Persister(c)
  <2>1. CASE PersisterPersist(c) \/ PersisterFinal(c)
    BY <2>1, PersistWrites DEF PersisterPersist, PersisterFinal, Written
  <2>2. CASE PersisterRelease(c)
    BY <2>2, ReleaseWrites DEF PersisterRelease
  <2> QED
    BY <1>2, <2>1, <2>2 DEF Persister, PersisterLoad, PersisterFails, PersisterLeaves, PersisterSwap, Written
<1>3. CASE Cancel(c) \/ ReadFails(c) \/ IteratorExpires(c) \/ Crash(c) \/ Restart(c)
  BY <1>3 DEF Cancel, ReadFails, IteratorExpires, Crash, Restart, Written
<1> QED
  BY <1>1, <1>2, <1>3 DEF ClientStep

\* What was passed to a handler stays so.
LEMMA HandledGrows ==
    ASSUME [Next]_vars
    PROVE  handled \subseteq handled'
<1>1. ASSUME NEW c \in Clients, Reader(c)
      PROVE  handled \subseteq handled'
  BY <1>1 DEF Reader, AcquireGet, AcquirePut, AcquireUndo, Acquired, LeaveIdle, Fetch, Handle, AdvanceRecord,
    AdvanceFails, BatchDone, EndOfShard, LeaveCanceled, ReaderSwap, ReaderPersist, ReaderRelease
<1>2. ASSUME NEW c \in Clients, Persister(c)
      PROVE  handled \subseteq handled'
  BY <1>2 DEF Persister, PersisterLoad, PersisterPersist, PersisterFails, PersisterLeaves,
    PersisterSwap, PersisterFinal, PersisterRelease
<1> QED
  BY <1>1, <1>2 DEF Next, Cancel, ReadFails, IteratorExpires, Crash, Restart, Tick, vars

LEMMA RecordStep ==
    ASSUME ShardInv, [Next]_vars
    PROVE  RecordInv'
<1>1. handled \subseteq handled'
  BY HandledGrows
<1>2. ASSUME NEW c \in Clients, ClientStep(c)
      PROVE  RecordInv'
  <2>1. Written(c)
    BY <1>2, StepWrites DEF ShardInv
  <2> QED
    BY <1>1, <2>1 DEF Written, ShardInv, RecordInv, ReaderInv, Upto
<1>3. CASE Tick \/ UNCHANGED vars
  <2>1. rec' = rec
    BY <1>3 DEF Tick, vars
  <2> QED
    BY <1>1, <2>1 DEF ShardInv, RecordInv, Upto
<1> QED
  BY <1>2, <1>3 DEF Next, ClientStep

-----------------------------------------------------------------------------
(* The readers.                                                            *)

\* Nothing a client knows is changed by a step.
Keeps(c) ==
    /\ copy'[c] = copy[c] /\ cp'[c].seq = cp[c].seq /\ cp'[c].done = cp[c].done
    /\ iter'[c] = iter[c] /\ batch'[c] = batch[c] /\ next'[c] = next[c]
    /\ pc'[c] = pc[c] \/ pc'[c] # "advance"

LEMMA KeepsInv ==
    ASSUME ShardInv, NEW c \in Clients, Keeps(c), handled \subseteq handled'
    PROVE  ReaderInv(c)'
<1>1. Position(c)' = Position(c) /\ Before(iter[c])' = Before(iter[c]) /\ Before(next[c])' = Before(next[c])
  BY DEF Keeps, Position, Before
<1> QED
  BY <1>1 DEF Keeps, ShardInv, ReaderInv, Upto

\* A step of another client leaves a client alone.
LEMMA OthersKeep ==
    ASSUME TypeOK, NEW c \in Clients, NEW d \in Clients, c # d, ClientStep(c)
    PROVE  Keeps(d)
<1> USE DEF Keeps, Goto, readVars, TypeOK
<1>1. CASE Reader(c)
  <2>1. CASE ReaderRelease(c)
    BY <2>1 DEF ReaderRelease, DoRelease
  <2>2. CASE AdvanceRecord(c) \/ EndOfShard(c)
    BY <2>2 DEF AdvanceRecord, EndOfShard, Advance, Done
  <2>3. CASE Fetch(c) \/ Acquired(c) \/ BatchDone(c)
    BY <2>3 DEF Fetch, Acquired, BatchDone
  <2>4. CASE AcquireGet(c) \/ AcquirePut(c) \/ AcquireUndo(c) \/ LeaveIdle(c)
    BY <2>4 DEF AcquireGet, AcquirePut, AcquireUndo, LeaveIdle
  <2>5. CASE Handle(c) \/ AdvanceFails(c) \/ LeaveCanceled(c) \/ ReaderSwap(c) \/ ReaderPersist(c)
    BY <2>5 DEF Handle, AdvanceFails, LeaveCanceled, ReaderSwap, ReaderPersist
  <2> QED
    BY <1>1, <2>1, <2>2, <2>3, <2>4, <2>5 DEF Reader
<1>2. CASE Persister(c)
  BY <1>2 DEF Persister, PersisterLoad, PersisterPersist, PersisterFails, PersisterLeaves,
    PersisterSwap, PersisterFinal, PersisterRelease, DoRelease
<1>3. CASE Cancel(c) \/ ReadFails(c) \/ IteratorExpires(c) \/ Crash(c) \/ Restart(c)
  BY <1>3 DEF Cancel, ReadFails, IteratorExpires, Crash, Restart
<1> QED
  BY <1>1, <1>2, <1>3 DEF ClientStep

\* Steps of a client that leave what it knows as it is.
LEMMA OwnKeep ==
    ASSUME TypeOK, NEW c \in Clients,
           \/ Persister(c) \/ Cancel(c) \/ ReadFails(c) \/ Crash(c)
           \/ AcquirePut(c) \/ AcquireUndo(c) \/ LeaveIdle(c) \/ AdvanceFails(c) \/ LeaveCanceled(c)
           \/ ReaderSwap(c) \/ ReaderPersist(c) \/ ReaderRelease(c)
    PROVE  Keeps(c)
<1> USE DEF Keeps, Goto, readVars, TypeOK
<1>1. CASE Persister(c)
  BY <1>1 DEF Persister, PersisterLoad, PersisterPersist, PersisterFails, PersisterLeaves,
    PersisterSwap, PersisterFinal, PersisterRelease, DoRelease
<1>2. CASE Cancel(c) \/ ReadFails(c) \/ Crash(c)
  BY <1>2 DEF Cancel, ReadFails, Crash
<1>3. CASE AcquirePut(c) \/ AcquireUndo(c) \/ LeaveIdle(c) \/ AdvanceFails(c) \/ LeaveCanceled(c)
  BY <1>3 DEF AcquirePut, AcquireUndo, LeaveIdle, AdvanceFails, LeaveCanceled
<1>4. CASE ReaderSwap(c) \/ ReaderPersist(c)
  BY <1>4 DEF ReaderSwap, ReaderPersist
<1>5. CASE ReaderRelease(c)
  BY <1>5 DEF ReaderRelease, DoRelease
<1> QED
  BY <1>1, <1>2, <1>3, <1>4, <1>5

\* The steps that change what a client knows: it reads the record, acquires the
\* shard, fetches, handles and advances, and sees the end of the shard.
LEMMA OwnStep ==
    ASSUME ShardInv, NEW c \in Clients, TypeOK', handled \subseteq handled',
           \/ AcquireGet(c) \/ Acquired(c) \/ Fetch(c) \/ Handle(c) \/ AdvanceRecord(c)
           \/ BatchDone(c) \/ EndOfShard(c) \/ Restart(c) \/ IteratorExpires(c)
    PROVE  ReaderInv(c)'
<1>0. TypeOK /\ ReaderInv(c) /\ RecordInv
  BY DEF ShardInv
<1>1. /\ Before(next[c]) \in Seqs /\ Before(iter[c]) \in Seqs /\ batch[c] \in Nat
      /\ Position(c) \in Seqs /\ Position(c) = Before(next[c]) - batch[c]
  BY Positions
<1> USE DEF Goto, readVars
<1>2. CASE AcquireGet(c)
  <2>1. /\ copy'[c] \in {copy[c], rec.seq} /\ pc'[c] # "advance"
        /\ cp' = cp /\ iter' = iter /\ batch' = batch /\ next' = next /\ handled' = handled
    BY <1>0, <1>2 DEF AcquireGet, TypeOK
  <2>2. Position(c)' = Position(c) /\ Before(iter[c])' = Before(iter[c]) /\ Before(next[c])' = Before(next[c])
    BY <2>1 DEF Position, Before
  <2> QED
    BY <1>0, <2>1, <2>2 DEF ReaderInv, RecordInv, Upto
<1>3. CASE Acquired(c)
  <2>1. /\ cp'[c] = [seq |-> copy[c], final |-> 0, done |-> FALSE, poisoned |-> FALSE]
        /\ copy' = copy /\ iter'[c] = copy[c] /\ next'[c] = copy[c] /\ batch'[c] = 0
        /\ pc'[c] = "fetch" /\ handled' = handled
    BY <1>0, <1>3 DEF Acquired, TypeOK
  <2>2. copy[c] \in 0..Last /\ copy[c] # End
    BY <1>0, Numbers DEF TypeOK, Seqs, End
  <2>3. Before(iter[c])' = copy[c] /\ Before(next[c])' = copy[c] /\ Position(c)' = copy[c]
    BY <2>1, <2>2 DEF Before, Position
  <2> QED
    BY <1>0, <2>1, <2>2, <2>3 DEF ReaderInv, Upto
<1>4. CASE Fetch(c)
  <2>1. /\ copy' = copy /\ cp' = cp /\ iter' = iter /\ handled' = handled /\ pc'[c] = "handle"
        /\ iter[c] \in 0..Last /\ batch'[c] \in Nat
        /\ \/ next'[c] = iter[c] + batch'[c] /\ next'[c] <= Last
           \/ next'[c] = End /\ iter[c] + batch'[c] = Last
    BY <1>0, <1>4 DEF Fetch, TypeOK, Seqs
  <2>2. Before(iter[c])' = iter[c] /\ Before(iter[c]) = iter[c]
    BY <2>1, Numbers DEF Before, End
  <2>3. Before(next[c])' = iter[c] + batch'[c] /\ Position(c)' = iter[c]
    BY <2>1, Numbers DEF Before, Position, End
  <2> QED
    BY <1>0, <2>1, <2>2, <2>3 DEF ReaderInv, Upto
<1>5. CASE Handle(c)
  <2>1. /\ copy' = copy /\ cp' = cp /\ iter' = iter /\ next' = next /\ batch' = batch
        /\ batch[c] > 0 /\ Position(c) + 1 \in handled'
    BY <1>5 DEF Handle
  <2>2. Position(c)' = Position(c) /\ Before(iter[c])' = Before(iter[c]) /\ Before(next[c])' = Before(next[c])
    BY <2>1 DEF Position, Before
  <2> QED
    BY <1>0, <2>1, <2>2 DEF ReaderInv, Upto
<1>6. CASE AdvanceRecord(c)
  <2>1. /\ copy' = copy /\ iter' = iter /\ next' = next /\ handled' = handled
        /\ batch'[c] = batch[c] - 1 /\ pc'[c] = "handle" /\ pc[c] = "advance"
        /\ cp'[c].seq \in {cp[c].seq, Position(c) + 1} /\ cp'[c].done = cp[c].done
    BY <1>0, <1>6 DEF AdvanceRecord, Advance, TypeOK
  <2>2. batch[c] > 0 /\ Position(c) + 1 \in handled /\ Upto(Position(c))
    BY <1>0, <2>1 DEF ReaderInv
  <2>3. /\ Before(iter[c])' = Before(iter[c]) /\ Before(next[c])' = Before(next[c])
        /\ Position(c)' = Position(c) + 1
    <3>1. Before(iter[c])' = Before(iter[c]) /\ Before(next[c])' = Before(next[c])
      BY <2>1 DEF Before
    <3>2. Position(c)' = Before(next[c]) - batch'[c]
      BY <2>1 DEF Position, Before
    <3> QED
      BY <1>1, <2>1, <3>1, <3>2 DEF Seqs
  <2>4. Upto(Position(c) + 1)
    BY <1>1, <2>2 DEF Upto, Seqs
  <2>5. batch'[c] <= Before(next[c])
    BY <1>0, <1>1, <2>1 DEF ReaderInv, Seqs
  <2> QED
    BY <1>0, <2>1, <2>3, <2>4, <2>5 DEF ReaderInv, Upto
<1>7. CASE BatchDone(c)
  <2>1. /\ copy' = copy /\ cp' = cp /\ next' = next /\ batch' = batch /\ handled' = handled
        /\ pc'[c] = "fetch"
        /\ \/ iter'[c] = iter[c]
           \/ iter'[c] = next[c] /\ batch[c] = 0
    BY <1>0, <1>7 DEF BatchDone, IteratorAfter, TypeOK
  <2>2. Position(c)' = Position(c) /\ Before(next[c])' = Before(next[c])
    BY <2>1 DEF Before, Position
  <2>3. Before(iter[c])' \in {Before(iter[c]), Position(c)}
    BY <1>1, <2>1 DEF Before, Seqs
  <2> QED
    BY <1>0, <2>1, <2>2, <2>3 DEF ReaderInv, Upto
<1>8. CASE EndOfShard(c)
  <2>1. /\ copy' = copy /\ iter' = iter /\ next' = next /\ batch' = batch /\ handled' = handled
        /\ pc'[c] = "swap" /\ iter[c] = End /\ cp'[c].seq = cp[c].seq
    BY <1>0, <1>8 DEF EndOfShard, Done, TypeOK
  <2>2. /\ Position(c)' = Position(c) /\ Before(iter[c])' = Before(iter[c])
        /\ Before(next[c])' = Before(next[c]) /\ Before(iter[c]) = Last
    BY <2>1 DEF Before, Position
  <2> QED
    BY <1>0, <2>1, <2>2 DEF ReaderInv, Upto
<1>9. CASE Restart(c)
  <2>1. /\ cp'[c] = NoCheckpoint /\ copy'[c] = 0 /\ iter'[c] = 0 /\ next'[c] = 0 /\ batch'[c] = 0
        /\ pc'[c] = "idle"
    BY <1>0, <1>9 DEF Restart, TypeOK
  <2>2. Before(iter[c])' = 0 /\ Before(next[c])' = 0 /\ Position(c)' = 0
    BY <2>1, Numbers DEF Before, Position, End
  <2> QED
    BY <2>1, <2>2 DEF ReaderInv, Upto, NoCheckpoint
<1>10. CASE IteratorExpires(c)
  <2>1. /\ copy' = copy /\ cp' = cp /\ next' = next /\ batch' = batch /\ handled' = handled
        /\ pc' = pc /\ pc[c] = "fetch" /\ iter'[c] \in {cp[c].seq, 0}
    BY <1>0, <1>10 DEF IteratorExpires, SlotPosition, TypeOK
  <2>2. Position(c)' = Position(c) /\ Before(next[c])' = Before(next[c])
    BY <2>1 DEF Before, Position
  <2>3. cp[c].seq \in 0..Last /\ cp[c].seq # End /\ 0 # End
    BY <1>0, Numbers DEF TypeOK, Seqs, End
  <2>4. Before(iter[c])' \in {cp[c].seq, 0}
    BY <2>1, <2>3 DEF Before
  <2> QED
    BY <1>0, <2>1, <2>2, <2>3, <2>4 DEF ReaderInv, Upto
<1> QED
  BY <1>2, <1>3, <1>4, <1>5, <1>6, <1>7, <1>8, <1>9, <1>10

LEMMA InvStep ==
    ASSUME ShardInv, [Next]_vars
    PROVE  ShardInv'
<1>1. TypeOK' /\ RecordInv' /\ handled \subseteq handled' /\ TypeOK
  BY TypeStep, RecordStep, HandledGrows DEF ShardInv
<1>2. ASSUME NEW d \in Clients
      PROVE  ReaderInv(d)'
  <2>1. ASSUME NEW c \in Clients, ClientStep(c), c # d
        PROVE  ReaderInv(d)'
    BY <1>1, <2>1, OthersKeep, KeepsInv
  <2>2. ASSUME ClientStep(d)
        PROVE  ReaderInv(d)'
    <3>1. CASE \/ AcquireGet(d) \/ Acquired(d) \/ Fetch(d) \/ Handle(d) \/ AdvanceRecord(d)
               \/ BatchDone(d) \/ EndOfShard(d) \/ Restart(d) \/ IteratorExpires(d)
      BY <1>1, <3>1, OwnStep
    <3>2. CASE \/ Persister(d) \/ Cancel(d) \/ ReadFails(d) \/ Crash(d)
               \/ AcquirePut(d) \/ AcquireUndo(d) \/ LeaveIdle(d) \/ AdvanceFails(d) \/ LeaveCanceled(d)
               \/ ReaderSwap(d) \/ ReaderPersist(d) \/ ReaderRelease(d)
      BY <1>1, <3>2, OwnKeep, KeepsInv
    <3> QED
      BY <2>2, <3>1, <3>2 DEF ClientStep, Reader
  <2>3. CASE Tick \/ UNCHANGED vars
    <3>1. Keeps(d)
      BY <2>3 DEF Keeps, Tick, vars, readVars
    <3> QED
      BY <1>1, <3>1, KeepsInv
  <2> QED
    BY <2>1, <2>2, <2>3 DEF Next, ClientStep
<1> QED
  BY <1>1, <1>2 DEF ShardInv

-----------------------------------------------------------------------------
(* Exclusive reading by the clients that persist in time.                  *)

\* A timely client that has acquired the shard, and is not told to stop reading.
Holds(c) == c \in Timely /\ (pc[c] = "acquired" \/ Reading(c))

\* A persister only gives the shard back when the reader is past its end or canceled,
\* and there is no persister before the shard is acquired.
PhaseInv(c) ==
    /\ Holds(c) => rec.owner = c
    /\ ppc[c] \in {"swap", "persist", "release"} => canceled[c] \/ cp[c].done
    /\ cp[c].done => pc[c] \in {"swap", "persist", "release", "done", "down"}
    /\ pc[c] \in {"idle", "put", "acquired"} => ppc[c] = "off"

\* A timely owner that is alive cannot have timed out.
FreshInv == rec.owner \in Timely /\ Alive(rec.owner) => age < Timeout

HoldInv == FreshInv /\ \A c \in Clients : PhaseInv(c)

\* A step of another client leaves the goroutines of a client alone.
LEMMA OthersStay ==
    ASSUME TypeOK, NEW c \in Clients, NEW d \in Clients, c # d, ClientStep(c)
    PROVE  pc'[d] = pc[d] /\ ppc'[d] = ppc[d] /\ canceled'[d] = canceled[d] /\ cp'[d].done = cp[d].done
<1>1. cp'[d].done = cp[d].done
  BY OthersKeep DEF Keeps
<1> USE DEF Goto, TypeOK
<1>2. CASE Reader(c)
  BY <1>1, <1>2 DEF Reader, AcquireGet, AcquirePut, AcquireUndo, Acquired, LeaveIdle, Fetch, Handle, AdvanceRecord,
    AdvanceFails, BatchDone, EndOfShard, LeaveCanceled, ReaderSwap, ReaderPersist, ReaderRelease
<1>3. CASE Persister(c)
  BY <1>1, <1>3 DEF Persister, PersisterLoad, PersisterPersist, PersisterFails, PersisterLeaves,
    PersisterSwap, PersisterFinal, PersisterRelease
<1>4. CASE Cancel(c) \/ ReadFails(c) \/ IteratorExpires(c) \/ Crash(c) \/ Restart(c)
  BY <1>1, <1>4 DEF Cancel, ReadFails, IteratorExpires, Crash, Restart
<1> QED
  BY <1>2, <1>3, <1>4 DEF ClientStep

\* The owner of the record: a client writes its own, gives it back, or acquires it.
LEMMA OwnerStep ==
    ASSUME TypeOK, NEW c \in Clients, ClientStep(c)
    PROVE  \/ rec'.owner = rec.owner /\ age' \in {age, 0}
           \/ /\ rec.owner = c /\ rec'.owner = Nobody
              /\ (AcquireUndo(c) \/ ReaderRelease(c) \/ PersisterRelease(c))
           \/ /\ AcquirePut(c) /\ MayAcquire(c) /\ rec'.owner = c /\ age' = getAge[c]
<1>1. ASSUME DoPersist(c) PROVE rec'.owner = rec.owner /\ age' = 0
  BY <1>1 DEF DoPersist, Write
<1>2. ASSUME DoRelease(c) PROVE UNCHANGED <<rec, age>> \/ (rec.owner = c /\ rec'.owner = Nobody)
  BY <1>2 DEF DoRelease, Write
<1>3. CASE AcquirePut(c) \/ AcquireUndo(c)
  BY <1>3 DEF AcquirePut, AcquireUndo, Write
<1>4. CASE ReaderPersist(c) \/ ReaderRelease(c)
  BY <1>1, <1>2, <1>4 DEF ReaderPersist, ReaderRelease
<1>5. CASE PersisterPersist(c) \/ PersisterFinal(c) \/ PersisterRelease(c)
  BY <1>1, <1>2, <1>5 DEF PersisterPersist, PersisterFinal, PersisterRelease
<1>6. CASE \/ AcquireGet(c) \/ Acquired(c) \/ LeaveIdle(c) \/ Fetch(c) \/ Handle(c) \/ AdvanceRecord(c)
           \/ AdvanceFails(c) \/ BatchDone(c) \/ EndOfShard(c) \/ LeaveCanceled(c) \/ ReaderSwap(c)
  BY <1>6 DEF AcquireGet, Acquired, LeaveIdle, Fetch, Handle, AdvanceRecord, AdvanceFails, BatchDone,
    EndOfShard, LeaveCanceled, ReaderSwap
<1>7. CASE PersisterLoad(c) \/ PersisterFails(c) \/ PersisterLeaves(c) \/ PersisterSwap(c)
  BY <1>7 DEF PersisterLoad, PersisterFails, PersisterLeaves, PersisterSwap
<1>8. CASE Cancel(c) \/ ReadFails(c) \/ IteratorExpires(c) \/ Crash(c) \/ Restart(c)
  BY <1>8 DEF Cancel, ReadFails, IteratorExpires, Crash, Restart
<1> QED
  BY <1>3, <1>4, <1>5, <1>6, <1>7, <1>8 DEF ClientStep, Reader, Persister

\* The goroutines of the client that takes a step.  It only begins to hold the
\* shard by acquiring it.
LEMMA OwnPhase ==
    ASSUME TypeOK, NEW c \in Clients, PhaseInv(c), ClientStep(c)
    PROVE  /\ (ppc[c] \in {"swap", "persist", "release"} => canceled[c] \/ cp[c].done)'
           /\ (cp[c].done => pc[c] \in {"swap", "persist", "release", "done", "down"})'
           /\ (pc[c] \in {"idle", "put", "acquired"} => ppc[c] = "off")'
           /\ Alive(c)' => Alive(c) \/ (AcquirePut(c) /\ MayAcquire(c))
           /\ Holds(c)' => Holds(c) \/ (AcquirePut(c) /\ MayAcquire(c))
<1> USE DEF Goto, TypeOK, PhaseInv, Alive, Holds, Reading
<1>1. CASE AcquireGet(c)
  BY <1>1 DEF AcquireGet
<1>2. CASE AcquirePut(c)
  <2>1. /\ pc[c] = "put" /\ UNCHANGED <<cp, ppc, canceled>>
        /\ \/ MayAcquire(c) /\ pc' = [pc EXCEPT ![c] = "acquired"]
           \/ pc' = [pc EXCEPT ![c] = "idle"]
    BY <1>2 DEF AcquirePut
  <2> QED
    BY <1>2, <2>1
<1>3. CASE AcquireUndo(c)
  BY <1>3 DEF AcquireUndo
<1>4. CASE Acquired(c)
  BY <1>4 DEF Acquired
<1>5. CASE LeaveIdle(c)
  BY <1>5 DEF LeaveIdle
<1>6. CASE Fetch(c) \/ Handle(c) \/ BatchDone(c) \/ IteratorExpires(c)
  BY <1>6 DEF Fetch, Handle, BatchDone, IteratorExpires
<1>7. CASE AdvanceRecord(c)
  BY <1>7 DEF AdvanceRecord, Advance
<1>8. CASE EndOfShard(c)
  BY <1>8 DEF EndOfShard, Done
<1>9. CASE AdvanceFails(c) \/ LeaveCanceled(c) \/ ReadFails(c)
  BY <1>9 DEF AdvanceFails, LeaveCanceled, ReadFails
<1>10. CASE ReaderSwap(c) \/ ReaderPersist(c)
  BY <1>10 DEF ReaderSwap, ReaderPersist
<1>11. CASE ReaderRelease(c)
  BY <1>11 DEF ReaderRelease, DoRelease
<1>12. CASE PersisterLoad(c) \/ PersisterFails(c) \/ PersisterLeaves(c) \/ PersisterSwap(c)
  BY <1>12 DEF PersisterLoad, PersisterFails, PersisterLeaves, PersisterSwap
<1>13. CASE PersisterPersist(c)
  BY <1>13 DEF PersisterPersist, PersistsFinished
<1>14. CASE PersisterFinal(c)
  BY <1>14 DEF PersisterFinal
<1>15. CASE PersisterRelease(c)
  BY <1>15 DEF PersisterRelease, DoRelease
<1>16. CASE Cancel(c) \/ Crash(c)
  BY <1>16 DEF Cancel, Crash
<1>17. CASE Restart(c)
  BY <1>17 DEF Restart, NoCheckpoint
<1> QED
  BY <1>1, <1>2, <1>3, <1>4, <1>5, <1>6, <1>7, <1>8, <1>9, <1>10, <1>11, <1>12, <1>13, <1>14, <1>15, <1>16, <1>17
  DEF ClientStep, Reader, Persister

\* A client holds nothing after it has given the shard back.
LEMMA GivenBack ==
    ASSUME TypeOK, NEW c \in Clients, PhaseInv(c), AcquireUndo(c) \/ ReaderRelease(c) \/ PersisterRelease(c)
    PROVE  ~Holds(c)'
<1> USE DEF Goto, TypeOK, PhaseInv, Holds, Reading
<1>1. CASE AcquireUndo(c)
  BY <1>1 DEF AcquireUndo
<1>2. CASE ReaderRelease(c)
  BY <1>2 DEF ReaderRelease
<1>3. CASE PersisterRelease(c)
  BY <1>3 DEF PersisterRelease
<1> QED
  BY <1>1, <1>2, <1>3

\* While the calls of clients are shorter than the timeout nobody acquires the shard from
\* a client that holds it.
LEMMA HoldStep ==
    ASSUME MaxStall < Timeout, TypeOK, HoldInv, [Next]_vars
    PROVE  HoldInv'
<1>0. /\ age \in Nat /\ Timeout \in Nat /\ Timeout > 0 /\ MaxStall \in Nat
      /\ \A c \in Clients : getAge[c] \in 0..MaxStall
  BY Numbers, ShardAssumption DEF TypeOK
<1>a. Timely \subseteq Clients /\ \A c \in Clients : c # Nobody
  BY Numbers, ShardAssumption
<1>b. rec.owner \in Clients \union {Nobody}
  BY DEF TypeOK
<1>1. ASSUME NEW c \in Clients, ClientStep(c) PROVE HoldInv'
  <2>0. PhaseInv(c) /\ \A d \in Clients : PhaseInv(d)
    BY DEF HoldInv
  <2>a. /\ \A d \in Clients : d # c => /\ pc'[d] = pc[d] /\ ppc'[d] = ppc[d] /\ canceled'[d] = canceled[d]
                                       /\ cp'[d].done = cp[d].done
    BY <1>1, OthersStay
  <2>b. \A d \in Clients : d # c => (Holds(d)' <=> Holds(d)) /\ (Alive(d)' <=> Alive(d))
    BY <2>a DEF Holds, Reading, Alive
  <2>c. ASSUME AcquirePut(c), MayAcquire(c) PROVE \A d \in Clients : ~Holds(d)
    <3>1. SUFFICES ASSUME NEW d \in Clients, Holds(d) PROVE FALSE
      OBVIOUS
    <3>2. rec.owner = d /\ d \in Timely /\ Alive(d)
      BY <2>0, <3>1 DEF PhaseInv, Holds, Reading, Alive
    <3>3. age < Timeout
      BY <1>a, <3>2 DEF HoldInv, FreshInv
    <3>4. getAge[c] \in Nat /\ ~(age - getAge[c] >= Timeout)
      BY <1>0, <3>3
    <3> QED
      BY <1>a, <2>c, <3>2, <3>4 DEF MayAcquire
  <2>d. AcquirePut(c) => pc[c] = "put"
    BY DEF AcquirePut
  <2>1. ASSUME NEW d \in Clients PROVE Holds(d)' => rec'.owner = d
    <3>1. CASE rec'.owner = rec.owner
      <4>1. CASE AcquirePut(c) /\ MayAcquire(c)
        <5>1. rec'.owner = c
          BY <4>1 DEF AcquirePut, Write
        <5>2. d # c => ~Holds(d)'
          BY <2>b, <2>c, <4>1
        <5> QED
          BY <5>1, <5>2
      <4>2. CASE ~(AcquirePut(c) /\ MayAcquire(c))
        <5>1. Holds(d)' => Holds(d)
          BY <1>1, <2>0, <2>b, <4>2, OwnPhase
        <5> QED
          BY <2>0, <3>1, <5>1 DEF PhaseInv
      <4> QED
        BY <4>1, <4>2
    <3>2. CASE rec.owner = c /\ (AcquireUndo(c) \/ ReaderRelease(c) \/ PersisterRelease(c))
      <4>1. ~Holds(c)'
        BY <2>0, <3>2, GivenBack
      <4>2. d # c => ~Holds(d)'
        BY <2>0, <2>b, <3>2 DEF PhaseInv
      <4> QED
        BY <4>1, <4>2
    <3>3. CASE AcquirePut(c) /\ MayAcquire(c) /\ rec'.owner = c
      BY <2>b, <2>c, <3>3
    <3> QED
      BY <1>1, <3>1, <3>2, <3>3, OwnerStep
  <2>2. ASSUME NEW d \in Clients PROVE PhaseInv(d)'
    <3>1. CASE d = c
      BY <1>1, <2>0, <2>1, <3>1, OwnPhase DEF PhaseInv
    <3>2. CASE d # c
      BY <2>0, <2>1, <2>a, <3>2 DEF PhaseInv
    <3> QED
      BY <3>1, <3>2
  <2>3. FreshInv'
    <3>1. SUFFICES ASSUME NEW d \in Timely, rec'.owner = d, Alive(d)' PROVE age' < Timeout
      BY DEF FreshInv, Alive
    <3>2. CASE rec'.owner = rec.owner /\ age' \in {age, 0}
      <4>1. CASE AcquirePut(c) /\ MayAcquire(c)
        <5>1. age' = getAge[c]
          BY <4>1 DEF AcquirePut
        <5> QED
          BY <1>0, <5>1
      <4>2. CASE ~(AcquirePut(c) /\ MayAcquire(c))
        <5>1. Alive(d)
          BY <1>1, <1>a, <2>0, <2>b, <3>1, <4>2, OwnPhase
        <5>2. age < Timeout
          BY <1>a, <3>1, <3>2, <5>1 DEF HoldInv, FreshInv
        <5> QED
          BY <1>0, <3>2, <5>2
      <4> QED
        BY <4>1, <4>2
    <3>3. CASE rec'.owner = Nobody
      BY <1>a, <3>1, <3>3
    <3>4. CASE age' = getAge[c]
      BY <1>0, <3>4
    <3> QED
      BY <1>1, <3>2, <3>3, <3>4, OwnerStep
  <2> QED
    BY <2>2, <2>3 DEF HoldInv
<1>2. CASE Tick
  <2>1. UNCHANGED <<rec, pc, cp, ppc, canceled>>
    BY <1>2 DEF Tick
  <2>2. rec.owner \in Timely /\ Alive(rec.owner) => age + 1 < Timeout
    BY <1>2 DEF Tick
  <2>3. age' = age \/ age' = age + 1
    BY <1>2 DEF Tick
  <2>4. FreshInv'
    BY <1>0, <2>1, <2>2, <2>3 DEF FreshInv, Alive, HoldInv
  <2>5. \A c \in Clients : PhaseInv(c)'
    BY <2>1 DEF HoldInv, PhaseInv, Holds, Reading
  <2> QED
    BY <2>4, <2>5 DEF HoldInv
<1>3. CASE UNCHANGED vars
  <2>1. UNCHANGED <<rec, age, pc, cp, ppc, canceled>>
    BY <1>3 DEF vars
  <2> QED
    BY <2>1 DEF HoldInv, FreshInv, Alive, PhaseInv, Holds, Reading
<1> QED
  BY <1>1, <1>2, <1>3 DEF Next, ClientStep

-----------------------------------------------------------------------------
(* Theorems.                                                               *)

LEMMA InvHolds == Spec => []ShardInv
  BY InvInit, InvStep, PTL DEF Spec

\* At least once: for every number of clients and records, whatever is overtaken,
\* canceled, restarted or crashes, and however late owners persist, the sequence
\* number of the record is covered by what was passed to a handler.
THEOREM CheckpointIsCovered == Spec => []CheckpointCovered
<1>1. ShardInv => CheckpointCovered
  BY DEF ShardInv, RecordInv, Upto, CheckpointCovered
<1> QED
  BY InvHolds, <1>1, PTL

\* A record is finished only when every record of the shard was passed to a handler.
THEOREM FinishedIsHandled == Spec => []FinishedMeansHandled
<1>1. ShardInv => FinishedMeansHandled
  <2> SUFFICES ASSUME ShardInv, rec.finished PROVE handled = 1..Last
    BY DEF FinishedMeansHandled
  <2>1. \A k \in 1..Last : k \in handled
    BY DEF ShardInv, RecordInv, Upto
  <2>2. handled \subseteq 1..Last
    BY DEF ShardInv, TypeOK
  <2> QED
    BY <2>1, <2>2
<1> QED
  BY InvHolds, <1>1, PTL

\* The types hold in every reachable state; positions within batches never leave
\* the shard.
THEOREM TypesHold == Spec => []TypeOK
  BY InvHolds, PTL DEF ShardInv

\* While no PutItem takes as long as the timeout, a client that persists in time is
\* not overtaken, however the GetItem and PutItem calls of all clients interleave with
\* releases, cancellations, crashes and takeovers: of two clients that read the shard
\* at once, one has persisted too late and does not own the shard any more.
THEOREM ReadIsExclusive ==
    ASSUME MaxStall < Timeout
    PROVE  Spec => []ExclusiveRead
<1>1. Init => HoldInv
  BY ShardAssumption DEF ShardAssumption, Init, HoldInv, FreshInv, Alive, PhaseInv, Holds, Reading, NoCheckpoint
<1>2. ShardInv /\ HoldInv /\ [Next]_vars => HoldInv'
  BY HoldStep DEF ShardInv
<1>3. HoldInv => ExclusiveRead
  BY DEF HoldInv, PhaseInv, Holds, ExclusiveRead, Overtaken
<1> QED
  BY <1>1, <1>2, <1>3, InvHolds, PTL DEF Spec
=============================================================================
