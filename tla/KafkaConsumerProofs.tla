------------------------ MODULE KafkaConsumerProofs ------------------------
(***************************************************************************)
(* Proofs about KafkaConsumer, for any number of partitions, records and    *)
(* rebalances: no record is skipped by a commit, no partition is given away *)
(* while it is being worked on, and no goroutine is started or left behind  *)
(* on the dead coffin.                                                     *)
(***************************************************************************)
EXTENDS KafkaConsumer, TLAPS

Closing == run \in {"stop", "stopAll", "wait", "returned"}
Owned(p) == group[p] \in {"us", "leaving"}

\* Where Run is limits the callback and the manager: records only wait while rebalances
\* are blocked, a revocation never meets PartitionManager.Stop, and once the reader
\* is closed partitions are only left to a client whose context is done.
LoopInv ==
    /\ stopping <=> run \in {"stopAll", "wait", "returned"}
    /\ run = "handle" => cb.kind = "none"
    /\ cb.kind = "revoke" => run \in {"loop", "poll", "close"}
    /\ Closing /\ ~ctxDone => \A p \in Partitions : group[p] \in {"free", "other"}
    /\ \A p \in Partitions : fetched[p] > 0 => run = "handle" /\ group[p] = "us"

\* What the callback in work says about a partition.
CallbackInv ==
    /\ cb.kind # "revoke" => cb.wait = {}
    /\ cb.kind = "none" => cb.todo = {}
    /\ \A p \in Partitions :
          /\ group[p] = "joining" => cb.kind = "assign"
          /\ group[p] = "leaving" => cb.kind = "revoke"
          /\ p \in cb.todo => group[p] = IF cb.kind = "assign" THEN "joining" ELSE "leaving"
          /\ gor[p] = "spawn" => cb.kind = "assign" /\ p \in cb.todo
          /\ cb.kind = "assign" /\ p \in cb.todo => ~Tracked(p)
          /\ group[p] = "leaving" /\ p \notin cb.todo \union cb.wait => ~Tracked(p)

\* A goroutine belongs to a partition of ours and is in the map, unless its
\* revocation waits for it or the manager has stopped everything; and until the
\* manager stops, every partition we fetch from is in the map.
MapInv ==
    \A p \in Partitions :
        /\ Tracked(p) => group[p] \in {"joining", "us", "leaving"}
        /\ Tracked(p) \/ gor[p] = "spawn" =>
              p \in mapped \/ p \in cb.wait \/ run \in {"wait", "returned"}
        /\ gor[p] \in {"handle", "commit"} => Owned(p)
        /\ ~stopping /\ group[p] = "us" => p \in mapped
        /\ ~stopping /\ group[p] = "joining" => p \in mapped \union cb.todo

\* The polls go on; after PollFails the position may be ahead of what anybody handles.
Polling == run \in {"loop", "poll", "handle"}

\* The records that were passed to a handler or thrown away.
Done(p) == handled[p] \union dropped[p]

\* The records before those in the hands of Handle and of the goroutine are done.
OffsetInv ==
    \A p \in Partitions :
        /\ fetched[p] <= pos[p] /\ batch[p] <= upTo[p]
        /\ gor[p] = "commit" => 1..upTo[p] \subseteq Done(p)
        /\ gor[p] = "handle" => 1..(upTo[p] - batch[p]) \subseteq Done(p)
        /\ Polling /\ gor[p] # "handle" => 1..(pos[p] - fetched[p]) \subseteq Done(p)
        /\ Polling /\ gor[p] = "handle" => (upTo[p] + 1)..(pos[p] - fetched[p]) \subseteq Done(p)
        /\ ~Owned(p) => pos[p] = 0

KafkaInv ==
    /\ TypeOK /\ LoopInv /\ CallbackInv /\ MapInv /\ OffsetInv
    /\ CommittedWereHandled /\ NeverPanics

-----------------------------------------------------------------------------
\* What the assumption says of each constant.
LEMMA Constants ==
    /\ LastOffset \in [Partitions -> Nat] /\ MaxBatch \in Nat /\ MaxRebalances \in Nat
    /\ MaxBatch # 0
  BY KafkaAssumption

\* Where a poll leaves the client, and that it has no records of a partition in a rebalance.
LEMMA PollMoves ==
    ASSUME TypeOK, NEW n \in Fetches, NEW p \in Partitions
    PROVE  /\ n[p] \in 0..MaxBatch /\ Advanced(n)[p] = pos[p] + n[p]
           /\ Advanced(n)[p] \in Nat /\ Advanced(n)[p] <= LastOffset[p]
           /\ n[p] > 0 => cb.kind = "none" /\ group[p] = "us"
  BY Constants DEF TypeOK, Fetches, Advanced

\* A new consumer satisfies the invariant.
LEMMA InitInv == Init => KafkaInv
<1> SUFFICES ASSUME Init PROVE KafkaInv
  OBVIOUS
<1>1. TypeOK
  <2>1. None \in [Partitions -> 0..MaxBatch] /\ None \in [Partitions -> Nat]
    BY Constants DEF None
  <2>2. NoCallback \in [kind : {"none", "assign", "revoke"}, todo : SUBSET Partitions, wait : SUBSET Partitions]
    BY DEF NoCallback
  <2>3. \A p \in Partitions : batch[p] = 0 /\ gor[p] = "off"
    BY DEF Init, None
  <2>4. \A p \in Partitions : batch[p] > 0 <=> gor[p] \in {"handle", "commit"}
    <3>1. ~(0 > 0)
      BY SMT
    <3> QED
      BY <2>3, <3>1, Zenon
  <2>5. /\ {stopped, ctxDone, stopping, panicked} \subseteq BOOLEAN /\ mapped \subseteq Partitions
        /\ gor \in [Partitions -> {"off", "spawn", "idle", "handle", "commit", "gone"}]
        /\ stopCh \in [Partitions -> BOOLEAN]
        /\ group \in [Partitions -> {"free", "other", "joining", "us", "leaving"}]
        /\ handled \in [Partitions -> SUBSET Nat] /\ dropped \in [Partitions -> SUBSET Nat]
    BY DEF Init
  <2>7. rebalances \in 0..MaxRebalances
    BY Constants DEF Init
  <2>6. run = "loop" /\ fetched = None /\ batch = None /\ upTo = None /\ cb = NoCallback /\ pos = None /\ committed = None
    BY DEF Init
  <2>8. \A p \in Partitions : pos[p] <= LastOffset[p] /\ upTo[p] <= LastOffset[p] /\ committed[p] <= LastOffset[p]
    <3>1. ASSUME NEW p \in Partitions PROVE None[p] <= LastOffset[p]
      <4>1. None[p] = 0 /\ LastOffset[p] \in Nat
        BY Constants DEF None
      <4>2. 0 <= LastOffset[p]
        BY <4>1
      <4> QED
        BY <4>1, <4>2
    <3> QED
      BY <2>6, <3>1, Zenon
  <2> QED
    BY <2>1, <2>2, <2>4, <2>5, <2>6, <2>7, <2>8 DEF TypeOK
<1>2. LoopInv /\ CallbackInv /\ MapInv /\ NeverPanics
  BY DEF Init, NoCallback, None, LoopInv, CallbackInv, MapInv, NeverPanics, Closing, Owned, Tracked
<1>3. OffsetInv /\ CommittedWereHandled
  BY DEF Init, None, OffsetInv, CommittedWereHandled, Done
<1> QED
  BY <1>1, <1>2, <1>3 DEF KafkaInv

\* Offsets and batches stay within their bounds, and a goroutine has records exactly
\* from its receive to its commit.
LEMMA TypeStep == KafkaInv /\ [Next]_vars => TypeOK'
<1> SUFFICES ASSUME KafkaInv, [Next]_vars PROVE TypeOK'
  OBVIOUS
<1>0. TypeOK /\ CallbackInv /\ OffsetInv
  BY DEF KafkaInv
<1> USE DEF loopVars, managerVars, workVars, groupVars, offsetVars
<1>1. ASSUME LoopChecks \/ AllowRebalance \/ CloseReader
      PROVE  TypeOK'
  BY <1>0, <1>1, Constants DEF LoopChecks, AllowRebalance, CloseReader, TypeOK, OffsetInv, Tracked
<1>2. ASSUME Poll \/ PollAgain \/ PollFails
      PROVE  TypeOK'
  <2>1. ASSUME NEW n \in Fetches, pos' = Advanced(n)
        PROVE  /\ pos' \in [Partitions -> Nat]
               /\ \A p \in Partitions : pos'[p] <= LastOffset[p]
    <3>1. pos' = [p \in Partitions |-> pos[p] + n[p]]
      BY <2>1 DEF Advanced
    <3> QED
      BY <1>0, <2>1, <3>1, PollMoves
  <2>2. CASE Poll
    <3>1. PICK n \in Fetches : fetched' = n /\ pos' = Advanced(n)
      BY <2>2 DEF Poll
    <3>2. fetched' \in [Partitions -> 0..MaxBatch]
      BY <3>1 DEF Fetches
    <3> QED
      BY <1>0, <2>1, <2>2, <3>1, <3>2 DEF Poll, TypeOK
  <2>3. CASE PollAgain
    <3>1. PICK n \in Fetches :
              /\ pos' = Advanced(n)
              /\ dropped' = [p \in Partitions |-> dropped[p] \union (pos[p] + 1)..(pos[p] + n[p])]
      BY <2>3 DEF PollAgain
    <3>2. dropped' \in [Partitions -> SUBSET Nat]
      BY <1>0, <3>1, PollMoves DEF TypeOK
    <3> QED
      BY <1>0, <2>1, <2>3, <3>1, <3>2 DEF PollAgain, TypeOK
  <2>4. CASE PollFails
    BY <1>0, <2>1, <2>4 DEF PollFails, TypeOK
  <2> QED
    BY <1>2, <2>2, <2>3, <2>4
<1>3. ASSUME StopFlag \/ StopAll \/ RunReturns
      PROVE  TypeOK'
  BY <1>0, <1>3, Constants DEF StopFlag, StopAll, RunReturns, Stopped, CoffinDead, TypeOK, OffsetInv, Tracked
<1>4. ASSUME NEW p \in Partitions, Handle(p)
      PROVE  TypeOK'
  BY <1>0, <1>4, Constants DEF Handle, AfterReceive, TypeOK, OffsetInv, Tracked
<1>5. ASSUME NEW p \in Partitions, HandleRecords(p) \/ CommitRecords(p) \/ CommitFails(p) \/ ConsumeReturns(p)
      PROVE  TypeOK'
  <2>1. CASE HandleRecords(p)
    BY <1>0, <2>1, Constants DEF HandleRecords, Becomes, TypeOK, OffsetInv, Tracked
  <2>2. CASE CommitRecords(p) \/ CommitFails(p)
    <3>1. /\ committed' = [committed EXCEPT ![p] = upTo[p]] \/ committed' = committed
          /\ gor'[p] \in {"idle", "gone"} /\ \A q \in Partitions : q # p => gor'[q] = gor[q]
          /\ batch' = [batch EXCEPT ![p] = 0] /\ upTo' = [upTo EXCEPT ![p] = 0]
      BY <1>0, <2>2 DEF CommitRecords, CommitFails, Becomes, TypeOK
    <3>2. /\ committed' \in [Partitions -> Nat] /\ upTo' \in [Partitions -> Nat]
          /\ batch' \in [Partitions -> 0..MaxBatch]
      BY <1>0, <3>1, Constants DEF TypeOK
    <3>3. ASSUME NEW q \in Partitions
          PROVE  upTo'[q] <= LastOffset[q] /\ committed'[q] <= LastOffset[q]
      <4>1. LastOffset[q] \in Nat /\ upTo[q] <= LastOffset[q] /\ committed[q] <= LastOffset[q]
        BY <1>0, Constants DEF TypeOK
      <4>2. upTo'[q] \in {0, upTo[q]} /\ committed'[q] \in {upTo[q], committed[q]}
        BY <1>0, <3>1 DEF TypeOK
      <4> QED
        BY <4>1, <4>2
    <3>4. \A q \in Partitions : batch'[q] > 0 <=> gor'[q] \in {"handle", "commit"}
      BY <1>0, <3>1 DEF TypeOK
    <3> QED
      BY <1>0, <2>2, <3>2, <3>3, <3>4 DEF CommitRecords, CommitFails, Becomes, TypeOK
  <2>4. CASE ConsumeReturns(p)
    BY <1>0, <2>4, Constants DEF ConsumeReturns, Becomes, TypeOK, OffsetInv, Tracked
  <2> QED
    BY <1>5, <2>1, <2>2, <2>4
<1>6. ASSUME NEW ps \in SUBSET Partitions, AssignStart(ps)
      PROVE  TypeOK'
  BY <1>0, <1>6, Constants DEF AssignStart, RebalanceBlocked, TypeOK, OffsetInv, Tracked
<1>7. ASSUME NEW p \in Partitions, AssignRegister(p)
      PROVE  TypeOK'
  <2>1. CASE stopping
    BY <1>0, <1>7, <2>1 DEF AssignRegister, TypeOK
  <2>2. CASE ~stopping
    <3>1. /\ gor[p] \notin {"handle", "commit"}
          /\ mapped' = mapped \union {p} /\ gor' = [gor EXCEPT ![p] = "spawn"]
          /\ stopCh' = [stopCh EXCEPT ![p] = FALSE]
          /\ UNCHANGED <<cb, loopVars, stopping, batch, upTo, group, rebalances, offsetVars, panicked>>
      BY <1>0, <1>7, <2>2 DEF AssignRegister, CallbackInv, Tracked
    <3>2. \A q \in Partitions : batch'[q] > 0 <=> gor'[q] \in {"handle", "commit"}
      BY <1>0, <3>1 DEF TypeOK
    <3> QED
      BY <1>0, <3>1, <3>2 DEF TypeOK
  <2> QED
    BY <2>1, <2>2
<1>8. ASSUME NEW p \in Partitions, AssignGo(p)
      PROVE  TypeOK'
  BY <1>0, <1>8, Constants DEF AssignGo, CoffinDead, TypeOK, OffsetInv, Tracked
<1>9. ASSUME AssignDone
      PROVE  TypeOK'
  BY <1>0, <1>9, Constants DEF AssignDone, NoCallback, TypeOK, OffsetInv, Tracked
<1>10. ASSUME NEW ps \in SUBSET Partitions, RevokeStart(ps)
      PROVE  TypeOK'
  BY <1>0, <1>10, Constants DEF RevokeStart, RebalanceBlocked, TypeOK, OffsetInv, Tracked
<1>11. ASSUME NEW p \in Partitions, RevokeTake(p)
      PROVE  TypeOK'
  BY <1>0, <1>11, Constants DEF RevokeTake, Stopped, TypeOK, OffsetInv, Tracked
<1>12. ASSUME RevokeDone
      PROVE  TypeOK'
  BY <1>0, <1>12, Constants DEF RevokeDone, NoCallback, AllFinished, TypeOK, OffsetInv, Tracked
<1>13. ASSUME NEW p \in Partitions, OtherTakes(p) \/ OtherConsumes(p) \/ OtherLeaves(p)
      PROVE  TypeOK'
  <2>1. CASE OtherTakes(p)
    BY <1>0, <2>1, Constants DEF OtherTakes, TypeOK, OffsetInv, Tracked
  <2>2. CASE OtherConsumes(p)
    <3>1. /\ committed' = [committed EXCEPT ![p] = @ + 1] /\ committed[p] < LastOffset[p]
          /\ handled' = [handled EXCEPT ![p] = @ \union {committed[p] + 1}]
      BY <2>2 DEF OtherConsumes
    <3>2. committed' \in [Partitions -> Nat] /\ handled' \in [Partitions -> SUBSET Nat]
      BY <1>0, <3>1 DEF TypeOK
    <3>3. ASSUME NEW q \in Partitions PROVE committed'[q] <= LastOffset[q]
      <4>1. /\ LastOffset[q] \in Nat /\ LastOffset[p] \in Nat
            /\ committed[q] \in Nat /\ committed[q] <= LastOffset[q]
        BY <1>0, Constants DEF TypeOK
      <4>2. committed'[q] = IF q = p THEN committed[q] + 1 ELSE committed[q]
        BY <1>0, <3>1 DEF TypeOK
      <4> QED
        BY <3>1, <4>1, <4>2
    <3> QED
      BY <1>0, <2>2, <3>2, <3>3 DEF OtherConsumes, TypeOK
  <2>3. CASE OtherLeaves(p)
    BY <1>0, <2>3, Constants DEF OtherLeaves, TypeOK, OffsetInv, Tracked
  <2> QED
    BY <1>13, <2>1, <2>2, <2>3
<1>14. ASSUME Stop \/ CtxEnds
      PROVE  TypeOK'
  BY <1>0, <1>14, Constants DEF Stop, CtxEnds, TypeOK, OffsetInv, Tracked
<1>15. CASE UNCHANGED vars
  BY <1>0, <1>15 DEF vars, TypeOK, OffsetInv, Tracked
<1> QED
  BY <1>1, <1>2, <1>3, <1>4, <1>5, <1>6, <1>7, <1>8, <1>9, <1>10, <1>11, <1>12, <1>13, <1>14, <1>15
     DEF Next, Poller, Consumer, Callback, Leave, Rebalance, Others

\* Run, the blocked rebalances and PartitionManager.Stop.
LEMMA LoopStep == KafkaInv /\ [Next]_vars => LoopInv'
<1> SUFFICES ASSUME KafkaInv, [Next]_vars PROVE LoopInv'
  OBVIOUS
<1>0. TypeOK /\ LoopInv /\ CallbackInv
  BY DEF KafkaInv
<1> USE DEF loopVars, managerVars, workVars, groupVars, offsetVars
<1>1. ASSUME LoopChecks \/ AllowRebalance \/ CloseReader
      PROVE  LoopInv'
  BY <1>0, <1>1 DEF LoopChecks, AllowRebalance, CloseReader, TypeOK, LoopInv, CallbackInv, Closing, None
<1>2. ASSUME Poll \/ PollAgain \/ PollFails
      PROVE  LoopInv'
  BY <1>0, <1>2 DEF Poll, PollAgain, PollFails, Fetches, TypeOK, LoopInv, CallbackInv, Closing, None
<1>3. ASSUME StopFlag \/ StopAll \/ RunReturns
      PROVE  LoopInv'
  BY <1>0, <1>3 DEF StopFlag, StopAll, RunReturns, Stopped, CoffinDead, TypeOK, LoopInv, CallbackInv, Closing, None
<1>4. ASSUME NEW p \in Partitions, Handle(p)
      PROVE  LoopInv'
  BY <1>0, <1>4 DEF Handle, AfterReceive, TypeOK, LoopInv, CallbackInv, Closing, None
<1>5. ASSUME NEW p \in Partitions, HandleRecords(p) \/ CommitRecords(p) \/ CommitFails(p) \/ ConsumeReturns(p)
      PROVE  LoopInv'
  BY <1>0, <1>5 DEF HandleRecords, CommitRecords, CommitFails, ConsumeReturns, Becomes, TypeOK, LoopInv, CallbackInv, Closing, None
<1>6. ASSUME NEW ps \in SUBSET Partitions, AssignStart(ps)
      PROVE  LoopInv'
  BY <1>0, <1>6 DEF AssignStart, RebalanceBlocked, TypeOK, LoopInv, CallbackInv, Closing, None
<1>7. ASSUME NEW p \in Partitions, AssignRegister(p)
      PROVE  LoopInv'
  BY <1>0, <1>7 DEF AssignRegister, TypeOK, LoopInv, CallbackInv, Closing, None
<1>8. ASSUME NEW p \in Partitions, AssignGo(p)
      PROVE  LoopInv'
  BY <1>0, <1>8 DEF AssignGo, CoffinDead, TypeOK, LoopInv, CallbackInv, Closing, None
<1>9. ASSUME AssignDone
      PROVE  LoopInv'
  BY <1>0, <1>9 DEF AssignDone, NoCallback, TypeOK, LoopInv, CallbackInv, Closing, None
<1>10. ASSUME NEW ps \in SUBSET Partitions, RevokeStart(ps)
      PROVE  LoopInv'
  BY <1>0, <1>10 DEF RevokeStart, RebalanceBlocked, TypeOK, LoopInv, CallbackInv, Closing, None
<1>11. ASSUME NEW p \in Partitions, RevokeTake(p)
      PROVE  LoopInv'
  BY <1>0, <1>11 DEF RevokeTake, Stopped, TypeOK, LoopInv, CallbackInv, Closing, None
<1>12. ASSUME RevokeDone
      PROVE  LoopInv'
  BY <1>0, <1>12 DEF RevokeDone, NoCallback, AllFinished, TypeOK, LoopInv, CallbackInv, Closing, None
<1>13. ASSUME NEW p \in Partitions, OtherTakes(p) \/ OtherConsumes(p) \/ OtherLeaves(p)
      PROVE  LoopInv'
  BY <1>0, <1>13 DEF OtherTakes, OtherConsumes, OtherLeaves, TypeOK, LoopInv, CallbackInv, Closing, None
<1>14. ASSUME Stop \/ CtxEnds
      PROVE  LoopInv'
  BY <1>0, <1>14 DEF Stop, CtxEnds, TypeOK, LoopInv, CallbackInv, Closing, None
<1>15. CASE UNCHANGED vars
  BY <1>0, <1>15 DEF vars, TypeOK, LoopInv, CallbackInv, Closing, None
<1> QED
  BY <1>1, <1>2, <1>3, <1>4, <1>5, <1>6, <1>7, <1>8, <1>9, <1>10, <1>11, <1>12, <1>13, <1>14, <1>15
     DEF Next, Poller, Consumer, Callback, Leave, Rebalance, Others

\* OnPartitionsAssigned and OnPartitionsLostOrRevoked, and what starts and ends them.
LEMMA CallbackStep == KafkaInv /\ [Next]_vars => CallbackInv'
<1> SUFFICES ASSUME KafkaInv, [Next]_vars PROVE CallbackInv'
  OBVIOUS
<1>0. TypeOK /\ LoopInv /\ CallbackInv /\ MapInv
  BY DEF KafkaInv
<1> USE DEF loopVars, managerVars, workVars, groupVars, offsetVars
<1>1. ASSUME LoopChecks \/ AllowRebalance \/ CloseReader
      PROVE  CallbackInv'
  BY <1>0, <1>1 DEF LoopChecks, AllowRebalance, CloseReader, TypeOK, LoopInv, CallbackInv, MapInv, Tracked
<1>2. ASSUME Poll \/ PollAgain \/ PollFails
      PROVE  CallbackInv'
  BY <1>0, <1>2 DEF Poll, PollAgain, PollFails, Fetches, TypeOK, LoopInv, CallbackInv, MapInv, Tracked
<1>3. ASSUME StopFlag \/ StopAll \/ RunReturns
      PROVE  CallbackInv'
  BY <1>0, <1>3 DEF StopFlag, StopAll, RunReturns, Stopped, CoffinDead, TypeOK, LoopInv, CallbackInv, MapInv, Tracked
<1>4. ASSUME NEW p \in Partitions, Handle(p)
      PROVE  CallbackInv'
  BY <1>0, <1>4 DEF Handle, AfterReceive, TypeOK, LoopInv, CallbackInv, MapInv, Tracked
<1>5. ASSUME NEW p \in Partitions, HandleRecords(p) \/ CommitRecords(p) \/ CommitFails(p) \/ ConsumeReturns(p)
      PROVE  CallbackInv'
  BY <1>0, <1>5 DEF HandleRecords, CommitRecords, CommitFails, ConsumeReturns, Becomes, TypeOK, LoopInv, CallbackInv, MapInv, Tracked
<1>6. ASSUME NEW ps \in SUBSET Partitions, AssignStart(ps)
      PROVE  CallbackInv'
  BY <1>0, <1>6 DEF AssignStart, RebalanceBlocked, TypeOK, LoopInv, CallbackInv, MapInv, Tracked
<1>7. ASSUME NEW p \in Partitions, AssignRegister(p)
      PROVE  CallbackInv'
  BY <1>0, <1>7 DEF AssignRegister, TypeOK, LoopInv, CallbackInv, MapInv, Tracked
<1>8. ASSUME NEW p \in Partitions, AssignGo(p)
      PROVE  CallbackInv'
  BY <1>0, <1>8 DEF AssignGo, CoffinDead, TypeOK, LoopInv, CallbackInv, MapInv, Tracked
<1>9. ASSUME AssignDone
      PROVE  CallbackInv'
  BY <1>0, <1>9 DEF AssignDone, NoCallback, TypeOK, LoopInv, CallbackInv, MapInv, Tracked
<1>10. ASSUME NEW ps \in SUBSET Partitions, RevokeStart(ps)
      PROVE  CallbackInv'
  BY <1>0, <1>10 DEF RevokeStart, RebalanceBlocked, TypeOK, LoopInv, CallbackInv, MapInv, Tracked
<1>11. ASSUME NEW p \in Partitions, RevokeTake(p)
      PROVE  CallbackInv'
  BY <1>0, <1>11 DEF RevokeTake, Stopped, TypeOK, LoopInv, CallbackInv, MapInv, Tracked
<1>12. ASSUME RevokeDone
      PROVE  CallbackInv'
  BY <1>0, <1>12 DEF RevokeDone, NoCallback, AllFinished, TypeOK, LoopInv, CallbackInv, MapInv, Tracked
<1>13. ASSUME NEW p \in Partitions, OtherTakes(p) \/ OtherConsumes(p) \/ OtherLeaves(p)
      PROVE  CallbackInv'
  BY <1>0, <1>13 DEF OtherTakes, OtherConsumes, OtherLeaves, TypeOK, LoopInv, CallbackInv, MapInv, Tracked
<1>14. ASSUME Stop \/ CtxEnds
      PROVE  CallbackInv'
  BY <1>0, <1>14 DEF Stop, CtxEnds, TypeOK, LoopInv, CallbackInv, MapInv, Tracked
<1>15. CASE UNCHANGED vars
  BY <1>0, <1>15 DEF vars, TypeOK, LoopInv, CallbackInv, MapInv, Tracked
<1> QED
  BY <1>1, <1>2, <1>3, <1>4, <1>5, <1>6, <1>7, <1>8, <1>9, <1>10, <1>11, <1>12, <1>13, <1>14, <1>15
     DEF Next, Poller, Consumer, Callback, Leave, Rebalance, Others

\* The consumers map and the goroutines, under either callback and Stop.
LEMMA MapStep == KafkaInv /\ [Next]_vars => MapInv'
<1> SUFFICES ASSUME KafkaInv, [Next]_vars PROVE MapInv'
  OBVIOUS
<1>0. TypeOK /\ LoopInv /\ CallbackInv /\ MapInv /\ OffsetInv
  BY DEF KafkaInv
<1> USE DEF loopVars, managerVars, workVars, groupVars, offsetVars
<1>1. ASSUME LoopChecks \/ AllowRebalance \/ CloseReader
      PROVE  MapInv'
  BY <1>0, <1>1 DEF LoopChecks, AllowRebalance, CloseReader, TypeOK, LoopInv, CallbackInv, MapInv, Tracked, Owned
<1>2. ASSUME Poll \/ PollAgain \/ PollFails
      PROVE  MapInv'
  BY <1>0, <1>2 DEF Poll, PollAgain, PollFails, Fetches, TypeOK, LoopInv, CallbackInv, MapInv, Tracked, Owned
<1>3. ASSUME StopFlag \/ StopAll \/ RunReturns
      PROVE  MapInv'
  BY <1>0, <1>3 DEF StopFlag, StopAll, RunReturns, Stopped, CoffinDead, TypeOK, LoopInv, CallbackInv, MapInv, Tracked, Owned
<1>4. ASSUME NEW p \in Partitions, Handle(p)
      PROVE  MapInv'
  BY <1>0, <1>4 DEF Handle, AfterReceive, TypeOK, LoopInv, CallbackInv, MapInv, Tracked, Owned
<1>5. ASSUME NEW p \in Partitions, HandleRecords(p) \/ CommitRecords(p) \/ CommitFails(p) \/ ConsumeReturns(p)
      PROVE  MapInv'
  BY <1>0, <1>5 DEF HandleRecords, CommitRecords, CommitFails, ConsumeReturns, Becomes, TypeOK, LoopInv, CallbackInv, MapInv, Tracked, Owned
<1>6. ASSUME NEW ps \in SUBSET Partitions, AssignStart(ps)
      PROVE  MapInv'
  BY <1>0, <1>6 DEF AssignStart, RebalanceBlocked, TypeOK, LoopInv, CallbackInv, MapInv, Tracked, Owned
<1>7. ASSUME NEW p \in Partitions, AssignRegister(p)
      PROVE  MapInv'
  BY <1>0, <1>7 DEF AssignRegister, TypeOK, LoopInv, CallbackInv, MapInv, Tracked, Owned
<1>8. ASSUME NEW p \in Partitions, AssignGo(p)
      PROVE  MapInv'
  <2>1. /\ gor'[p] \in {"gone", "idle"} /\ cb' = [cb EXCEPT !.todo = @ \ {p}]
        /\ \A q \in Partitions : q # p => gor'[q] = gor[q]
        /\ UNCHANGED <<run, mapped, stopping, group>>
    BY <1>0, <1>8 DEF AssignGo, TypeOK
  <2>2. group[p] = "joining" /\ (p \in mapped \/ run \in {"wait", "returned"})
    BY <1>0, <1>8 DEF AssignGo, CallbackInv, MapInv, LoopInv, TypeOK
  <2>3. /\ cb'.wait = cb.wait /\ cb'.todo = cb.todo \ {p}
        /\ gor'[p] \notin {"spawn", "handle", "commit"}
    BY <1>0, <2>1 DEF TypeOK
  <2>4. ASSUME NEW q \in Partitions, q # p
        PROVE  gor'[q] = gor[q] /\ group'[q] = group[q] /\ (q \in cb'.todo <=> q \in cb.todo)
    BY <2>1, <2>3, <2>4
  <2>5. /\ Tracked(p)' => p \in mapped \/ run \in {"wait", "returned"}
        /\ ~stopping => p \in mapped
    BY <1>0, <2>2 DEF LoopInv, TypeOK
  <2>6. UNCHANGED <<mapped, run, stopping, group>>
    BY <2>1
  <2> QED
    BY <1>0, <2>2, <2>3, <2>4, <2>5, <2>6 DEF MapInv, Tracked, Owned
<1>9. ASSUME AssignDone
      PROVE  MapInv'
  BY <1>0, <1>9 DEF AssignDone, NoCallback, TypeOK, LoopInv, CallbackInv, MapInv, Tracked, Owned
<1>10. ASSUME NEW ps \in SUBSET Partitions, RevokeStart(ps)
      PROVE  MapInv'
  BY <1>0, <1>10 DEF RevokeStart, RebalanceBlocked, TypeOK, LoopInv, CallbackInv, MapInv, Tracked, Owned
<1>11. ASSUME NEW p \in Partitions, RevokeTake(p)
      PROVE  MapInv'
  BY <1>0, <1>11 DEF RevokeTake, Stopped, TypeOK, LoopInv, CallbackInv, MapInv, Tracked, Owned
<1>12. ASSUME RevokeDone
      PROVE  MapInv'
  BY <1>0, <1>12 DEF RevokeDone, NoCallback, AllFinished, TypeOK, LoopInv, CallbackInv, MapInv, Tracked, Owned
<1>13. ASSUME NEW p \in Partitions, OtherTakes(p) \/ OtherConsumes(p) \/ OtherLeaves(p)
      PROVE  MapInv'
  BY <1>0, <1>13 DEF OtherTakes, OtherConsumes, OtherLeaves, TypeOK, LoopInv, CallbackInv, MapInv, Tracked, Owned
<1>14. ASSUME Stop \/ CtxEnds
      PROVE  MapInv'
  BY <1>0, <1>14 DEF Stop, CtxEnds, TypeOK, LoopInv, CallbackInv, MapInv, Tracked, Owned
<1>15. CASE UNCHANGED vars
  BY <1>0, <1>15 DEF vars, TypeOK, LoopInv, CallbackInv, MapInv, Tracked, Owned
<1> QED
  BY <1>1, <1>2, <1>3, <1>4, <1>5, <1>6, <1>7, <1>8, <1>9, <1>10, <1>11, <1>12, <1>13, <1>14, <1>15
     DEF Next, Poller, Consumer, Callback, Leave, Rebalance, Others

\* What was fetched and is not in work any more was handled.
LEMMA OffsetStep == KafkaInv /\ [Next]_vars => OffsetInv'
<1> SUFFICES ASSUME KafkaInv, [Next]_vars PROVE OffsetInv'
  OBVIOUS
<1>0. TypeOK /\ LoopInv /\ CallbackInv /\ MapInv /\ OffsetInv /\ CommittedWereHandled
  BY DEF KafkaInv
<1> USE DEF loopVars, managerVars, workVars, groupVars, offsetVars
<1>1. ASSUME LoopChecks \/ AllowRebalance \/ CloseReader
      PROVE  OffsetInv'
  BY <1>0, <1>1 DEF LoopChecks, AllowRebalance, CloseReader, TypeOK, LoopInv, CallbackInv, MapInv, OffsetInv, Tracked, Owned, Polling, Done
<1>2. ASSUME Poll \/ PollAgain \/ PollFails
      PROVE  OffsetInv'
  <2>0. \A p \in Partitions : fetched[p] = 0
    BY <1>0, <1>2 DEF Poll, PollAgain, PollFails, LoopInv, TypeOK
  <2>1. CASE Poll
    <3>1. PICK n \in Fetches : fetched' = n /\ pos' = Advanced(n)
      BY <2>1 DEF Poll
    <3>2. ASSUME NEW p \in Partitions
          PROVE  pos'[p] \in Nat /\ fetched'[p] \in Nat /\ pos'[p] - fetched'[p] = pos[p] - fetched[p]
      BY <1>0, <2>0, <3>1, PollMoves, Constants DEF TypeOK
    <3> QED
      BY <1>0, <2>0, <2>1, <3>1, <3>2, PollMoves DEF Poll, TypeOK, OffsetInv, Owned, Polling, Done
  <2>2. CASE PollAgain
    <3>1. PICK n \in Fetches :
              /\ pos' = Advanced(n)
              /\ dropped' = [p \in Partitions |-> dropped[p] \union (pos[p] + 1)..(pos[p] + n[p])]
      BY <2>2 DEF PollAgain
    <3> SUFFICES ASSUME NEW p \in Partitions
                 PROVE  /\ fetched[p] <= pos'[p] /\ batch[p] <= upTo[p]
                        /\ gor[p] = "commit" => 1..upTo[p] \subseteq Done(p)'
                        /\ gor[p] = "handle" => 1..(upTo[p] - batch[p]) \subseteq Done(p)'
                        /\ gor[p] # "handle" => 1..(pos'[p] - fetched[p]) \subseteq Done(p)'
                        /\ gor[p] = "handle" => (upTo[p] + 1)..(pos'[p] - fetched[p]) \subseteq Done(p)'
                        /\ ~Owned(p) => pos'[p] = 0
      BY <2>2 DEF PollAgain, OffsetInv, Owned
    <3>2. Polling
      BY <2>2 DEF PollAgain, Polling
    <3>3. /\ Done(p)' = Done(p) \union (pos[p] + 1)..(pos[p] + n[p])
          /\ pos'[p] = pos[p] + n[p] /\ pos[p] \in Nat /\ n[p] \in Nat /\ upTo[p] \in Nat /\ batch[p] \in Nat
      BY <1>0, <2>2, <3>1, PollMoves, Constants DEF PollAgain, Done, TypeOK
    <3>4. fetched[p] <= pos'[p] /\ (~Owned(p) => pos'[p] = 0)
      BY <1>0, <2>0, <3>1, <3>3, PollMoves DEF OffsetInv, Owned
    <3>5. gor[p] # "handle" => 1..(pos'[p] - fetched[p]) \subseteq Done(p)'
      BY <1>0, <2>0, <3>2, <3>3 DEF OffsetInv
    <3>6. gor[p] = "handle" => (upTo[p] + 1)..(pos'[p] - fetched[p]) \subseteq Done(p)'
      BY <1>0, <2>0, <3>2, <3>3 DEF OffsetInv
    <3> QED
      BY <1>0, <3>3, <3>4, <3>5, <3>6 DEF OffsetInv
  <2>3. CASE PollFails
    <3>1. PICK n \in Fetches : pos' = Advanced(n)
      BY <2>3 DEF PollFails
    <3>3. /\ run' = "close" /\ fetched' = fetched /\ batch' = batch /\ upTo' = upTo
          /\ gor' = gor /\ group' = group /\ handled' = handled /\ dropped' = dropped
      BY <2>3 DEF PollFails
    <3>2. \A p \in Partitions : /\ pos'[p] \in Nat /\ fetched'[p] <= pos'[p]
                                /\ ~Owned(p)' => pos'[p] = 0
      BY <1>0, <2>0, <3>1, <3>3, PollMoves, Constants DEF TypeOK, OffsetInv, Owned
    <3>4. ~Polling'
      BY <3>3 DEF Polling
    <3>5. \A p \in Partitions : Done(p)' = Done(p)
      BY <3>3 DEF Done
    <3>6. ASSUME NEW p \in Partitions
          PROVE  /\ batch'[p] <= upTo'[p]
                 /\ gor'[p] = "commit" => 1..upTo'[p] \subseteq Done(p)'
                 /\ gor'[p] = "handle" => 1..(upTo'[p] - batch'[p]) \subseteq Done(p)'
      BY <1>0, <3>3, <3>5 DEF OffsetInv
    <3> QED
      BY <3>2, <3>4, <3>6 DEF OffsetInv
  <2> QED
    BY <1>2, <2>1, <2>2, <2>3
<1>3. ASSUME StopFlag \/ StopAll \/ RunReturns
      PROVE  OffsetInv'
  BY <1>0, <1>3 DEF StopFlag, StopAll, RunReturns, Stopped, CoffinDead, TypeOK, LoopInv, CallbackInv, MapInv, OffsetInv, Tracked, Owned, Polling, Done
<1>4. ASSUME NEW p \in Partitions, Handle(p)
      PROVE  OffsetInv'
  BY <1>0, <1>4 DEF Handle, AfterReceive, TypeOK, LoopInv, CallbackInv, MapInv, OffsetInv, Tracked, Owned, Polling, Done
<1>5. ASSUME NEW p \in Partitions, HandleRecords(p) \/ CommitRecords(p) \/ CommitFails(p) \/ ConsumeReturns(p)
      PROVE  OffsetInv'
  <2>1. CASE HandleRecords(p)
    BY <1>0, <2>1 DEF HandleRecords, Becomes, TypeOK, LoopInv, CallbackInv, MapInv, OffsetInv, Tracked, Owned, Polling, Done
  <2>2. CASE CommitRecords(p)
    BY <1>0, <2>2 DEF CommitRecords, Becomes, TypeOK, LoopInv, CallbackInv, MapInv, OffsetInv, Tracked, Owned, Polling, Done
  <2>3. CASE CommitFails(p)
    BY <1>0, <2>3 DEF CommitFails, Becomes, TypeOK, LoopInv, CallbackInv, MapInv, OffsetInv, Tracked, Owned, Polling, Done
  <2>4. CASE ConsumeReturns(p)
    BY <1>0, <2>4 DEF ConsumeReturns, Becomes, TypeOK, LoopInv, CallbackInv, MapInv, OffsetInv, Tracked, Owned, Polling, Done
  <2> QED
    BY <1>5, <2>1, <2>2, <2>3, <2>4
<1>6. ASSUME NEW ps \in SUBSET Partitions, AssignStart(ps)
      PROVE  OffsetInv'
  BY <1>0, <1>6 DEF AssignStart, RebalanceBlocked, TypeOK, LoopInv, CallbackInv, MapInv, OffsetInv, Tracked, Owned, Polling, Done
<1>7. ASSUME NEW p \in Partitions, AssignRegister(p)
      PROVE  OffsetInv'
  BY <1>0, <1>7 DEF AssignRegister, TypeOK, LoopInv, CallbackInv, MapInv, OffsetInv, Tracked, Owned, Polling, Done
<1>8. ASSUME NEW p \in Partitions, AssignGo(p)
      PROVE  OffsetInv'
  BY <1>0, <1>8 DEF AssignGo, CoffinDead, TypeOK, LoopInv, CallbackInv, MapInv, OffsetInv, Tracked, Owned, Polling, Done
<1>9. ASSUME AssignDone
      PROVE  OffsetInv'
  <2> SUFFICES ASSUME NEW q \in Partitions
               PROVE  /\ fetched[q] <= pos'[q] /\ batch[q] <= upTo[q]
                      /\ gor[q] = "commit" => 1..upTo[q] \subseteq Done(q)
                      /\ gor[q] = "handle" => 1..(upTo[q] - batch[q]) \subseteq Done(q)
                      /\ Polling /\ gor[q] # "handle" => 1..(pos'[q] - fetched[q]) \subseteq Done(q)
                      /\ Polling /\ gor[q] = "handle" => (upTo[q] + 1)..(pos'[q] - fetched[q]) \subseteq Done(q)
                      /\ ~Owned(q)' => pos'[q] = 0
    BY <1>9 DEF AssignDone, OffsetInv, Polling, Done
  <2>1. CASE group[q] = "joining"
    <3>1. fetched[q] = 0 /\ batch[q] = 0 /\ upTo[q] \in Nat /\ gor[q] \notin {"handle", "commit"}
      BY <1>0, <2>1 DEF LoopInv, MapInv, TypeOK, Owned
    <3>2. pos'[q] = committed[q] /\ group'[q] = "us"
      BY <1>9, <2>1 DEF AssignDone
    <3>3. committed[q] \in Nat /\ 1..committed[q] \subseteq Done(q)
      BY <1>0 DEF TypeOK, CommittedWereHandled, Done
    <3> QED
      BY <3>1, <3>2, <3>3 DEF Owned
  <2>2. CASE group[q] # "joining"
    BY <1>0, <1>9, <2>2 DEF AssignDone, OffsetInv, Owned, Polling, Done
  <2> QED
    BY <2>1, <2>2
<1>10. ASSUME NEW ps \in SUBSET Partitions, RevokeStart(ps)
      PROVE  OffsetInv'
  BY <1>0, <1>10 DEF RevokeStart, RebalanceBlocked, TypeOK, LoopInv, CallbackInv, MapInv, OffsetInv, Tracked, Owned, Polling, Done
<1>11. ASSUME NEW p \in Partitions, RevokeTake(p)
      PROVE  OffsetInv'
  BY <1>0, <1>11 DEF RevokeTake, Stopped, TypeOK, LoopInv, CallbackInv, MapInv, OffsetInv, Tracked, Owned, Polling, Done
<1>12. ASSUME RevokeDone
      PROVE  OffsetInv'
  BY <1>0, <1>12 DEF RevokeDone, NoCallback, AllFinished, TypeOK, LoopInv, CallbackInv, MapInv, OffsetInv, Tracked, Owned, Polling, Done
<1>13. ASSUME NEW p \in Partitions, OtherTakes(p) \/ OtherConsumes(p) \/ OtherLeaves(p)
      PROVE  OffsetInv'
  <2>1. CASE OtherTakes(p)
    BY <1>0, <2>1 DEF OtherTakes, TypeOK, LoopInv, CallbackInv, MapInv, OffsetInv, Tracked, Owned, Polling, Done
  <2>2. CASE OtherConsumes(p)
    BY <1>0, <2>2 DEF OtherConsumes, TypeOK, LoopInv, CallbackInv, MapInv, OffsetInv, Tracked, Owned, Polling, Done
  <2>3. CASE OtherLeaves(p)
    BY <1>0, <2>3 DEF OtherLeaves, TypeOK, LoopInv, CallbackInv, MapInv, OffsetInv, Tracked, Owned, Polling, Done
  <2> QED
    BY <1>13, <2>1, <2>2, <2>3
<1>14. ASSUME Stop \/ CtxEnds
      PROVE  OffsetInv'
  BY <1>0, <1>14 DEF Stop, CtxEnds, TypeOK, LoopInv, CallbackInv, MapInv, OffsetInv, Tracked, Owned, Polling, Done
<1>15. CASE UNCHANGED vars
  BY <1>0, <1>15 DEF vars, TypeOK, LoopInv, CallbackInv, MapInv, OffsetInv, Tracked, Owned, Polling, Done
<1> QED
  BY <1>1, <1>2, <1>3, <1>4, <1>5, <1>6, <1>7, <1>8, <1>9, <1>10, <1>11, <1>12, <1>13, <1>14, <1>15
     DEF Next, Poller, Consumer, Callback, Leave, Rebalance, Others

\* A commit covers only what the goroutine has handled before.
LEMMA CommitStep == KafkaInv /\ [Next]_vars => CommittedWereHandled'
<1> SUFFICES ASSUME KafkaInv, [Next]_vars PROVE CommittedWereHandled'
  OBVIOUS
<1>0. TypeOK /\ OffsetInv /\ CommittedWereHandled
  BY DEF KafkaInv
<1> USE DEF loopVars, managerVars, workVars, groupVars, offsetVars
<1>1. ASSUME LoopChecks \/ AllowRebalance \/ CloseReader
      PROVE  CommittedWereHandled'
  BY <1>0, <1>1 DEF LoopChecks, AllowRebalance, CloseReader, TypeOK, OffsetInv, CommittedWereHandled, Done
<1>2. ASSUME Poll \/ PollAgain \/ PollFails
      PROVE  CommittedWereHandled'
  BY <1>0, <1>2 DEF Poll, PollAgain, PollFails, Fetches, TypeOK, OffsetInv, CommittedWereHandled, Done
<1>3. ASSUME StopFlag \/ StopAll \/ RunReturns
      PROVE  CommittedWereHandled'
  BY <1>0, <1>3 DEF StopFlag, StopAll, RunReturns, Stopped, CoffinDead, TypeOK, OffsetInv, CommittedWereHandled, Done
<1>4. ASSUME NEW p \in Partitions, Handle(p)
      PROVE  CommittedWereHandled'
  BY <1>0, <1>4 DEF Handle, AfterReceive, TypeOK, OffsetInv, CommittedWereHandled, Done
<1>5. ASSUME NEW p \in Partitions, HandleRecords(p) \/ CommitRecords(p) \/ CommitFails(p) \/ ConsumeReturns(p)
      PROVE  CommittedWereHandled'
  <2>1. CASE HandleRecords(p)
    BY <1>0, <2>1 DEF HandleRecords, Becomes, TypeOK, OffsetInv, CommittedWereHandled, Done
  <2>2. CASE CommitRecords(p)
    BY <1>0, <2>2 DEF CommitRecords, Becomes, TypeOK, OffsetInv, CommittedWereHandled, Done
  <2>3. CASE CommitFails(p)
    BY <1>0, <2>3 DEF CommitFails, Becomes, TypeOK, OffsetInv, CommittedWereHandled, Done
  <2>4. CASE ConsumeReturns(p)
    BY <1>0, <2>4 DEF ConsumeReturns, Becomes, TypeOK, OffsetInv, CommittedWereHandled, Done
  <2> QED
    BY <1>5, <2>1, <2>2, <2>3, <2>4
<1>6. ASSUME NEW ps \in SUBSET Partitions, AssignStart(ps)
      PROVE  CommittedWereHandled'
  BY <1>0, <1>6 DEF AssignStart, RebalanceBlocked, TypeOK, OffsetInv, CommittedWereHandled, Done
<1>7. ASSUME NEW p \in Partitions, AssignRegister(p)
      PROVE  CommittedWereHandled'
  BY <1>0, <1>7 DEF AssignRegister, TypeOK, OffsetInv, CommittedWereHandled, Done
<1>8. ASSUME NEW p \in Partitions, AssignGo(p)
      PROVE  CommittedWereHandled'
  BY <1>0, <1>8 DEF AssignGo, CoffinDead, TypeOK, OffsetInv, CommittedWereHandled, Done
<1>9. ASSUME AssignDone
      PROVE  CommittedWereHandled'
  BY <1>0, <1>9 DEF AssignDone, NoCallback, TypeOK, OffsetInv, CommittedWereHandled, Done
<1>10. ASSUME NEW ps \in SUBSET Partitions, RevokeStart(ps)
      PROVE  CommittedWereHandled'
  BY <1>0, <1>10 DEF RevokeStart, RebalanceBlocked, TypeOK, OffsetInv, CommittedWereHandled, Done
<1>11. ASSUME NEW p \in Partitions, RevokeTake(p)
      PROVE  CommittedWereHandled'
  BY <1>0, <1>11 DEF RevokeTake, Stopped, TypeOK, OffsetInv, CommittedWereHandled, Done
<1>12. ASSUME RevokeDone
      PROVE  CommittedWereHandled'
  BY <1>0, <1>12 DEF RevokeDone, NoCallback, AllFinished, TypeOK, OffsetInv, CommittedWereHandled, Done
<1>13. ASSUME NEW p \in Partitions, OtherTakes(p) \/ OtherConsumes(p) \/ OtherLeaves(p)
      PROVE  CommittedWereHandled'
  <2>1. CASE OtherConsumes(p)
    <3>1. /\ committed'[p] = committed[p] + 1 /\ handled'[p] = handled[p] \union {committed[p] + 1}
          /\ \A q \in Partitions : q # p => committed'[q] = committed[q] /\ handled'[q] = handled[q]
          /\ dropped' = dropped
      BY <1>0, <2>1 DEF OtherConsumes, TypeOK
    <3>2. 1..(committed[p] + 1) = (1..committed[p]) \union {committed[p] + 1}
      BY <1>0 DEF TypeOK
    <3> QED
      BY <1>0, <3>1, <3>2 DEF CommittedWereHandled
  <2>2. CASE OtherTakes(p) \/ OtherLeaves(p)
    BY <1>0, <2>2 DEF OtherTakes, OtherLeaves, CommittedWereHandled
  <2> QED
    BY <1>13, <2>1, <2>2
<1>14. ASSUME Stop \/ CtxEnds
      PROVE  CommittedWereHandled'
  BY <1>0, <1>14 DEF Stop, CtxEnds, TypeOK, OffsetInv, CommittedWereHandled, Done
<1>15. CASE UNCHANGED vars
  BY <1>0, <1>15 DEF vars, TypeOK, OffsetInv, CommittedWereHandled, Done
<1> QED
  BY <1>1, <1>2, <1>3, <1>4, <1>5, <1>6, <1>7, <1>8, <1>9, <1>10, <1>11, <1>12, <1>13, <1>14, <1>15
     DEF Next, Poller, Consumer, Callback, Leave, Rebalance, Others

\* Go and the closed channel of the message handler.
LEMMA PanicStep == KafkaInv /\ [Next]_vars => NeverPanics'
<1> SUFFICES ASSUME KafkaInv, [Next]_vars PROVE NeverPanics'
  OBVIOUS
<1>0. TypeOK /\ LoopInv /\ CallbackInv /\ NeverPanics
  BY DEF KafkaInv
<1> USE DEF loopVars, managerVars, workVars, groupVars, offsetVars
<1>1. ASSUME LoopChecks \/ AllowRebalance \/ CloseReader
      PROVE  NeverPanics'
  BY <1>0, <1>1 DEF LoopChecks, AllowRebalance, CloseReader, TypeOK, LoopInv, CallbackInv, NeverPanics, Tracked, Closing
<1>2. ASSUME Poll \/ PollAgain \/ PollFails
      PROVE  NeverPanics'
  BY <1>0, <1>2 DEF Poll, PollAgain, PollFails, Fetches, TypeOK, LoopInv, CallbackInv, NeverPanics, Tracked, Closing
<1>3. ASSUME StopFlag \/ StopAll \/ RunReturns
      PROVE  NeverPanics'
  BY <1>0, <1>3 DEF StopFlag, StopAll, RunReturns, Stopped, CoffinDead, TypeOK, LoopInv, CallbackInv, NeverPanics, Tracked, Closing
<1>4. ASSUME NEW p \in Partitions, Handle(p)
      PROVE  NeverPanics'
  BY <1>0, <1>4 DEF Handle, AfterReceive, TypeOK, LoopInv, CallbackInv, NeverPanics, Tracked, Closing
<1>5. ASSUME NEW p \in Partitions, HandleRecords(p) \/ CommitRecords(p) \/ CommitFails(p) \/ ConsumeReturns(p)
      PROVE  NeverPanics'
  BY <1>0, <1>5 DEF HandleRecords, CommitRecords, CommitFails, ConsumeReturns, Becomes, TypeOK, LoopInv, CallbackInv, NeverPanics, Tracked, Closing
<1>6. ASSUME NEW ps \in SUBSET Partitions, AssignStart(ps)
      PROVE  NeverPanics'
  BY <1>0, <1>6 DEF AssignStart, RebalanceBlocked, TypeOK, LoopInv, CallbackInv, NeverPanics, Tracked, Closing
<1>7. ASSUME NEW p \in Partitions, AssignRegister(p)
      PROVE  NeverPanics'
  BY <1>0, <1>7 DEF AssignRegister, TypeOK, LoopInv, CallbackInv, NeverPanics, Tracked, Closing
<1>8. ASSUME NEW p \in Partitions, AssignGo(p)
      PROVE  NeverPanics'
  BY <1>0, <1>8 DEF AssignGo, CoffinDead, TypeOK, LoopInv, CallbackInv, NeverPanics, Tracked, Closing
<1>9. ASSUME AssignDone
      PROVE  NeverPanics'
  BY <1>0, <1>9 DEF AssignDone, NoCallback, TypeOK, LoopInv, CallbackInv, NeverPanics, Tracked, Closing
<1>10. ASSUME NEW ps \in SUBSET Partitions, RevokeStart(ps)
      PROVE  NeverPanics'
  BY <1>0, <1>10 DEF RevokeStart, RebalanceBlocked, TypeOK, LoopInv, CallbackInv, NeverPanics, Tracked, Closing
<1>11. ASSUME NEW p \in Partitions, RevokeTake(p)
      PROVE  NeverPanics'
  BY <1>0, <1>11 DEF RevokeTake, Stopped, TypeOK, LoopInv, CallbackInv, NeverPanics, Tracked, Closing
<1>12. ASSUME RevokeDone
      PROVE  NeverPanics'
  BY <1>0, <1>12 DEF RevokeDone, NoCallback, AllFinished, TypeOK, LoopInv, CallbackInv, NeverPanics, Tracked, Closing
<1>13. ASSUME NEW p \in Partitions, OtherTakes(p) \/ OtherConsumes(p) \/ OtherLeaves(p)
      PROVE  NeverPanics'
  BY <1>0, <1>13 DEF OtherTakes, OtherConsumes, OtherLeaves, TypeOK, LoopInv, CallbackInv, NeverPanics, Tracked, Closing
<1>14. ASSUME Stop \/ CtxEnds
      PROVE  NeverPanics'
  BY <1>0, <1>14 DEF Stop, CtxEnds, TypeOK, LoopInv, CallbackInv, NeverPanics, Tracked, Closing
<1>15. CASE UNCHANGED vars
  BY <1>0, <1>15 DEF vars, TypeOK, LoopInv, CallbackInv, NeverPanics, Tracked, Closing
<1> QED
  BY <1>1, <1>2, <1>3, <1>4, <1>5, <1>6, <1>7, <1>8, <1>9, <1>10, <1>11, <1>12, <1>13, <1>14, <1>15
     DEF Next, Poller, Consumer, Callback, Leave, Rebalance, Others

\* The invariant is inductive.
THEOREM KafkaInvariant == Spec => []KafkaInv
<1>1. KafkaInv /\ [Next]_vars => KafkaInv'
  BY TypeStep, LoopStep, CallbackStep, MapStep, OffsetStep, CommitStep, PanicStep DEF KafkaInv
<1> QED
  BY InitInv, <1>1, PTL DEF Spec

\* CommitRecords after the batch, and a fetch that restarts at the committed offset: up
\* to the committed offset every record was passed to a handler, whatever rebalances,
\* failed commits and stops come in between.
THEOREM NoRecordSkipped == Spec => []CommittedWereHandled
<1>1. KafkaInv => CommittedWereHandled
  BY DEF KafkaInv
<1> QED
  BY KafkaInvariant, <1>1, PTL

\* OnPartitionsLostOrRevoked only returns once the goroutines of the partitions have,
\* so that no partition is another consumer's while we work on it.
THEOREM NoneRevokedInWork == Spec => []RevokedAreFinished
<1>1. KafkaInv => RevokedAreFinished
  BY DEF KafkaInv, MapInv, RevokedAreFinished
<1> QED
  BY KafkaInvariant, <1>1, PTL

\* PartitionManager.Stop and the wait for the coffin: when Run returns no goroutine can
\* send to the closed handler, and Go on the dead coffin needs a context that is done.
THEOREM NoPanic == Spec => []NeverPanics
<1>1. KafkaInv => NeverPanics
  BY DEF KafkaInv
<1> QED
  BY KafkaInvariant, <1>1, PTL

=============================================================================
