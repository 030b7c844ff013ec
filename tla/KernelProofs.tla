---------------------------- MODULE KernelProofs ----------------------------
(***************************************************************************)
(* Proofs about Kernel for any number of stages and any finite set of       *)
(* modules.                                                                *)
(***************************************************************************)
EXTENDS Kernel, FiniteSetTheorems, TLAPS

\* The type correctness of the kernel's state, except for the lower bound of
\* the foreground counter, which needs the counting argument below.
Types ==
    /\ runPc \in {"boot", "healthy", "up", "waitStopped", "exit", "shutdown", "handler", "exited"}
    /\ cur \in 1..(N + 1)
    /\ spawner \in [Stages -> {"none", "spawning", "done"}]
    /\ phase \in [Modules -> {"new", "running", "exited", "result", "unwind", "dead"}]
    /\ outcome \in [Modules -> Outcomes]
    /\ dying \in [Stages -> BOOLEAN]
    /\ tombErr \in [Stages -> Errors]
    /\ stageErr \in [Stages -> Errors]
    /\ terminated \in [Stages -> BOOLEAN]
    /\ stopping \in BOOLEAN
    /\ stopIdx \in 0..N
    /\ stopPc \in {"running", "waiting"}
    /\ stopped \in BOOLEAN
    /\ fgModules \in Int
    /\ timer \in {"off", "armed", "store", "call", "done"}
    /\ sigPc \in {"first", "second", "store", "call", "done"}
    /\ exitCode \in Codes
    /\ loaded \in Codes \union {NoCode}
    /\ reported \in Codes \union {NoCode}
    /\ runPc = "healthy" => cur \in Stages
    /\ \A m \in Modules : phase[m] \in {"exited", "result", "unwind", "dead"} => outcome[m] # "pending"

LEMMA TypesInit == Init => Types
<1> SUFFICES ASSUME Init PROVE Types
  OBVIOUS
<1>1. Cardinality(Foreground) \in Nat
  BY KernelAssumption, FS_Subset, FS_CardinalityType DEF Foreground
<1>2. /\ runPc \in {"boot", "healthy"} /\ cur \in 1..(N + 1) /\ stopIdx \in 0..N
      /\ cur \in Stages /\ fgModules \in Int
  BY <1>1, KernelAssumption DEF Init, Stages
<1>3. /\ spawner \in [Stages -> {"none", "spawning", "done"}]
      /\ phase \in [Modules -> {"new", "running", "exited", "result", "unwind", "dead"}]
      /\ outcome \in [Modules -> Outcomes]
  BY DEF Init, Outcomes
<1>4. /\ dying \in [Stages -> BOOLEAN] /\ terminated \in [Stages -> BOOLEAN]
      /\ stopping \in BOOLEAN /\ stopped \in BOOLEAN
  BY DEF Init
<1>5. tombErr \in [Stages -> Errors] /\ stageErr \in [Stages -> Errors]
  BY DEF Init, Errors
<1>6. /\ stopPc \in {"running", "waiting"}
      /\ timer \in {"off", "armed", "store", "call", "done"}
      /\ sigPc \in {"first", "second", "store", "call", "done"}
      /\ runPc = "boot"
  BY DEF Init
<1>7. exitCode \in Codes /\ loaded \in Codes \union {NoCode} /\ reported \in Codes \union {NoCode}
  BY DEF Init, Codes, NoCode, ExitCodeOk, ExitCodeErr, ExitCodeForced
<1>8. \A m \in Modules : phase[m] = "new"
  BY DEF Init
<1> QED
  BY <1>2, <1>3, <1>4, <1>5, <1>6, <1>7, <1>8 DEF Types

\* One step of a coffin keeps the types of what it changes.
LEMMA KillType ==
  ASSUME Types, NEW s \in Stages, NEW reason \in Errors, Kill(s, reason)
  PROVE  dying' \in [Stages -> BOOLEAN] /\ tombErr' \in [Stages -> Errors]
<1>1. dying' \in [Stages -> BOOLEAN]
  BY DEF Types, Kill
<1>2. tombErr' \in [Stages -> Errors]
  BY DEF Types, Kill
<1> QED
  BY <1>1, <1>2

LEMMA StopType ==
  ASSUME Types, DoStop \/ NoStop
  PROVE  stopping' \in BOOLEAN /\ timer' \in {"off", "armed", "store", "call", "done"}
<1>1. stopping' \in BOOLEAN
  BY DEF Types, DoStop, NoStop
<1>2. timer' \in {"off", "armed", "store", "call", "done"}
  BY DEF Types, DoStop, NoStop
<1> QED
  BY <1>1, <1>2

LEMMA TypesStep == Types /\ [Next]_vars => Types'
<1> SUFFICES ASSUME Types, [Next]_vars PROVE Types'
  OBVIOUS
<1> USE DEF Types, stageVars, moduleVars, stopVars, runVars, exitVars, forceVars
<1>1. CASE StartStage
  BY <1>1 DEF StartStage
<1>2. CASE StageHealthy
  BY <1>2, KernelAssumption DEF StageHealthy, Stages
<1>3. CASE HealthTimeout
  BY <1>3 DEF HealthTimeout, DoStop
<1>4. CASE AllStagesUp
  BY <1>4 DEF AllStagesUp
<1>5. CASE ContextDone
  BY <1>5 DEF ContextDone, DoStop
<1>6. CASE Verdict
  BY <1>6 DEF Verdict, NewExitCode, Codes
<1>7. CASE ExitLoad
  BY <1>7 DEF ExitLoad
<1>8. ASSUME NEW failed \in BOOLEAN, CloseLogger(failed) PROVE Types'
  BY <1>8 DEF CloseLogger, NewExitCode, Codes
<1>9. CASE ExitCall
  BY <1>9 DEF ExitCall, CallExitHandler
<1>10. ASSUME NEW s \in Stages, SpawnerDone(s) PROVE Types'
  <2>1. "nil" \in Errors
    BY DEF Errors
  <2>2. dying' \in [Stages -> BOOLEAN] /\ tombErr' \in [Stages -> Errors]
    BY <1>10, <2>1, KillType DEF SpawnerDone
  <2>3. spawner' \in [Stages -> {"none", "spawning", "done"}]
    BY <1>10 DEF SpawnerDone
  <2> QED
    BY <1>10, <2>2, <2>3 DEF SpawnerDone
<1>11. ASSUME NEW m \in Modules, SpawnModule(m) PROVE Types'
  BY <1>11 DEF SpawnModule
<1>12. ASSUME NEW m \in Modules, NEW how \in Endings[m], ModuleReturns(m, how) PROVE Types'
  <2>1. Endings[m] \subseteq {"nil", "err", "canceled", "goexit"}
    BY KernelAssumption
  <2>2. how \in Outcomes /\ how # "pending"
    BY <2>1 DEF Outcomes
  <2>3. outcome' \in [Modules -> Outcomes]
    BY <1>12, <2>2 DEF ModuleReturns
  <2>4. phase' \in [Modules -> {"new", "running", "exited", "result", "unwind", "dead"}]
    BY <1>12 DEF ModuleReturns
  <2> QED
    BY <1>12, <2>2, <2>3, <2>4 DEF ModuleReturns
<1>13. ASSUME NEW m \in Modules, ModuleExited(m) PROVE Types'
  <2>1. phase' \in [Modules -> {"new", "running", "exited", "result", "unwind", "dead"}]
    BY <1>13 DEF ModuleExited
  <2>2. fgModules' \in Int
    BY <1>13 DEF ModuleExited
  <2>3. stopping' \in BOOLEAN /\ timer' \in {"off", "armed", "store", "call", "done"}
    BY <1>13, StopType DEF ModuleExited
  <2> QED
    BY <1>13, <2>1, <2>2, <2>3 DEF ModuleExited
<1>14. ASSUME NEW m \in Modules, ModuleResult(m) PROVE Types'
  <2>1. phase' \in [Modules -> {"new", "running", "exited", "result", "unwind", "dead"}]
    BY <1>14 DEF ModuleResult
  <2>2. stopping' \in BOOLEAN /\ timer' \in {"off", "armed", "store", "call", "done"}
    BY <1>14, StopType DEF ModuleResult
  <2> QED
    BY <1>14, <2>1, <2>2 DEF ModuleResult
<1>15. ASSUME NEW m \in Modules, ModuleUnwind(m) PROVE Types'
  <2>1. phase' \in [Modules -> {"new", "running", "exited", "result", "unwind", "dead"}]
    BY <1>15 DEF ModuleUnwind
  <2>2. StageOf[m] \in Stages
    BY KernelAssumption
  <2>3. /\ outcome[m] \in Outcomes /\ "nil" \in Errors
        /\ \/ Kill(StageOf[m], outcome[m])
           \/ Kill(StageOf[m], "nil")
           \/ UNCHANGED <<dying, tombErr>>
    BY <1>15 DEF ModuleUnwind, Errors
  <2>4. dying' \in [Stages -> BOOLEAN]
    BY <2>2, <2>3 DEF Kill
  <2>5. tombErr' \in [Stages -> Errors]
    <3>1. outcome[m] \in Errors
      BY <1>15, <2>3 DEF ModuleUnwind, Outcomes, Errors
    <3> QED
      BY <1>15, <2>2, <2>3, <3>1 DEF Kill
  <2> QED
    BY <1>15, <2>1, <2>4, <2>5 DEF ModuleUnwind
<1>16. CASE Stop
  BY <1>16 DEF Stop, DoStop
<1>17. CASE StopKill
  <2>1. "stopping" \in Errors
    BY DEF Errors
  <2> QED
    BY <1>17, <2>1, KillType DEF StopKill
<1>18. CASE StopCollect
  <2>1. CollectedErr(stopIdx) \in Errors
    BY <1>18 DEF StopCollect, CollectedErr, WaitErr, Errors
  <2>2. stageErr' \in [Stages -> Errors]
    BY <1>18, <2>1 DEF StopCollect
  <2>3. terminated' \in [Stages -> BOOLEAN]
    BY <1>18 DEF StopCollect
  <2>4. stopIdx' \in 0..N /\ stopPc' \in {"running", "waiting"}
    BY <1>18, KernelAssumption DEF StopCollect, Stages
  <2> QED
    BY <1>18, <2>2, <2>3, <2>4 DEF StopCollect
<1>19. CASE SignalStopped
  BY <1>19 DEF SignalStopped
<1>20. CASE TimerFires
  BY <1>20 DEF TimerFires
<1>21. CASE TimerSeesStopped
  BY <1>21 DEF TimerSeesStopped
<1>22. CASE FirstSignal
  BY <1>22 DEF FirstSignal, DoStop
<1>23. CASE SecondSignal
  BY <1>23 DEF SecondSignal
<1>24. CASE ForceStore
  BY <1>24 DEF ForceStore, Codes
<1>25. CASE ForceCall
  BY <1>25 DEF ForceCall, CallExitHandler, Codes
<1>26. CASE UNCHANGED vars
  BY <1>26 DEF vars
<1> QED
  BY <1>1, <1>2, <1>3, <1>4, <1>5, <1>6, <1>7, <1>8, <1>9, <1>10, <1>11, <1>12, <1>13,
     <1>14, <1>15, <1>16, <1>17, <1>18, <1>19, <1>20, <1>21, <1>22, <1>23, <1>24, <1>25, <1>26
     DEF Next, RunStep, ModuleStep, ForceStep, Left

-----------------------------------------------------------------------------
(* The inductive invariant behind the shutdown order and the exit code.     *)

\* A stage is run once, in its turn.
BootInv ==
    \A s \in Stages : cur < s \/ (cur = s /\ runPc = "boot") => spawner[s] = "none"

\* The running signal of a stage means that its modules were all started.
SpawnInv ==
    \A m \in Modules : spawner[StageOf[m]] = "done" => phase[m] # "new"

\* The stop goroutine works its way down: the stages above stopIdx are
\* terminated, and a terminated stage has spawned its modules and lost them all.
StopInv ==
    /\ \A s \in Stages : terminated[s] <=> stopIdx < s
    /\ \A s \in Stages : terminated[s] => spawner[s] = "done"
    /\ \A m \in Modules : terminated[StageOf[m]] => phase[m] = "dead"
    /\ stopPc = "waiting" => stopIdx \in Stages /\ spawner[stopIdx] = "done"
    /\ \A s \in Stages : tombErr[s] = "stopping" => stopIdx <= s
    /\ stopped => \A s \in Stages : terminated[s]

\* A coffin's reason other than a cancellation comes from one of its modules, and
\* the error of a terminated stage tells exactly if one of them failed.
ErrInv ==
    /\ \A s \in Stages : tombErr[s] \in {"err", "goexit"} =>
          \E m \in Modules : StageOf[m] = s /\ Failed(m) /\ phase[m] = "dead"
    /\ \A s \in Stages : terminated[s] =>
          (stageErr[s] \in {"nil", "stopping"} <=> \A m \in Modules : StageOf[m] = s => ~Failed(m))

\* Run judges after all stages are terminated, and a code ok, wherever it has
\* got to by now, means that no module failed.
NoneFailed == \A m \in Modules : ~Failed(m)

ExitInv ==
    /\ runPc \in {"exit", "shutdown", "handler", "exited"} => stopped
    /\ runPc \in {"boot", "healthy", "up", "waitStopped"} => exitCode # ExitCodeOk
    /\ runPc \in {"exit", "shutdown"} /\ exitCode # ExitCodeForced =>
          (exitCode = ExitCodeOk <=> NoneFailed)
    /\ loaded = ExitCodeOk => stopped /\ NoneFailed
    /\ reported = ExitCodeOk => stopped /\ NoneFailed

KernelInv == Types /\ BootInv /\ SpawnInv /\ StopInv /\ ErrInv /\ ExitInv

\* What the invariants on stages and modules are about.
core == <<spawner, phase, outcome, dying, tombErr, stageErr, terminated, stopIdx, stopPc, stopped>>

CoreStep ==
    \/ StartStage \/ StopKill \/ StopCollect \/ SignalStopped
    \/ \E s \in Stages : SpawnerDone(s)
    \/ \E m \in Modules : ModuleStep(m)
    \/ \E m \in Modules : \E how \in Endings[m] : ModuleReturns(m, how)

\* The other steps leave it alone.
LEMMA CoreFrame == [Next]_vars => CoreStep \/ UNCHANGED core
<1> SUFFICES ASSUME [Next]_vars, ~CoreStep PROVE UNCHANGED core
  OBVIOUS
<1> USE DEF core, stageVars, moduleVars, stopVars
<1>1. CASE StageHealthy \/ HealthTimeout \/ AllStagesUp \/ ContextDone
  BY <1>1 DEF StageHealthy, HealthTimeout, AllStagesUp, ContextDone
<1>2. CASE Verdict \/ ExitLoad \/ (\E failed \in BOOLEAN : CloseLogger(failed)) \/ ExitCall
  BY <1>2 DEF Verdict, ExitLoad, CloseLogger, ExitCall
<1>3. CASE Stop \/ FirstSignal \/ SecondSignal
  BY <1>3 DEF Stop, FirstSignal, SecondSignal
<1>4. CASE ForceStep
  BY <1>4 DEF ForceStep, TimerFires, TimerSeesStopped, ForceStore, ForceCall
<1>5. CASE UNCHANGED vars
  BY <1>5 DEF vars
<1> QED
  BY <1>1, <1>2, <1>3, <1>4, <1>5 DEF Next, RunStep, CoreStep, Left

LEMMA BootStep == Types /\ BootInv /\ [Next]_vars => BootInv'
<1> SUFFICES ASSUME Types, BootInv, [Next]_vars PROVE BootInv'
  OBVIOUS
<1> USE DEF Types, BootInv, stageVars, runVars
<1>1. CASE StartStage
  BY <1>1, KernelAssumption DEF StartStage, Stages
<1>2. CASE StageHealthy
  BY <1>2, KernelAssumption DEF StageHealthy, Stages
<1>3. ASSUME NEW s \in Stages, SpawnerDone(s) PROVE BootInv'
  BY <1>3, KernelAssumption DEF SpawnerDone, Stages
<1>4. CASE HealthTimeout \/ AllStagesUp \/ ContextDone \/ Verdict \/ ExitLoad \/ ExitCall
          \/ \E failed \in BOOLEAN : CloseLogger(failed)
  BY <1>4 DEF HealthTimeout, AllStagesUp, ContextDone, Verdict, ExitLoad, ExitCall, CloseLogger
<1>5. ASSUME NEW m \in Modules, ModuleStep(m) PROVE BootInv'
  BY <1>5 DEF ModuleStep, SpawnModule, ModuleExited, ModuleResult, ModuleUnwind
<1>6. ASSUME NEW m \in Modules, NEW how \in Endings[m], ModuleReturns(m, how) PROVE BootInv'
  BY <1>6 DEF ModuleReturns
<1>7. CASE Stop \/ StopKill \/ StopCollect \/ SignalStopped \/ FirstSignal \/ SecondSignal
  BY <1>7 DEF Stop, StopKill, StopCollect, SignalStopped, FirstSignal, SecondSignal
<1>8. CASE ForceStep
  BY <1>8 DEF ForceStep, TimerFires, TimerSeesStopped, ForceStore, ForceCall
<1>9. CASE UNCHANGED vars
  BY <1>9 DEF vars
<1> QED
  BY <1>1, <1>2, <1>3, <1>4, <1>5, <1>6, <1>7, <1>8, <1>9 DEF Next, RunStep, Left

LEMMA SpawnStep == Types /\ SpawnInv /\ [Next]_vars => SpawnInv'
<1> SUFFICES ASSUME Types, SpawnInv, [Next]_vars, NEW m \in Modules,
                    (spawner[StageOf[m]] = "done")'
             PROVE  (phase[m] # "new")'
  BY DEF SpawnInv
<1> USE DEF Types, SpawnInv, stageVars, moduleVars
<1>1. StageOf[m] \in Stages
  BY KernelAssumption
<1>2. CASE StartStage
  BY <1>1, <1>2 DEF StartStage
<1>3. ASSUME NEW s \in Stages, SpawnerDone(s) PROVE (phase[m] # "new")'
  BY <1>1, <1>3 DEF SpawnerDone, MembersOf
<1>4. ASSUME NEW n \in Modules, ModuleStep(n) PROVE (phase[m] # "new")'
  BY <1>1, <1>4 DEF ModuleStep, SpawnModule, ModuleExited, ModuleResult, ModuleUnwind
<1>5. ASSUME NEW n \in Modules, NEW how \in Endings[n], ModuleReturns(n, how) PROVE (phase[m] # "new")'
  BY <1>1, <1>5 DEF ModuleReturns
<1>6. CASE StopKill \/ StopCollect \/ SignalStopped
  BY <1>1, <1>6 DEF StopKill, StopCollect, SignalStopped
<1>7. CASE UNCHANGED core
  BY <1>1, <1>7 DEF core
<1> QED
  BY <1>2, <1>3, <1>4, <1>5, <1>6, <1>7, CoreFrame DEF CoreStep

LEMMA StopStep == Types /\ BootInv /\ SpawnInv /\ StopInv /\ [Next]_vars => StopInv'
<1> SUFFICES ASSUME Types, BootInv, SpawnInv, StopInv, [Next]_vars PROVE StopInv'
  OBVIOUS
<1> USE DEF Types, StopInv, stageVars, moduleVars, stopVars
<1>0. \A m \in Modules : StageOf[m] \in Stages
  BY KernelAssumption
<1>1. CASE StartStage
  BY <1>0, <1>1 DEF StartStage, BootInv
<1>2. ASSUME NEW s \in Stages, SpawnerDone(s) PROVE StopInv'
  BY <1>0, <1>2 DEF SpawnerDone, Kill, MembersOf
<1>3. ASSUME NEW m \in Modules, SpawnModule(m) \/ ModuleExited(m) \/ ModuleResult(m) PROVE StopInv'
  BY <1>0, <1>3 DEF SpawnModule, ModuleExited, ModuleResult
<1>4. ASSUME NEW m \in Modules, ModuleUnwind(m) PROVE StopInv'
  BY <1>0, <1>4 DEF ModuleUnwind, Kill, Outcomes
<1>5. ASSUME NEW m \in Modules, NEW how \in Endings[m], ModuleReturns(m, how) PROVE StopInv'
  BY <1>0, <1>5 DEF ModuleReturns
<1>6. CASE StopKill
  BY <1>0, <1>6 DEF StopKill, Kill, HasSpawned
<1>7. CASE StopCollect
  BY <1>0, <1>7, KernelAssumption DEF StopCollect, Drained, MembersOf, Stages, SpawnInv
<1>8. CASE SignalStopped
  BY <1>0, <1>8 DEF SignalStopped
<1>9. CASE UNCHANGED core
  BY <1>0, <1>9 DEF core
<1> QED
  BY <1>1, <1>2, <1>3, <1>4, <1>5, <1>6, <1>7, <1>8, <1>9, CoreFrame DEF CoreStep, ModuleStep

\* A module that has returned to its coffin keeps its outcome.
LEMMA DeadStays ==
  ASSUME Types, [Next]_vars, NEW m \in Modules, phase[m] = "dead"
  PROVE  phase'[m] = "dead" /\ outcome'[m] = outcome[m]
<1> USE DEF Types, stageVars, moduleVars
<1>1. ASSUME NEW n \in Modules, ModuleStep(n) PROVE phase'[m] = "dead" /\ outcome'[m] = outcome[m]
  BY <1>1 DEF ModuleStep, SpawnModule, ModuleExited, ModuleResult, ModuleUnwind
<1>2. ASSUME NEW n \in Modules, NEW how \in Endings[n], ModuleReturns(n, how)
      PROVE  phase'[m] = "dead" /\ outcome'[m] = outcome[m]
  BY <1>2 DEF ModuleReturns
<1>3. CASE StartStage \/ StopKill \/ StopCollect \/ SignalStopped \/ \E s \in Stages : SpawnerDone(s)
  BY <1>3 DEF StartStage, StopKill, StopCollect, SignalStopped, SpawnerDone
<1>4. CASE UNCHANGED core
  BY <1>4 DEF core
<1> QED
  BY <1>1, <1>2, <1>3, <1>4, CoreFrame DEF CoreStep

\* What stopWait leaves in a stage whose goroutines are gone.
LEMMA CollectedExact ==
  ASSUME Types, ErrInv, NEW s \in Stages
  PROVE  CollectedErr(s) \in {"nil", "stopping"} <=> \A m \in Modules : StageOf[m] = s => ~Failed(m)
<1> USE DEF Types, ErrInv, Failed, CollectedErr, WaitErr, MembersOf
<1>1. CASE \E m \in Modules : StageOf[m] = s /\ outcome[m] = "goexit"
  BY <1>1
<1>2. CASE /\ ~\E m \in Modules : StageOf[m] = s /\ outcome[m] = "goexit"
           /\ \E m \in Modules : StageOf[m] = s /\ outcome[m] = "err"
  BY <1>2 DEF Errors
<1>3. CASE \A m \in Modules : StageOf[m] = s => ~Failed(m)
  BY <1>3 DEF Errors
<1> QED
  BY <1>1, <1>2, <1>3

LEMMA ErrStep == Types /\ BootInv /\ SpawnInv /\ StopInv /\ ErrInv /\ [Next]_vars => ErrInv'
<1> SUFFICES ASSUME Types, BootInv, SpawnInv, StopInv, ErrInv, [Next]_vars PROVE ErrInv'
  OBVIOUS
<1>0. \A m \in Modules : StageOf[m] \in Stages
  BY KernelAssumption
<1>1. ASSUME NEW s \in Stages, tombErr'[s] \in {"err", "goexit"}
      PROVE  (\E m \in Modules : StageOf[m] = s /\ Failed(m) /\ phase[m] = "dead")'
  <2>1. CASE tombErr[s] \in {"err", "goexit"}
    BY <2>1, DeadStays DEF ErrInv, Failed
  <2>2. CASE tombErr[s] \notin {"err", "goexit"}
    <3>1. PICK m \in Modules : ModuleUnwind(m) /\ StageOf[m] = s /\ tombErr'[s] = outcome[m]
      <4> USE DEF Types, stageVars
      <4>1. ASSUME NEW m \in Modules, ModuleUnwind(m) PROVE StageOf[m] = s /\ tombErr'[s] = outcome[m]
        BY <1>0, <1>1, <2>2, <4>1 DEF ModuleUnwind, Kill
      <4>2. CASE StopKill \/ \E t \in Stages : SpawnerDone(t)
        BY <1>1, <2>2, <4>2 DEF StopKill, SpawnerDone, Kill
      <4>3. ASSUME NEW m \in Modules, SpawnModule(m) \/ ModuleExited(m) \/ ModuleResult(m) PROVE FALSE
        BY <1>1, <2>2, <4>3 DEF SpawnModule, ModuleExited, ModuleResult
      <4>4. CASE StartStage \/ StopCollect \/ SignalStopped
        BY <1>1, <2>2, <4>4 DEF StartStage, StopCollect, SignalStopped
      <4>5. ASSUME NEW m \in Modules, NEW how \in Endings[m], ModuleReturns(m, how) PROVE FALSE
        BY <1>1, <2>2, <4>5 DEF ModuleReturns
      <4>6. CASE UNCHANGED core
        BY <1>1, <2>2, <4>6 DEF core
      <4> QED
        BY <4>1, <4>2, <4>3, <4>4, <4>5, <4>6, CoreFrame DEF CoreStep, ModuleStep
    <3>2. outcome'[m] = outcome[m] /\ phase'[m] = "dead"
      BY <3>1 DEF ModuleUnwind, Types
    <3> QED
      BY <1>1, <3>1, <3>2 DEF Failed
  <2> QED
    BY <2>1, <2>2
<1>2. ASSUME NEW s \in Stages, terminated'[s]
      PROVE  (stageErr[s] \in {"nil", "stopping"} <=> \A m \in Modules : StageOf[m] = s => ~Failed(m))'
  <2>1. CASE terminated[s]
    <3>1. \A m \in Modules : StageOf[m] = s => phase[m] = "dead"
      BY <2>1 DEF StopInv
    <3>2. \A m \in Modules : StageOf[m] = s => outcome'[m] = outcome[m]
      BY <3>1, DeadStays
    <3>3. stageErr'[s] = stageErr[s]
      <4> USE DEF Types, stageVars
      <4>1. CASE StopCollect
        BY <2>1, <4>1, KernelAssumption DEF StopCollect, StopInv, Stages
      <4>2. CASE StopKill \/ StartStage \/ SignalStopped \/ \E t \in Stages : SpawnerDone(t)
        BY <4>2 DEF StopKill, StartStage, SignalStopped, SpawnerDone
      <4>3. CASE \E m \in Modules : ModuleStep(m)
        BY <4>3 DEF ModuleStep, SpawnModule, ModuleExited, ModuleResult, ModuleUnwind
      <4>4. CASE \E m \in Modules : \E how \in Endings[m] : ModuleReturns(m, how)
        BY <4>4 DEF ModuleReturns
      <4>5. CASE UNCHANGED core
        BY <4>5 DEF core
      <4> QED
        BY <4>1, <4>2, <4>3, <4>4, <4>5, CoreFrame DEF CoreStep
    <3> QED
      BY <2>1, <3>2, <3>3 DEF ErrInv, Failed
  <2>2. CASE ~terminated[s]
    <3>1. StopCollect /\ stopIdx = s
      <4> USE DEF Types, stageVars
      <4>1. CASE StopCollect
        BY <1>2, <2>2, <4>1 DEF StopCollect
      <4>2. CASE StopKill \/ StartStage \/ SignalStopped \/ \E t \in Stages : SpawnerDone(t)
        BY <1>2, <2>2, <4>2 DEF StopKill, StartStage, SignalStopped, SpawnerDone
      <4>3. CASE \E m \in Modules : ModuleStep(m)
        BY <1>2, <2>2, <4>3 DEF ModuleStep, SpawnModule, ModuleExited, ModuleResult, ModuleUnwind
      <4>4. CASE \E m \in Modules : \E how \in Endings[m] : ModuleReturns(m, how)
        BY <1>2, <2>2, <4>4 DEF ModuleReturns
      <4>5. CASE UNCHANGED core
        BY <1>2, <2>2, <4>5 DEF core
      <4> QED
        BY <4>1, <4>2, <4>3, <4>4, <4>5, CoreFrame DEF CoreStep
    <3>2. stageErr'[s] = CollectedErr(s) /\ outcome' = outcome
      BY <3>1 DEF StopCollect, Types, moduleVars
    <3> QED
      BY <3>2, CollectedExact DEF Failed
  <2> QED
    BY <2>1, <2>2
<1> QED
  BY <1>1, <1>2 DEF ErrInv

LEMMA ExitStep == KernelInv /\ [Next]_vars => ExitInv'
<1> SUFFICES ASSUME KernelInv, [Next]_vars PROVE ExitInv'
  OBVIOUS
<1> USE DEF KernelInv, Types, ExitInv, stageVars, moduleVars, stopVars, runVars, exitVars
<1>0. ASSUME stopped PROVE stopped' /\ (NoneFailed' <=> NoneFailed)
  <2>1. \A m \in Modules : phase[m] = "dead"
    BY <1>0, KernelAssumption DEF StopInv
  <2>2. \A m \in Modules : outcome'[m] = outcome[m]
    BY <2>1, DeadStays
  <2>3. stopped'
    <3>1. CASE CoreStep
      BY <1>0, <3>1 DEF CoreStep, StartStage, StopKill, StopCollect, SignalStopped, SpawnerDone,
         ModuleStep, SpawnModule, ModuleExited, ModuleResult, ModuleUnwind, ModuleReturns
    <3>2. CASE UNCHANGED core
      BY <1>0, <3>2 DEF core
    <3> QED
      BY <3>1, <3>2, CoreFrame
  <2> QED
    BY <2>2, <2>3 DEF NoneFailed, Failed
<1>1. CASE StartStage \/ StageHealthy \/ HealthTimeout \/ AllStagesUp \/ ContextDone
  BY <1>0, <1>1 DEF StartStage, StageHealthy, HealthTimeout, AllStagesUp, ContextDone
<1>2. CASE Verdict
  <2>1. \A s \in Stages : stageErr[s] \in {"nil", "stopping"} <=> \A m \in Modules : StageOf[m] = s => ~Failed(m)
    BY <1>2 DEF Verdict, StopInv, ErrInv
  <2>2. (\E s \in Stages : stageErr[s] \notin {"nil", "stopping"}) <=> ~NoneFailed
    BY <2>1, KernelAssumption DEF NoneFailed
  <2> QED
    BY <1>0, <1>2, <2>2 DEF Verdict, NewExitCode
<1>3. CASE ExitLoad
  BY <1>0, <1>3 DEF ExitLoad, ExitCodeOk, ExitCodeForced
<1>4. ASSUME NEW failed \in BOOLEAN, CloseLogger(failed) PROVE ExitInv'
  BY <1>0, <1>4 DEF CloseLogger, NewExitCode, ExitCodeOk, ExitCodeErr, ExitCodeForced
<1>5. CASE ExitCall
  BY <1>0, <1>5 DEF ExitCall, CallExitHandler
<1>6. ASSUME NEW m \in Modules, ModuleStep(m) PROVE ExitInv'
  BY <1>0, <1>6 DEF ModuleStep, SpawnModule, ModuleExited, ModuleResult, ModuleUnwind
<1>7. ASSUME NEW m \in Modules, NEW how \in Endings[m], ModuleReturns(m, how) PROVE ExitInv'
  BY <1>0, <1>7 DEF ModuleReturns
<1>8. CASE Stop \/ StopKill \/ StopCollect \/ SignalStopped \/ \E s \in Stages : SpawnerDone(s)
  BY <1>0, <1>8 DEF Stop, StopKill, StopCollect, SignalStopped, SpawnerDone
<1>9. CASE FirstSignal \/ SecondSignal \/ TimerFires \/ TimerSeesStopped
  BY <1>0, <1>9 DEF FirstSignal, SecondSignal, TimerFires, TimerSeesStopped
<1>10. CASE ForceStore \/ ForceCall
  BY <1>0, <1>10 DEF ForceStore, ForceCall, CallExitHandler, ExitCodeOk, ExitCodeForced
<1>11. CASE UNCHANGED vars
  BY <1>0, <1>11 DEF vars
<1> QED
  BY <1>1, <1>2, <1>3, <1>4, <1>5, <1>6, <1>7, <1>8, <1>9, <1>10, <1>11
     DEF Next, RunStep, ForceStep, Left

LEMMA KernelInvInit == Init => KernelInv
<1> SUFFICES ASSUME Init PROVE KernelInv
  OBVIOUS
<1>1. Types
  BY TypesInit
<1>2. BootInv /\ SpawnInv
  BY KernelAssumption DEF Init, BootInv, SpawnInv
<1>3. StopInv
  BY KernelAssumption DEF Init, StopInv, Stages
<1>4. ErrInv
  BY DEF Init, ErrInv
<1>5. ExitInv
  BY DEF Init, ExitInv, ExitCodeOk, ExitCodeErr, NoCode
<1> QED
  BY <1>1, <1>2, <1>3, <1>4, <1>5 DEF KernelInv

LEMMA KernelInvStep == KernelInv /\ [Next]_vars => KernelInv'
  BY TypesStep, BootStep, SpawnStep, StopStep, ErrStep, ExitStep DEF KernelInv

LEMMA KernelInvHolds == Spec => []KernelInv
  BY KernelInvInit, KernelInvStep, PTL DEF Spec

-----------------------------------------------------------------------------
(* The theorems.                                                           *)

\* Stages shut down in reverse order, for any stages and modules: a stage that
\* Stop has killed has only stages above it whose modules have all returned.
THEOREM KernelReverseShutdown == Spec => []ReverseShutdown
<1>1. KernelInv => ReverseShutdown
  BY KernelAssumption DEF KernelInv, Types, StopInv, ReverseShutdown, Stages
<1> QED
  BY <1>1, KernelInvHolds, PTL

\* The verdict of Run is exact: no error of a module is ever swallowed by the
\* kill of its stage, and no graceful exit is reported as a failure.
THEOREM KernelVerdictExact == Spec => []VerdictExact
<1>1. KernelInv => VerdictExact
  BY DEF KernelInv, ExitInv, NoneFailed, VerdictExact
<1> QED
  BY <1>1, KernelInvHolds, PTL

\* Code ok is reported only after every module has returned without failing.
THEOREM KernelCleanExit == Spec => []CleanExit
<1>1. KernelInv => CleanExit
  BY KernelAssumption DEF KernelInv, ExitInv, StopInv, NoneFailed, CleanExit
<1> QED
  BY <1>1, KernelInvHolds, PTL

-----------------------------------------------------------------------------
(* Counting the foreground modules.                                        *)

\* The foreground modules that the counter still stands for: essential ones are
\* never taken off, the others when they have exited.
Counted ==
    {m \in Foreground : m \in Essential \/ phase[m] \in {"new", "running", "exited"}}

\* Between its exit and its call of Stop a module that returned an error leaves
\* the kernel running although it may have been the last one.
CountInv ==
    /\ fgModules = Cardinality(Counted)
    /\ Counted = {} => stopping \/ \E m \in Foreground : phase[m] = "result" /\ HasErr(m)
    /\ \A m \in Essential : phase[m] \in {"result", "unwind", "dead"} => HasErr(m) \/ stopping
    /\ \A m \in Modules : phase[m] \in {"unwind", "dead"} /\ HasErr(m) => stopping

LEMMA CountedFinite == IsFiniteSet(Counted) /\ Cardinality(Counted) \in Nat
<1>1. Counted \subseteq Modules
  BY DEF Counted, Foreground
<1> QED
  BY <1>1, KernelAssumption, FS_Subset, FS_CardinalityType

LEMMA CountInit == Init => CountInv
<1> SUFFICES ASSUME Init PROVE CountInv
  OBVIOUS
<1>1. Counted = Foreground /\ Foreground # {}
  BY KernelAssumption DEF Init, Counted, Foreground
<1> QED
  BY <1>1, KernelAssumption DEF Init, CountInv

LEMMA CountStep == Types /\ CountInv /\ [Next]_vars => CountInv'
<1> SUFFICES ASSUME Types, CountInv, [Next]_vars PROVE CountInv'
  OBVIOUS
<1> USE DEF Types, moduleVars, stopVars, stageVars, HasErr
<1>1. ASSUME NEW m \in Modules, ModuleExited(m) PROVE CountInv'
  <2> USE <1>1
  <2>1. \A n \in Modules : phase'[n] = IF n = m THEN "result" ELSE phase[n]
    BY DEF ModuleExited
  <2>2. phase[m] = "exited" /\ outcome' = outcome
    BY DEF ModuleExited
  <2>3. CASE CountsDown(m)
    <3>1. Counted' = Counted \ {m} /\ m \in Counted
      BY <2>1, <2>2, <2>3 DEF Counted, CountsDown, Foreground
    <3>2. fgModules' = Cardinality(Counted')
      BY <2>3, <3>1, CountedFinite, FS_RemoveElement DEF ModuleExited, CountInv
    <3>3. ASSUME Counted' = {} PROVE stopping' \/ HasErr(m)
      <4>1. Counted = {m}
        BY <3>1, <3>3
      <4>2. fgModules = 1
        BY <4>1, FS_Singleton DEF CountInv
      <4> QED
        BY <2>3, <4>2 DEF ModuleExited, LastToRun, DoStop
    <3>4. stopping => stopping'
      BY DEF ModuleExited, DoStop, NoStop
    <3>5. m \in Foreground /\ m \notin Essential
      BY <2>3 DEF CountsDown
    <3> QED
      BY <2>1, <2>2, <3>2, <3>3, <3>4, <3>5, KernelAssumption DEF CountInv
  <2>4. CASE ~CountsDown(m)
    <3>1. Counted' = Counted
      BY <2>1, <2>2, <2>4 DEF Counted, CountsDown, Foreground
    <3>2. fgModules' = fgModules
      BY <2>4 DEF ModuleExited
    <3>3. stopping => stopping'
      BY DEF ModuleExited, DoStop, NoStop
    <3>4. m \in Essential => HasErr(m) \/ stopping'
      BY DEF ModuleExited, LastToRun, DoStop
    <3>5. \A n \in Foreground : phase[n] = "result" /\ HasErr(n) => phase'[n] = "result" /\ HasErr(n)'
      BY <2>1, <2>2 DEF Foreground
    <3>6. Counted' = {} => stopping' \/ \E n \in Foreground : phase'[n] = "result" /\ HasErr(n)'
      BY <3>1, <3>3, <3>5 DEF CountInv
    <3>7. \A n \in Essential : phase'[n] \in {"result", "unwind", "dead"} => HasErr(n)' \/ stopping'
      BY <2>1, <2>2, <3>3, <3>4, KernelAssumption DEF CountInv
    <3>8. \A n \in Modules : phase'[n] \in {"unwind", "dead"} /\ HasErr(n)' => stopping'
      BY <2>1, <2>2, <3>3 DEF CountInv
    <3> QED
      BY <3>1, <3>2, <3>6, <3>7, <3>8 DEF CountInv
  <2> QED
    BY <2>3, <2>4
<1>2. ASSUME NEW m \in Modules, ModuleResult(m) PROVE CountInv'
  <2>1. \A n \in Modules : phase'[n] = IF n = m THEN "unwind" ELSE phase[n]
    BY <1>2 DEF ModuleResult
  <2>2. phase[m] = "result" /\ outcome' = outcome /\ fgModules' = fgModules
    BY <1>2 DEF ModuleResult
  <2>3. Counted' = Counted
    BY <2>1, <2>2 DEF Counted, Foreground
  <2>4. (stopping => stopping') /\ (HasErr(m) => stopping')
    BY <1>2 DEF ModuleResult, DoStop, NoStop
  <2> QED
    BY <2>1, <2>2, <2>3, <2>4, KernelAssumption DEF CountInv, Foreground
<1>3. ASSUME NEW m \in Modules, ModuleUnwind(m) \/ SpawnModule(m) PROVE CountInv'
  <2>1. \A n \in Modules : n # m => phase'[n] = phase[n]
    BY <1>3 DEF ModuleUnwind, SpawnModule
  <2>2. \/ phase[m] = "unwind" /\ phase'[m] = "dead"
        \/ phase[m] = "new" /\ phase'[m] = "running"
    BY <1>3 DEF ModuleUnwind, SpawnModule
  <2>3. outcome' = outcome /\ fgModules' = fgModules /\ stopping' = stopping
    BY <1>3 DEF ModuleUnwind, SpawnModule
  <2>4. Counted' = Counted
    BY <2>1, <2>2 DEF Counted, Foreground
  <2> QED
    BY <2>1, <2>2, <2>3, <2>4, KernelAssumption DEF CountInv, Foreground
<1>4. ASSUME NEW m \in Modules, NEW how \in Endings[m], ModuleReturns(m, how) PROVE CountInv'
  <2>1. \A n \in Modules : n # m => phase'[n] = phase[n] /\ outcome'[n] = outcome[n]
    BY <1>4 DEF ModuleReturns
  <2>2. phase[m] = "running" /\ phase'[m] = "exited"
    BY <1>4 DEF ModuleReturns
  <2>3. fgModules' = fgModules /\ stopping' = stopping
    BY <1>4 DEF ModuleReturns
  <2>4. Counted' = Counted
    BY <2>1, <2>2 DEF Counted, Foreground
  <2> QED
    BY <2>1, <2>2, <2>3, <2>4, KernelAssumption DEF CountInv, Foreground
<1>5. ASSUME UNCHANGED <<phase, outcome, fgModules>>, stopping => stopping' PROVE CountInv'
  <2>1. Counted' = Counted
    BY <1>5 DEF Counted
  <2> QED
    BY <1>5, <2>1 DEF CountInv
<1>6. CASE RunStep
  BY <1>5, <1>6 DEF RunStep, StartStage, StageHealthy, HealthTimeout, AllStagesUp, ContextDone,
     Verdict, ExitLoad, CloseLogger, ExitCall, DoStop
<1>7. CASE Stop \/ StopKill \/ StopCollect \/ SignalStopped \/ FirstSignal \/ SecondSignal
           \/ \E s \in Stages : SpawnerDone(s)
  BY <1>5, <1>7 DEF Stop, StopKill, StopCollect, SignalStopped, FirstSignal, SecondSignal, SpawnerDone, DoStop
<1>8. CASE ForceStep
  BY <1>5, <1>8 DEF ForceStep, TimerFires, TimerSeesStopped, ForceStore, ForceCall
<1>9. CASE UNCHANGED vars
  BY <1>5, <1>9 DEF vars
<1> QED
  BY <1>1, <1>2, <1>3, <1>4, <1>6, <1>7, <1>8, <1>9 DEF Next, ModuleStep, Left

LEMMA CountInvHolds == Spec => [](Types /\ CountInv)
<1>1. Init => Types /\ CountInv
  BY TypesInit, CountInit
<1>2. Types /\ CountInv /\ [Next]_vars => (Types /\ CountInv)'
  BY TypesStep, CountStep
<1> QED
  BY <1>1, <1>2, PTL DEF Spec

\* The kernel's state is type correct; in particular the counter of foreground
\* modules never gets negative.
THEOREM KernelTypeOK == Spec => []TypeOK
<1>1. Types /\ CountInv => TypeOK
  <2> SUFFICES ASSUME Types, CountInv PROVE TypeOK
    OBVIOUS
  <2>1. fgModules \in Nat
    BY CountedFinite DEF CountInv
  <2> QED
    BY <2>1 DEF Types, TypeOK
<1> QED
  BY <1>1, CountInvHolds, PTL

\* The kernel stops after its first essential, its last foreground or its first
\* failing module, whatever mix of modules ends in whatever order.
THEOREM KernelModulesStopKernel == Spec => []ModulesStopKernel
<1>1. Types /\ CountInv => ModulesStopKernel
  <2> SUFFICES ASSUME Types, CountInv, ~stopping,
                      \/ \E m \in Essential : phase[m] = "dead"
                      \/ \A m \in Foreground : phase[m] = "dead"
                      \/ \E m \in Modules : phase[m] = "dead" /\ HasErr(m)
               PROVE  FALSE
    BY DEF ModulesStopKernel, Types
  <2>1. \A m \in Modules : phase[m] = "dead" => ~HasErr(m)
    BY DEF CountInv
  <2>2. \A m \in Essential : phase[m] # "dead"
    BY <2>1, KernelAssumption DEF CountInv
  <2>3. \A m \in Foreground : phase[m] = "dead"
    BY <2>1, <2>2
  <2>4. Counted = {}
    BY <2>2, <2>3 DEF Counted
  <2> QED
    BY <2>3, <2>4 DEF CountInv
<1> QED
  BY <1>1, CountInvHolds, PTL
=============================================================================
