------------------------------- MODULE Kernel -------------------------------
(***************************************************************************)
(* The application kernel of pkg/kernel: it boots its modules stage by      *)
(* stage, waits for each stage to get healthy, and on Stop kills the stages *)
(* in reverse order, collects their errors and leaves with an exit code.    *)
(*                                                                         *)
(* Processes: the goroutine in Run (runPc, cur), one spawner per stage,     *)
(* one goroutine per module (phase, outcome), the goroutine Stop starts     *)
(* (stopIdx, stopPc), the kill timer, the signal goroutine and callers of   *)
(* Stop.  The coffin of a stage is its promise: the first non-nil kill      *)
(* reason is kept, the context is done once the coffin is dying, and Wait   *)
(* returns when every goroutine has unwound.                               *)
(*                                                                         *)
(* The exit handler does not end the behaviour: an application may install  *)
(* one that returns (WithKernelExitHandler), and a handler that ends the    *)
(* process only removes behaviours.                                        *)
(***************************************************************************)
EXTENDS Integers, FiniteSets

CONSTANTS
    N,           \* number of stages, in the order of their indices
    Modules,     \* the modules of the blueprint
    StageOf,     \* the stage of each module
    Essential,   \* modules with config.essential
    Background,  \* modules with config.background
    SlowStages,  \* stages whose health checks may exceed the timeout
    Endings,     \* the ways the Run of each module may end
    MaxSignals   \* bound on the signals the process gets

Stages == 1..N

ASSUME KernelAssumption ==
    /\ N \in Nat \ {0}
    /\ StageOf \in [Modules -> Stages]
    /\ Essential \subseteq Modules
    /\ Background \subseteq Modules
    /\ IsFiniteSet(Modules)
    /\ Modules # Background
    /\ SlowStages \subseteq Stages
    /\ Endings \in [Modules -> SUBSET {"nil", "err", "canceled", "goexit"}]
    /\ MaxSignals \in 0..2

Foreground == Modules \ Background

VARIABLES
    runPc,       \* where Run is
    cur,         \* the stage runStages is at
    spawner,     \* the goroutine of stage.run that starts the modules
    phase,       \* where the goroutine of a module is
    outcome,     \* how module.Run ended
    dying,       \* the stage's coffin is dying, its context done
    tombErr,     \* the reason kept by the stage's coffin
    stageErr,    \* stage.err
    terminated,  \* stage.terminated was signalled
    stopping,    \* stopOnce has run
    stopIdx,     \* the stage the Stop goroutine is at, 0 at its end
    stopPc,      \* where in stopWait it is
    stopped,     \* kernel.stopped was signalled
    fgModules,   \* kernel.foregroundModules
    timer,       \* the goroutine of killIfNotStopped
    sigPc,       \* the signal goroutine
    exitCode,    \* kernel.exitCode
    loaded,      \* the local exitCode of exit()
    reported     \* the code the exit handler was called with

stageVars == <<spawner, dying, tombErr, stageErr, terminated>>
moduleVars == <<phase, outcome, fgModules>>
stopVars == <<stopping, stopIdx, stopPc, stopped>>
runVars == <<runPc, cur>>
exitVars == <<exitCode, loaded, reported>>
forceVars == <<timer, sigPc>>
vars == <<stageVars, moduleVars, stopVars, runVars, exitVars, forceVars>>

ExitCodeOk == 0
ExitCodeErr == 1
ExitCodeForced == 12
NoCode == -1
Codes == {ExitCodeOk, ExitCodeErr, ExitCodeForced}

Errors == {"nil", "err", "canceled", "goexit", "stopping"}
Outcomes == {"pending", "nil", "err", "canceled", "goexit"}

MembersOf(s) == {m \in Modules : StageOf[m] = s}

Init ==
    /\ runPc = "boot" /\ cur = 1
    /\ spawner = [s \in Stages |-> "none"]
    /\ phase = [m \in Modules |-> "new"]
    /\ outcome = [m \in Modules |-> "pending"]
    /\ dying = [s \in Stages |-> FALSE]
    /\ tombErr = [s \in Stages |-> "nil"]
    /\ stageErr = [s \in Stages |-> "nil"]
    /\ terminated = [s \in Stages |-> FALSE]
    /\ stopping = FALSE /\ stopIdx = N /\ stopPc = "running" /\ stopped = FALSE
    /\ fgModules = Cardinality(Foreground)
    /\ timer = "off" /\ sigPc = "first"
    /\ exitCode = ExitCodeErr /\ loaded = NoCode /\ reported = NoCode

-----------------------------------------------------------------------------
(* Stop and the coffin, used by the actions below.                         *)

\* Mutant: a stop without a kill timer.
DoStopUnguarded == stopping' = TRUE /\ UNCHANGED timer

\* Kernel.Stop: only the first call starts the stop goroutine and the timer.
DoStop ==
    /\ stopping' = TRUE
    /\ timer' = IF timer = "off" THEN "armed" ELSE timer

NoStop == UNCHANGED <<stopping, timer>>

\* Mutant: the context of a stage is not tied to its coffin being killed.
KillKeepsContext(s, reason) ==
    /\ dying' = IF reason = "stopping" THEN dying ELSE [dying EXCEPT ![s] = TRUE]
    /\ tombErr' = [tombErr EXCEPT ![s] = IF @ = "nil" THEN reason ELSE @]

\* coffin.Kill: the first non-nil reason is kept, the context gets done.
Kill(s, reason) ==
    /\ dying' = [dying EXCEPT ![s] = TRUE]
    /\ tombErr' = [tombErr EXCEPT ![s] = IF @ = "nil" THEN reason ELSE @]

\* coffin.Wait returns: no goroutine of the stage's coffin is left.
Drained(s) ==
    /\ spawner[s] # "spawning"
    /\ \A m \in MembersOf(s) : phase[m] \in {"new", "dead"}

-----------------------------------------------------------------------------
(* Run: boot the stages in order, wait, judge, exit.                        *)

\* stage.run up to the goroutine that spawns the modules.
StartStage ==
    /\ runPc = "boot" /\ cur \in Stages
    /\ spawner' = [spawner EXCEPT ![cur] = "spawning"]
    /\ runPc' = "healthy"
    /\ UNCHANGED <<cur, dying, tombErr, stageErr, terminated,
                   moduleVars, stopVars, exitVars, forceVars>>

\* The spawner starts one module after the other, in map order.
SpawnModule(m) ==
    /\ spawner[StageOf[m]] = "spawning"
    /\ phase[m] = "new"
    /\ phase' = [phase EXCEPT ![m] = "running"]
    /\ UNCHANGED <<outcome, fgModules, stageVars, stopVars, runVars, exitVars, forceVars>>

\* The spawner signals running and returns nil to the coffin.
SpawnerDone(s) ==
    /\ spawner[s] = "spawning"
    /\ \A m \in MembersOf(s) : phase[m] # "new"
    /\ spawner' = [spawner EXCEPT ![s] = "done"]
    /\ IF \A m \in MembersOf(s) : phase[m] = "dead"
       THEN Kill(s, "nil")
       ELSE UNCHANGED <<dying, tombErr>>
    /\ UNCHANGED <<stageErr, terminated, moduleVars, stopVars, runVars, exitVars, forceVars>>

\* waitUntilHealthy returns nil: the checks passed, or the context is done.
StageHealthy ==
    /\ runPc = "healthy"
    /\ cur' = cur + 1
    /\ runPc' = "boot"
    /\ UNCHANGED <<stageVars, moduleVars, stopVars, exitVars, forceVars>>

\* waitUntilHealthy runs into its timeout: runStages ends early, Run stops the kernel.
HealthTimeout ==
    /\ runPc = "healthy" /\ cur \in SlowStages
    /\ DoStop
    /\ runPc' = "up"
    /\ UNCHANGED <<cur, stageVars, moduleVars, stopIdx, stopPc, stopped, exitVars, sigPc>>

AllStagesUp ==
    /\ runPc = "boot" /\ cur = N + 1
    /\ runPc' = "up"
    /\ UNCHANGED <<cur, stageVars, moduleVars, stopVars, exitVars, forceVars>>

\* waitAllStagesDone, then Stop("context done").
ContextDone ==
    /\ runPc = "up"
    /\ \A s \in Stages : dying[s]
    /\ DoStop
    /\ runPc' = "waitStopped"
    /\ UNCHANGED <<cur, stageVars, moduleVars, stopIdx, stopPc, stopped, exitVars, sigPc>>

\* setExitCode: a forced exit is never overwritten.
NewExitCode(code) == IF exitCode = ExitCodeForced THEN exitCode ELSE code

\* Run sees stopped and looks at the errors of the stages.
Verdict ==
    /\ runPc = "waitStopped" /\ stopped
    /\ exitCode' = IF \E s \in Stages : stageErr[s] \notin {"nil", "stopping"}
                   THEN exitCode
                   ELSE NewExitCode(ExitCodeOk)
    /\ runPc' = "exit"
    /\ UNCHANGED <<cur, loaded, reported, stageVars, moduleVars, stopVars, forceVars>>

\* Mutant: exit() starts from ok instead of the code that was set.
ExitLoadsOk ==
    /\ runPc = "exit"
    /\ loaded' = ExitCodeOk
    /\ runPc' = "shutdown"
    /\ UNCHANGED <<cur, exitCode, reported, stageVars, moduleVars, stopVars, forceVars>>

\* exit() reads the exit code, then runs the shutdown handlers.
ExitLoad ==
    /\ runPc = "exit"
    /\ loaded' = exitCode
    /\ runPc' = "shutdown"
    /\ UNCHANGED <<cur, exitCode, reported, stageVars, moduleVars, stopVars, forceVars>>

\* Closing the logger: a failure turns into an error code, and the code is read again.
CloseLogger(failed) ==
    /\ runPc = "shutdown"
    /\ exitCode' = IF failed THEN NewExitCode(ExitCodeErr) ELSE exitCode
    /\ loaded' = IF failed THEN exitCode' ELSE loaded
    /\ runPc' = "handler"
    /\ UNCHANGED <<cur, reported, stageVars, moduleVars, stopVars, forceVars>>

\* callExitHandler, guarded by exitHandlerOnce.
CallExitHandler(code) == reported' = IF reported = NoCode THEN code ELSE reported

ExitCall ==
    /\ runPc = "handler"
    /\ CallExitHandler(loaded)
    /\ runPc' = "exited"
    /\ UNCHANGED <<cur, exitCode, loaded, stageVars, moduleVars, stopVars, forceVars>>

-----------------------------------------------------------------------------
(* The modules.                                                            *)

\* module.Run ends: without error, with one (or a panic), with a cancellation
\* error, or by runtime.Goexit, which leaves ms.err nil.
ModuleReturns(m, how) ==
    /\ phase[m] = "running"
    /\ outcome' = [outcome EXCEPT ![m] = how]
    /\ phase' = [phase EXCEPT ![m] = "exited"]
    /\ UNCHANGED <<fgModules, stageVars, stopVars, runVars, exitVars, forceVars>>

HasErr(m) == outcome[m] \in {"err", "canceled"}

\* Mutants: every module counts down; only essential modules stop the kernel.
AnyCountsDown(m) == TRUE
EssentialOnly(m) == m \in Essential

\* foregroundModuleExited is not called for essential modules.
CountsDown(m) == m \in Foreground \ Essential

\* The exit of a module that calls Stop at once, were it not for its error.
LastToRun(m) == m \in Essential \/ (CountsDown(m) /\ fgModules = 1)

\* The deferred part of runModule: essentialModuleExited or foregroundModuleExited.
ModuleExited(m) ==
    /\ phase[m] = "exited"
    /\ phase' = [phase EXCEPT ![m] = "result"]
    /\ fgModules' = IF CountsDown(m) THEN fgModules - 1 ELSE fgModules
    /\ IF LastToRun(m) /\ ~HasErr(m) THEN DoStop ELSE NoStop
    /\ UNCHANGED <<outcome, stageVars, stopIdx, stopPc, stopped, runVars, exitVars, sigPc>>

\* Back in stage.run: an error stops the kernel (Goexit skips this call).
ModuleResult(m) ==
    /\ phase[m] = "result"
    /\ phase' = [phase EXCEPT ![m] = "unwind"]
    /\ IF HasErr(m) THEN DoStop ELSE NoStop
    /\ UNCHANGED <<outcome, fgModules, stageVars, stopIdx, stopPc, stopped, runVars, exitVars, sigPc>>

\* The goroutine returns to the coffin, which keeps its error.
ModuleUnwind(m) ==
    LET s == StageOf[m] IN
    /\ phase[m] = "unwind"
    /\ phase' = [phase EXCEPT ![m] = "dead"]
    /\ IF outcome[m] = "nil"
       THEN IF /\ spawner[s] = "done"
               /\ \A o \in MembersOf(s) \ {m} : phase[o] = "dead"
            THEN Kill(s, "nil")
            ELSE UNCHANGED <<dying, tombErr>>
       ELSE Kill(s, outcome[m])
    /\ UNCHANGED <<outcome, fgModules, spawner, stageErr, terminated,
                   stopVars, runVars, exitVars, forceVars>>

-----------------------------------------------------------------------------
(* Stopping.                                                               *)

\* Any caller of Kernel.Stop.
Stop ==
    /\ runPc # "exited" /\ ~stopping
    /\ DoStop
    /\ UNCHANGED <<stageVars, moduleVars, stopIdx, stopPc, stopped, runVars, exitVars, sigPc>>

\* Mutant: stopWait does not wait for the stage to run.
AnyTime(s) == TRUE

\* The wait for stage.running.
HasSpawned(s) == spawner[s] = "done"

\* stopWait: once the stage has spawned its modules, kill its coffin.
StopKill ==
    /\ stopping /\ stopIdx \in Stages /\ stopPc = "running"
    /\ HasSpawned(stopIdx)
    /\ Kill(stopIdx, "stopping")
    /\ stopPc' = "waiting"
    /\ UNCHANGED <<spawner, stageErr, terminated, moduleVars, stopping, stopIdx,
                   stopped, runVars, exitVars, forceVars>>

\* coffin.Wait: a goroutine lost to Goexit is reported whatever the kill reason was.
WaitErr(s) ==
    IF \E m \in MembersOf(s) : outcome[m] = "goexit" THEN "goexit" ELSE tombErr[s]

\* Mutant: the error of the coffin is taken as it is.
CoffinErr(s) == IF WaitErr(s) = "canceled" THEN "nil" ELSE WaitErr(s)

\* The error stopWait leaves in the stage: cancellations are filtered, and an
\* insignificant error gives way to the error of any module that failed.
CollectedErr(s) ==
    LET err == IF WaitErr(s) = "canceled" THEN "nil" ELSE WaitErr(s)
    IN  IF /\ err \in {"nil", "stopping"}
           /\ \E m \in MembersOf(s) : outcome[m] = "err"
        THEN "err"
        ELSE err

\* stopWait after coffin.Wait, and on to the next lower stage.
StopCollect ==
    /\ stopping /\ stopIdx \in Stages /\ stopPc = "waiting"
    /\ Drained(stopIdx)
    /\ stageErr' = [stageErr EXCEPT ![stopIdx] = CollectedErr(stopIdx)]
    /\ terminated' = [terminated EXCEPT ![stopIdx] = TRUE]
    /\ stopIdx' = stopIdx - 1
    /\ stopPc' = "running"
    /\ UNCHANGED <<spawner, dying, tombErr, moduleVars, stopping, stopped, runVars, exitVars, forceVars>>

\* signalOnceAllStagesDone.
SignalStopped ==
    /\ ~stopped /\ \A s \in Stages : terminated[s]
    /\ stopped' = TRUE
    /\ UNCHANGED <<stageVars, moduleVars, stopping, stopIdx, stopPc, runVars, exitVars, forceVars>>

-----------------------------------------------------------------------------
(* Forced exits: the kill timer and a second signal.                        *)

\* The goroutine of killIfNotStopped selects the timer or stopped.
TimerFires ==
    /\ timer = "armed"
    /\ timer' = "store"
    /\ UNCHANGED <<sigPc, stageVars, moduleVars, stopVars, runVars, exitVars>>

TimerSeesStopped ==
    /\ timer = "armed" /\ stopped
    /\ timer' = "done"
    /\ UNCHANGED <<sigPc, stageVars, moduleVars, stopVars, runVars, exitVars>>

\* The first SIGTERM or SIGINT stops the kernel; Run takes signals until it returns.
FirstSignal ==
    /\ MaxSignals >= 1 /\ sigPc = "first" /\ runPc \notin {"exit", "shutdown", "handler", "exited"}
    /\ sigPc' = "second"
    /\ DoStop
    /\ UNCHANGED <<stageVars, moduleVars, stopIdx, stopPc, stopped, runVars, exitVars>>

\* A further signal, more than a second later.
SecondSignal ==
    /\ MaxSignals = 2 /\ sigPc = "second" /\ runPc \notin {"exit", "shutdown", "handler", "exited"}
    /\ sigPc' = "store"
    /\ UNCHANGED <<timer, stageVars, moduleVars, stopVars, runVars, exitVars>>

\* forceExit: first the code is stored, then the exit handler called.
ForceStore ==
    /\ \/ timer = "store" /\ timer' = "call" /\ UNCHANGED sigPc
       \/ sigPc = "store" /\ sigPc' = "call" /\ UNCHANGED timer
    /\ exitCode' = ExitCodeForced
    /\ UNCHANGED <<loaded, reported, stageVars, moduleVars, stopVars, runVars>>

ForceCall ==
    /\ \/ timer = "call" /\ timer' = "done" /\ UNCHANGED sigPc
       \/ sigPc = "call" /\ sigPc' = "done" /\ UNCHANGED timer
    /\ CallExitHandler(ExitCodeForced)
    /\ UNCHANGED <<exitCode, loaded, stageVars, moduleVars, stopVars, runVars>>

\* The application has left: nothing more has to happen.
Left == reported # NoCode /\ UNCHANGED vars

-----------------------------------------------------------------------------
RunStep ==
    \/ StartStage \/ StageHealthy \/ HealthTimeout \/ AllStagesUp \/ ContextDone
    \/ Verdict \/ ExitLoad \/ (\E failed \in BOOLEAN : CloseLogger(failed)) \/ ExitCall

ModuleStep(m) ==
    SpawnModule(m) \/ ModuleExited(m) \/ ModuleResult(m) \/ ModuleUnwind(m)

ForceStep == TimerFires \/ TimerSeesStopped \/ ForceStore \/ ForceCall

Next ==
    \/ RunStep
    \/ \E s \in Stages : SpawnerDone(s)
    \/ \E m \in Modules : ModuleStep(m)
    \/ \E m \in Modules : \E how \in Endings[m] : ModuleReturns(m, how)
    \/ Stop \/ StopKill \/ StopCollect \/ SignalStopped
    \/ ForceStep
    \/ FirstSignal \/ SecondSignal
    \/ Left

\* Goroutines that can run do, and a started timer fires; nothing is assumed of
\* what a module does, of signals or of callers of Stop.
Fairness ==
    /\ WF_vars(RunStep)
    /\ \A s \in Stages : WF_vars(SpawnerDone(s))
    /\ \A m \in Modules : WF_vars(ModuleStep(m))
    /\ WF_vars(StopKill) /\ WF_vars(StopCollect) /\ WF_vars(SignalStopped)
    /\ WF_vars(ForceStep)

Spec == Init /\ [][Next]_vars /\ Fairness

\* Modules that heed their context: they return once it is done.
Cooperation ==
    \A m \in Modules :
        WF_vars(dying[StageOf[m]] /\ \E how \in Endings[m] : ModuleReturns(m, how))

-----------------------------------------------------------------------------
(* Properties.                                                             *)

TypeOK ==
    /\ runPc \in {"boot", "healthy", "up", "waitStopped", "exit", "shutdown", "handler", "exited"}
    /\ cur \in 1..(N + 1)
    /\ spawner \in [Stages -> {"none", "spawning", "done"}]
    /\ phase \in [Modules -> {"new", "running", "exited", "result", "unwind", "dead"}]
    /\ outcome \in [Modules -> Outcomes]
    /\ dying \in [Stages -> BOOLEAN]
    /\ tombErr \in [Stages -> Errors]
    /\ stageErr \in [Stages -> Errors]
    /\ terminated \in [Stages -> BOOLEAN]
    /\ stopping \in BOOLEAN
    /\ stopIdx \in 0..N
    /\ stopPc \in {"running", "waiting"}
    /\ stopped \in BOOLEAN
    /\ fgModules \in Nat
    /\ timer \in {"off", "armed", "store", "call", "done"}
    /\ sigPc \in {"first", "second", "store", "call", "done"}
    /\ exitCode \in Codes
    /\ loaded \in Codes \union {NoCode}
    /\ reported \in Codes \union {NoCode}

\* A module failed: it returned an error (or panicked), or was lost to Goexit.
Failed(m) == outcome[m] \in {"err", "goexit"}

\* The verdict of Run is exact whatever raced with it: unless the exit was
\* forced, the code exit() starts from is ok exactly if no module failed.  In
\* particular the coffin's reason ErrKernelStopping never swallows the error of
\* a module that failed at the same time ([Note] Stopping the kernel).
VerdictExact ==
    runPc \in {"exit", "shutdown"} /\ exitCode # ExitCodeForced =>
        (exitCode = ExitCodeOk <=> \A m \in Modules : ~Failed(m))

\* The application only leaves with code ok when every module was started, has
\* returned to its stage and did not fail.
CleanExit ==
    reported = ExitCodeOk => \A m \in Modules : phase[m] = "dead" /\ ~Failed(m)

\* Stages shut down in reverse order: once Stop has killed a stage, every module
\* of every higher stage has run and returned, none is left to be spawned.
ReverseShutdown ==
    \A s \in Stages : (tombErr[s] = "stopping" \/ terminated[s]) =>
        \A m \in Modules : StageOf[m] > s => phase[m] = "dead"

\* The kernel stops after its first essential module, after its last foreground
\* module and after the first module that returned an error: the counter of
\* foreground modules, which essential modules do not decrement, misses no case.
ModulesStopKernel ==
    \/ \E m \in Essential : phase[m] = "dead"
    \/ \A m \in Foreground : phase[m] = "dead"
    \/ \E m \in Modules : phase[m] = "dead" /\ HasErr(m)
    => stopping

\* A stop, from whatever cause and whatever the modules do, ends in a call of the
\* exit handler: the kill timer covers every way the graceful path can block.
StopLeadsToExit == stopping ~> reported # NoCode

\* runStages has ended early: the later stages are never run.
BootCutShort == runPc = "up" /\ cur < N

\* With modules that heed their context a stop lets every started module return,
\* unless a stage missed its health timeout before the last one was run: then the
\* stop waits for the stages that were never run, until the kill timer fires.
StopDrains ==
    Cooperation =>
        (stopping ~> BootCutShort \/ \A m \in Modules : phase[m] \in {"new", "dead"})
=============================================================================
