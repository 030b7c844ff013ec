----------------------------- MODULE TaskRunner -----------------------------
(***************************************************************************)
(* The task runner (pkg/conc/task_runner): tasks handed over from anywhere  *)
(* wait in a bounded channel for the Run loop, which starts each of them in *)
(* its coffin.  Provide gives a runner that is done a new channel.          *)
(*                                                                         *)
(* Channels are numbered; pendingTasks is the number of the current one.    *)
(* Definitions that other components have as well are prefixed with TR.     *)
(***************************************************************************)
EXTENDS Integers, Sequences, FiniteSets

CONSTANTS
    Tasks,         \* the tasks that callers have
    Usages,        \* the channel capacities and ways to call to look at
    MaxChannels    \* bound: channels made in total

ASSUME TaskRunnerAssumption ==
    /\ MaxChannels \in Nat \ {0}
    /\ Usages \subseteq [capacity : Nat \ {0}, provide : BOOLEAN]
    /\ "free" \notin Tasks

VARIABLES
    usage,         \* what holds for this runner
    channels,      \* the content of every channel
    closed,        \* which channels are closed
    pendingTasks,  \* the channel the runner points to
    done,
    lck,           \* the holder of s.lck: a task being handed over, or "free"
    loop,          \* the Run loop: "select", "close", "range", "drain", "returned"
    source,        \* the channel the Run loop ranges over
    canceled,
    caller,        \* the state of every task's caller
    started        \* tasks started in the coffin

chanVars == <<channels, closed, pendingTasks, done>>
trVars == <<usage, chanVars, lck, loop, source, canceled, caller, started>>

\* Of a channel of pending tasks (100 in the code).
Capacity == usage.capacity
\* Callers use the package function RunTask, which calls Provide.
Reprovide == usage.provide

TRInit ==
    /\ usage \in Usages
    /\ channels = <<<<>>>> /\ closed = {} /\ pendingTasks = 1 /\ done = FALSE
    /\ lck = "free" /\ loop = "select" /\ source = 1 /\ canceled = FALSE
    /\ caller = [t \in Tasks |-> "new"]
    /\ started = {}

-----------------------------------------------------------------------------
(* Callers.                                                                *)

\* Provide resets a runner that is done.
Provide(t) ==
    /\ Reprovide /\ caller[t] = "new" /\ lck = "free"
    /\ caller' = [caller EXCEPT ![t] = "provided"]
    /\ IF done /\ Len(channels) < MaxChannels
       THEN /\ done' = FALSE
            /\ channels' = Append(channels, <<>>)
            /\ pendingTasks' = Len(channels) + 1
       ELSE UNCHANGED <<done, channels, pendingTasks>>
    /\ UNCHANGED <<usage, closed, lck, loop, source, canceled, started>>

\* Mutant: the task is accepted whether the runner is done or not.
AcceptsAlways == TRUE

Accepts == ~done

\* The method RunTask takes the lock; a runner that is done refuses.
RunTask(t) ==
    /\ caller[t] = (IF Reprovide THEN "provided" ELSE "new") /\ lck = "free"
    /\ IF Accepts
       THEN lck' = t /\ caller' = [caller EXCEPT ![t] = "sending"]
       ELSE UNCHANGED lck /\ caller' = [caller EXCEPT ![t] = "refused"]
    /\ UNCHANGED <<usage, chanVars, loop, source, canceled, started>>

HasRoom == Len(channels[pendingTasks]) < Capacity

\* It keeps the lock while the channel is full.
SendTask(t) ==
    /\ caller[t] = "sending" /\ HasRoom
    /\ channels' = [channels EXCEPT ![pendingTasks] = Append(@, t)]
    /\ caller' = [caller EXCEPT ![t] = "accepted"]
    /\ lck' = "free"
    /\ UNCHANGED <<usage, closed, pendingTasks, done, loop, source, canceled, started>>

-----------------------------------------------------------------------------
(* Run.                                                                    *)

Start(ch) ==
    /\ channels[ch] # <<>>
    /\ started' = started \union {Head(channels[ch])}
    /\ channels' = [channels EXCEPT ![ch] = Tail(@)]

ReceiveTask ==
    /\ loop = "select"
    /\ Start(pendingTasks)
    /\ UNCHANGED <<usage, closed, pendingTasks, done, lck, loop, source, canceled, caller>>

\* The context is done; select may prefer this to a task that is ready.
SeesCancel ==
    /\ loop = "select" /\ canceled
    /\ loop' = "close"
    /\ UNCHANGED <<usage, chanVars, lck, source, canceled, caller, started>>

CloseChannel ==
    /\ loop = "close" /\ lck = "free"
    /\ done' = TRUE /\ closed' = closed \union {pendingTasks}
    /\ loop' = "range"
    /\ UNCHANGED <<usage, channels, pendingTasks, lck, source, canceled, caller, started>>

\* The lock is free again when the loop reads s.pendingTasks.
RangeLoop ==
    /\ loop = "range"
    /\ source' = pendingTasks
    /\ loop' = "drain"
    /\ UNCHANGED <<usage, chanVars, lck, canceled, caller, started>>

Drain ==
    /\ loop = "drain"
    /\ Start(source)
    /\ UNCHANGED <<usage, closed, pendingTasks, done, lck, loop, source, canceled, caller>>

\* Mutant: the loop leaves without a look at what is left in the channel.
Closed == source \in closed

Drained == channels[source] = <<>> /\ source \in closed

RunReturns ==
    /\ loop = "drain" /\ Drained
    /\ loop' = "returned"
    /\ UNCHANGED <<usage, chanVars, lck, source, canceled, caller, started>>

Cancel ==
    /\ ~canceled /\ canceled' = TRUE
    /\ UNCHANGED <<usage, chanVars, lck, loop, source, caller, started>>

-----------------------------------------------------------------------------
Run == ReceiveTask \/ SeesCancel \/ CloseChannel \/ RangeLoop \/ Drain \/ RunReturns
Caller(t) == Provide(t) \/ RunTask(t) \/ SendTask(t)

TRNext == Run \/ Cancel \/ \E t \in Tasks : Caller(t)

\* Run and the callers proceed when they can; the lock is handed over fairly.
TRFairness == SF_trVars(CloseChannel) /\ WF_trVars(Run) /\ \A t \in Tasks : WF_trVars(SendTask(t))

TRSpec == TRInit /\ [][TRNext]_trVars /\ TRFairness

-----------------------------------------------------------------------------
(* Properties.                                                             *)

InChannel(t) == \E i \in DOMAIN channels : \E j \in DOMAIN channels[i] : channels[i][j] = t

TRTypeOK ==
    /\ usage \in Usages
    /\ channels \in Seq(Seq(Tasks)) /\ Len(channels) <= MaxChannels
    /\ \A i \in DOMAIN channels : Len(channels[i]) <= Capacity
    /\ closed \union {pendingTasks, source} \subseteq DOMAIN channels
    /\ done \in BOOLEAN /\ canceled \in BOOLEAN
    /\ lck \in Tasks \union {"free"}
    /\ loop \in {"select", "close", "range", "drain", "returned"}
    /\ caller \in [Tasks -> {"new", "provided", "sending", "accepted", "refused"}]
    /\ started \subseteq Tasks

\* Nothing is sent on a closed channel (a panic in Go), whatever the callers of
\* Provide and RunTask do while Run closes it; and a task that was accepted is
\* started or still waits in a channel.
PendingIsKept ==
    /\ \A t \in Tasks : caller[t] = "sending" => pendingTasks \notin closed
    /\ \A t \in Tasks : caller[t] = "accepted" => t \in started \/ InChannel(t)

\* A caller waits on the full channel with the lock that Run needs to close it.
Deadlocked == loop = "close" /\ lck # "free" /\ ~HasRoom

\* Run has settled on another channel than the one the task is in or being sent on:
\* Provide has replaced the channel before the range loop read it, or after.
Stranded(t) ==
    /\ loop \in {"drain", "returned"}
    /\ \/ \E i \in DOMAIN channels \ {source} : \E j \in DOMAIN channels[i] : channels[i][j] = t
       \/ lck = t /\ pendingTasks # source

\* Run ranges over a channel that was made after it closed its own.
RangesOverOpen == loop = "drain" /\ source \notin closed

\* The comment in Run: remaining pending tasks are run, as promised.  Every task that a
\* caller sends is started, also when it races with the end of the context or finds the
\* channel full, and Run returns after a cancel.  Two things alone stand against it: the
\* caller that blocks with the lock Run needs, and a channel replaced while Run ends.
PromiseKept ==
    /\ \A t \in Tasks : caller[t] \in {"sending", "accepted"} ~> t \in started \/ Deadlocked \/ Stranded(t)
    /\ canceled ~> loop = "returned" \/ Deadlocked \/ RangesOverOpen
=============================================================================
