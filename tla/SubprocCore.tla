---------------------------- MODULE SubprocCore ----------------------------
(***************************************************************************)
(* The core of monitors that run in a subprocess                           *)
(* (signalfx-agent/pkg/monitors/subproc/core.go and messages.go, with the  *)
(* message handler of subproc/signalfx/handler.go): one caller of          *)
(* ConfigureInSubproc, the goroutine runWithRestart, and for every run of  *)
(* the process a goroutine that configures it and then handles its         *)
(* messages.                                                               *)
(*                                                                         *)
(* A message is an answer to the configuration or data; logs only go to    *)
(* the logger.  Framing is left out: a read fails when the pipe is closed. *)
(***************************************************************************)
EXTENDS Naturals

CONSTANTS MaxRuns,       \* bound: runs of the process
          PipesMayFail   \* "yes": os.Pipe may return an error

Runs == 1..MaxRuns

Free == 0
Caller == MaxRuns + 1

ASSUME SubprocAssumption ==
    MaxRuns \in Nat \ {0} /\ PipesMayFail \in {"yes", "no"}

VARIABLES
    caller,  \* ConfigureInSubproc: where it is
    ret,     \* what it returned
    lock,    \* configCond.L: Free, Caller, or the run whose goroutine holds it
    result,  \* configResult: "nil" or "error"
    runner,  \* runWithRestart: where it is
    n,       \* runs so far
    child,    \* the process of each run
    pipes,   \* its pipes
    conf,    \* its goroutine
    own,     \* history: what doConfigure returned for the run
    data,    \* history: whether data of the run was handled
    flag,    \* shutdownCalled
    ctx      \* mc.ctx

coreVars == <<caller, ret, lock, result, runner, n, child, pipes, conf, own, data,
          flag, ctx>>
shut == <<flag, ctx>>
process == <<runner, n, child, pipes>>
configure == <<caller, ret, lock, result>>
goroutine == <<conf, own, data>>

CoreInit ==
    /\ caller = "idle" /\ ret = "none"
    /\ lock = Free /\ result = "nil"
    /\ runner = "none" /\ n = 0
    /\ child = [i \in Runs |-> "none"]
    /\ pipes = [i \in Runs |-> "none"]
    /\ conf = [i \in Runs |-> "none"]
    /\ own = [i \in Runs |-> "none"]
    /\ data = [i \in Runs |-> "no"]
    /\ flag = "no" /\ ctx = "live"

\* configCond.Broadcast: a caller that does not wait yet misses it.
Woken == IF caller = "waiting" THEN "woken" ELSE caller

-----------------------------------------------------------------------------
(* ConfigureInSubproc and Shutdown                                         *)

\* The caller holds the lock until it waits.
ConfigureInSubproc ==
    /\ caller = "idle"
    /\ caller' = "spawned" /\ lock' = Caller /\ runner' = "pipes"
    /\ UNCHANGED <<ret, result, n, child, pipes, goroutine, shut>>

Wait ==
    /\ caller = "spawned"
    /\ caller' = "waiting" /\ lock' = Free
    /\ UNCHANGED <<ret, result, process, goroutine, shut>>

\* Wait takes the lock again; the result is returned whatever woke it.
Return ==
    /\ caller = "woken" /\ lock = Free
    /\ caller' = "returned" /\ ret' = result
    /\ UNCHANGED <<lock, result, process, goroutine, shut>>

\* The monitor's owner shuts it down once Configure has returned.
Shutdown ==
    /\ caller = "returned" /\ flag = "no"
    /\ flag' = "yes"
    /\ UNCHANGED <<configure, process, goroutine, ctx>>

\* The second half of any Shutdown.
Cancel ==
    /\ flag = "yes" /\ ctx = "live"
    /\ ctx' = "cancelled"
    /\ UNCHANGED <<configure, process, goroutine, flag>>

-----------------------------------------------------------------------------
(* runWithRestart                                                          *)

MakePipes ==
    /\ runner = "pipes" /\ n < MaxRuns
    /\ n' = n + 1
    /\ pipes' = [pipes EXCEPT ![n + 1] = "open"]
    /\ conf' = [conf EXCEPT ![n + 1] = "want"]
    /\ runner' = "start"
    /\ UNCHANGED <<configure, child, own, data, shut>>

\* The loop is left, and nobody is told.
MakePipesFails ==
    /\ runner = "pipes" /\ PipesMayFail = "yes"
    /\ runner' = "failed"
    /\ UNCHANGED <<configure, n, child, pipes, goroutine, shut>>

Run ==
    /\ runner = "start" /\ ctx = "live"
    /\ child' = [child EXCEPT ![n] = "alive"]
    /\ runner' = "wait"
    /\ UNCHANGED <<configure, n, pipes, goroutine, shut>>

\* The command cannot be started, for one because the context is cancelled.
RunFails ==
    /\ runner = "start" /\ (ctx = "cancelled" \/ n < MaxRuns)
    /\ runner' = "exited"
    /\ UNCHANGED <<configure, n, child, pipes, goroutine, shut>>

\* The process ends by itself (never in the last run of the bound) or is
\* killed because the context is cancelled.
Die(i) ==
    /\ child[i] = "alive" /\ (ctx = "cancelled" \/ n < MaxRuns)
    /\ child' = [child EXCEPT ![i] = "dead"]
    /\ UNCHANGED <<configure, runner, n, pipes, goroutine, shut>>

RunReturns ==
    /\ runner = "wait" /\ child[n] = "dead"
    /\ runner' = "exited"
    /\ UNCHANGED <<configure, n, child, pipes, goroutine, shut>>

Broadcast ==
    /\ runner = "exited"
    /\ caller' = Woken
    /\ runner' = "close"
    /\ UNCHANGED <<ret, lock, result, n, child, pipes, goroutine, shut>>

\* Mutant: the pipes are left open.
CloseNot ==
    /\ runner = "close"
    /\ runner' = IF flag = "yes" THEN "ended" ELSE "sleep"
    /\ UNCHANGED <<configure, n, child, pipes, goroutine, shut>>

\* The pipes are closed, then ShutdownCalled decides about a restart.
Close ==
    /\ runner = "close"
    /\ pipes' = [pipes EXCEPT ![n] = "closed"]
    /\ runner' = IF flag = "yes" THEN "ended" ELSE "sleep"
    /\ UNCHANGED <<configure, n, child, goroutine, shut>>

Sleep ==
    /\ runner = "sleep"
    /\ runner' = "pipes"
    /\ UNCHANGED <<configure, n, child, pipes, goroutine, shut>>

-----------------------------------------------------------------------------
(* The goroutine of a run: doConfigure, then ProcessMessages               *)

\* Sending the configuration fills the pipe, or fails when it is closed.
DoConfigure(i) ==
    /\ conf[i] = "want" /\ lock = Free
    /\ lock' = i
    /\ conf' = [conf EXCEPT ![i] = "ask"]
    /\ UNCHANGED <<caller, ret, result, process, own, data, shut>>

Answered(i, r) ==
    /\ own' = [own EXCEPT ![i] = r]
    /\ result' = r
    /\ lock' = Free
    /\ conf' = [conf EXCEPT ![i] = "told"]
    /\ UNCHANGED <<caller, ret, process, data, shut>>

\* The process accepts or refuses the configuration; its answer may be read
\* from the pipe after its death.  An unexpected message is an error.
WaitForConfigure(i) ==
    /\ conf[i] = "ask" /\ pipes[i] = "open" /\ child[i] \in {"alive", "dead"}
    /\ \E r \in {"nil", "error"} : Answered(i, r)

ConfigureBroken(i) ==
    /\ conf[i] = "ask" /\ pipes[i] = "closed"
    /\ Answered(i, "error")

\* Mutant: nobody is told of the result.
CheckQuiet(i) ==
    /\ conf[i] = "told"
    /\ conf' = [conf EXCEPT ![i] = IF result = "error" THEN "shut" ELSE "serve"]
    /\ UNCHANGED <<configure, process, own, data, shut>>

\* After the broadcast configResult is read without the lock.
Check(i) ==
    /\ conf[i] = "told"
    /\ caller' = Woken
    /\ conf' = [conf EXCEPT ![i] = IF result = "error" THEN "shut" ELSE "serve"]
    /\ UNCHANGED <<ret, lock, result, process, own, data, shut>>

ShutdownFailed(i) ==
    /\ conf[i] = "shut"
    /\ flag' = "yes"
    /\ conf' = [conf EXCEPT ![i] = "done"]
    /\ UNCHANGED <<configure, process, own, data, ctx>>

\* ProcessMessages: a message that is received after the context is
\* cancelled is not handled any more.
HandleMessage(i) ==
    /\ conf[i] = "serve" /\ pipes[i] = "open" /\ child[i] \in {"alive", "dead"}
    /\ IF ctx = "live"
       THEN data' = [data EXCEPT ![i] = "yes"] /\ UNCHANGED conf
       ELSE conf' = [conf EXCEPT ![i] = "done"] /\ UNCHANGED data
    /\ UNCHANGED <<configure, process, own, shut>>

\* A message of a type the handler does not know is left in the pipe: the
\* next RecvMessage fails and handling ends, the process runs on.
UnreadMessage(i) ==
    /\ conf[i] = "serve" /\ pipes[i] = "open" /\ child[i] \in {"alive", "dead"}
    /\ conf' = [conf EXCEPT ![i] = "done"]
    /\ UNCHANGED <<configure, process, own, data, shut>>

\* Mutant: handling goes on after a failed read.
ProcessMessagesRetries(i) ==
    /\ conf[i] = "serve" /\ pipes[i] = "closed"
    /\ conf' = [conf EXCEPT ![i] = "serve"]
    /\ UNCHANGED <<configure, process, own, data, shut>>

ProcessMessagesEnds(i) ==
    /\ conf[i] = "serve" /\ pipes[i] = "closed"
    /\ conf' = [conf EXCEPT ![i] = "done"]
    /\ UNCHANGED <<configure, process, own, data, shut>>

-----------------------------------------------------------------------------
Calls == ConfigureInSubproc \/ Wait \/ Return \/ Shutdown \/ Cancel

Runner ==
    \/ MakePipes \/ MakePipesFails \/ Run \/ RunFails \/ RunReturns
    \/ Broadcast \/ Close \/ Sleep

Goroutine(i) ==
    \/ DoConfigure(i) \/ WaitForConfigure(i) \/ ConfigureBroken(i) \/ Check(i)
    \/ ShutdownFailed(i) \/ HandleMessage(i) \/ UnreadMessage(i)
    \/ ProcessMessagesEnds(i)

CoreNext == Calls \/ Runner \/ \E i \in Runs : Die(i) \/ Goroutine(i)

CoreSpec == CoreInit /\ [][CoreNext]_coreVars

\* Goroutines that can go on do so and a Go mutex starves nobody; a process
\* answers its configuration, and dies when it is killed.  Calls of the owner
\* and other deaths are up to the environment.
Fairness ==
    /\ WF_coreVars(Wait) /\ SF_coreVars(Return) /\ WF_coreVars(Cancel)
    /\ WF_coreVars(Runner)
    /\ \A i \in Runs :
          /\ WF_coreVars(ctx = "cancelled" /\ Die(i))
          /\ SF_coreVars(DoConfigure(i))
          /\ WF_coreVars(WaitForConfigure(i) \/ ConfigureBroken(i))
          /\ WF_coreVars(Check(i)) /\ WF_coreVars(ShutdownFailed(i))
          /\ WF_coreVars(ProcessMessagesEnds(i))

CoreFairSpec == CoreSpec /\ Fairness

-----------------------------------------------------------------------------
(* Properties                                                              *)

CoreTypeOK ==
    /\ caller \in {"idle", "spawned", "waiting", "woken", "returned"}
    /\ ret \in {"none", "nil", "error"} /\ result \in {"nil", "error"}
    /\ lock \in Runs \union {Free, Caller}
    /\ runner \in {"none", "pipes", "start", "wait", "exited", "close",
                   "sleep", "ended", "failed"}
    /\ n \in 0..MaxRuns
    /\ child \in [Runs -> {"none", "alive", "dead"}]
    /\ pipes \in [Runs -> {"none", "open", "closed"}]
    /\ conf \in [Runs -> {"none", "want", "ask", "told", "shut", "serve", "done"}]
    /\ own \in [Runs -> {"none", "nil", "error"}]
    /\ data \in [Runs -> {"yes", "no"}]
    /\ flag \in {"yes", "no"} /\ ctx \in {"live", "cancelled"}

\* Data is handled only of a process that accepted its own configuration,
\* although configResult is shared by the goroutines of all runs and read
\* without the lock: another run's result can be read only when the pipes are
\* closed already.
ServesConfigured == \A i \in Runs : data[i] = "yes" => own[i] = "nil"

\* ConfigureInSubproc returns, although broadcasts may come before it waits
\* or while the lock is held: the first run's goroutine always tells it
\* (unless os.Pipe fails).
ConfigureReturns ==
    (caller = "spawned") ~> (caller = "returned" \/ runner = "failed")

\* After Shutdown, by the owner or because a configuration failed, the loop
\* ends, no process is left and all goroutines end.
ShutdownStops ==
    (flag = "yes") ~>
        /\ runner \in {"ended", "failed"}
        /\ \A i \in Runs : child[i] # "alive" /\ conf[i] \in {"none", "done"}
=============================================================================
