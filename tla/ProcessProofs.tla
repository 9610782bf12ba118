---------------------------- MODULE ProcessProofs -----------------------------
(***************************************************************************)
(* The processes that the collector runs: collectd and the subprocess of a *)
(* monitor, for every number of restarts, and the script of the scripted   *)
(* inputs receiver, for every number of runs and lines of output.          *)
(***************************************************************************)
EXTENDS CollectdManager, SubprocCore, ScriptedInputs, TLAPS

-----------------------------------------------------------------------------
(* The collectd manager, for any monitors and any number of instances of   *)
(* the state machine, restarts and deaths of the process                   *)

\* Instances follow one another: all but the current one have ended, and the
\* later ones do not exist yet.
InstOrder ==
    /\ \A i \in Insts : i < inst => state[i] = "gone"
    /\ \A i \in Insts : i > inst => state[i] = "none" /\ stop[i] = "open"
    /\ \A i \in Insts : i > inst => fwd[i] = "none"

\* A process belongs to a state machine that will reap it.
ProcState == \A i \in Insts : proc[i] # "none" => state[i] \in {"running", "restarting", "shutting"}

\* The last monitor leaves only after the end of the state machine.
LastLeaves ==
    active = {} => \A i \in Insts : i = inst /\ stop[i] = "closed" => state[i] = "gone"

CInv == TypeOK /\ InstOrder /\ ProcState /\ LastLeaves /\ RestartNotLost

\* The initial states satisfy the inductive invariant.
LEMMA CInvInit == Init => CInv
  <1> SUFFICES ASSUME Init PROVE CInv
    BY Zenon
  <1>1. TypeOK
    BY CollectdAssumption DEF Init, TypeOK, Callers, Insts
  <1>2. InstOrder /\ ProcState /\ LastLeaves
    BY DEF Init, InstOrder, ProcState, LastLeaves, Insts
  <1>3. RestartNotLost
    BY Zenon DEF Init, RestartNotLost
  <1> QED
    BY Zenon, <1>1, <1>2, <1>3 DEF CInv

\* A step that changes only the callers' side: what it must still show.
LEMMA ClientFrame ==
  ASSUME CInv, UNCHANGED <<machine, requests, behind>>,
         mutex' \in Callers \union {Nobody},
         pc' \in [Callers -> {"idle", "conf", "shut", "request", "sending", "await"}],
         active' \subseteq Monitors, files' \subseteq Monitors,
         ver' \in Nat, fresh' \in [Insts -> BOOLEAN],
         dp' \in [Monitors -> {"none", "posted"}],
         active' = {} => active = {} \/ (\A i \in Insts : i = inst => state[i] = "gone")
  PROVE  CInv'
  <1>1. TypeOK'
    BY Zenon DEF CInv, TypeOK, machine, requests
  <1>2. InstOrder' /\ ProcState'
    BY Zenon DEF CInv, InstOrder, ProcState, machine, requests
  <1>3. LastLeaves'
    BY Zenon DEF CInv, LastLeaves, machine
  <1>4. RestartNotLost'
    BY Zenon DEF CInv, RestartNotLost, machine, requests
  <1> QED
    BY Zenon, <1>1, <1>2, <1>3, <1>4 DEF CInv

\* The monitors' and the main configuration's steps keep the invariant.
LEMMA ClientInd ==
  ASSUME CInv,
         ConfigureMainCollectd \/ \E m \in Monitors : MonitorStep(m) \/ Post(m) \/ ReceiveDPs(m)
  PROVE  CInv'
  <1> USE CollectdAssumption
  <1>1. CASE ConfigureMainCollectd
    BY <1>1, ClientFrame DEF CInv, TypeOK, ConfigureMainCollectd, Changed, Callers
  <1>2. ASSUME NEW m \in Monitors, WriteConfig(m) PROVE CInv'
    BY <1>2, ClientFrame DEF CInv, TypeOK, WriteConfig, Changed, Callers
  <1>3. ASSUME NEW m \in Monitors, ConfigureFromMonitor(m) PROVE CInv'
    BY <1>3, ClientFrame DEF CInv, TypeOK, ConfigureFromMonitor, history, Callers
  <1>4. ASSUME NEW m \in Monitors, RemoveConfig(m) PROVE CInv'
    BY <1>4, ClientFrame DEF CInv, TypeOK, RemoveConfig, Changed, Callers
  <1>5. ASSUME NEW m \in Monitors, ShutdownAgain(m) PROVE CInv'
    BY Zenon, <1>5, ClientFrame DEF CInv, TypeOK, ShutdownAgain, history, Callers
  <1>6. ASSUME NEW m \in Monitors, ShutdownOne(m) PROVE CInv'
    BY <1>6, ClientFrame DEF CInv, TypeOK, ShutdownOne, history, Callers
  <1>7. ASSUME NEW m \in Monitors, AwaitTerminated(m) PROVE CInv'
    BY Zenon, <1>7, ClientFrame DEF CInv, TypeOK, AwaitTerminated, Terminated, history,
       Callers
  <1>8. ASSUME NEW m \in Monitors, Post(m) PROVE CInv'
    BY Zenon, <1>8, ClientFrame DEF CInv, TypeOK, Post, clients, history
  <1>9. ASSUME NEW m \in Monitors, ReceiveDPs(m) PROVE CInv'
    BY Zenon, <1>9, ClientFrame DEF CInv, TypeOK, ReceiveDPs, clients, history
  <1>10. ASSUME NEW m \in Monitors, ShutdownLast(m) PROVE CInv'
    <2>1. TypeOK'
      <3>1. stop' \in [Insts -> {"open", "closed"}]
        BY Zenon, <1>10 DEF CInv, TypeOK, ShutdownLast
      <3>2. pc' \in [Callers -> {"idle", "conf", "shut", "request", "sending", "await"}]
        BY Zenon, <1>10 DEF CInv, TypeOK, ShutdownLast, Callers
      <3> QED
        BY <1>10, <3>1, <3>2 DEF CInv, TypeOK, ShutdownLast, Changed, Callers, requests
    <2>2. InstOrder' /\ ProcState'
      <3>1. inst' = inst /\ state' = state /\ fwd' = fwd /\ proc' = proc
        BY Zenon, <1>10 DEF ShutdownLast, requests
      <3>2. \A i \in Insts : i > inst => stop'[i] = stop[i]
        BY <1>10 DEF CInv, TypeOK, ShutdownLast, Insts
      <3> QED
        BY Zenon, <3>1, <3>2 DEF CInv, InstOrder, ProcState
    <2>3. LastLeaves'
      BY Zenon, <1>10 DEF LastLeaves, ShutdownLast
    <2>4. RestartNotLost'
      BY Zenon, <1>10 DEF CInv, RestartNotLost, ShutdownLast, Changed, requests
    <2> QED
      BY Zenon, <2>1, <2>2, <2>3, <2>4 DEF CInv
  <1> QED
    BY Zenon, <1>1, <1>2, <1>3, <1>4, <1>5, <1>6, <1>7, <1>8, <1>9, <1>10
       DEF MonitorStep

\* RequestRestart keeps the invariant.
LEMMA RequestInd ==
  ASSUME CInv, NEW c \in Callers, CallerStep(c)
  PROVE  CInv'
  <1> USE CollectdAssumption
  <1>1. CASE RequestRunning(c)
    BY Zenon, <1>1, ClientFrame DEF CInv, TypeOK, RequestRunning, history, Callers
  <1>2. CASE RequestNew(c) \/ RequestErrored(c)
    <2>1. PICK new \in {"uninit", "errored"} :
              /\ inst < MaxInst /\ (inst > 0 => state[inst] = "gone")
              /\ inst' = inst + 1
              /\ state' = [state EXCEPT ![inst + 1] = new]
              /\ fwd' \in {fwd, [fwd EXCEPT ![inst + 1] = "waiting"]}
              /\ deb' \in {deb, [deb EXCEPT ![inst + 1] = "waiting"]}
              /\ pc' = [pc EXCEPT ![c] = "sending"]
              /\ UNCHANGED <<mutex, active, files, ver, stop, proc, deaths, asked, history, dp>>
      BY Zenon, <1>2 DEF RequestNew, RequestErrored, Terminated, requests
    <2>2. inst \in Nat /\ inst + 1 \in Insts /\ MaxInst \in Nat
      BY <2>1 DEF CInv, TypeOK, Insts
    <2>3. \A i \in Insts : i < inst' => state[i] = "gone" /\ i # inst + 1
      BY <2>1, <2>2 DEF CInv, InstOrder, Insts
    <2>4. TypeOK'
      <3>1. inst' \in 0..MaxInst
        BY <2>1, <2>2
      <3>2. /\ fwd' \in [Insts -> {"none", "waiting", "calling", "gone"}]
            /\ deb' \in [Insts -> {"none", "waiting", "firing", "gone"}]
        BY <2>1, <2>2 DEF CInv, TypeOK
      <3> QED
        BY Zenon, <2>1, <2>2, <3>1, <3>2 DEF CInv, TypeOK, history
    <2>5. InstOrder'
      <3>1. \A i \in Insts : i < inst' => state'[i] = "gone"
        BY <2>1, <2>3 DEF CInv, TypeOK
      <3>2. \A i \in Insts : i > inst' => i > inst /\ i # inst + 1
        BY <2>1, <2>2 DEF Insts
      <3>3. \A i \in Insts : i > inst' => state'[i] = "none" /\ stop'[i] = "open" /\ fwd'[i] = "none"
        BY <2>1, <2>2, <3>2 DEF CInv, TypeOK, InstOrder
      <3> QED
        BY Zenon, <3>1, <3>3 DEF InstOrder
    <2>6. state[inst + 1] = "none" /\ proc[inst + 1] = "none" /\ stop[inst + 1] = "open"
      BY <2>2 DEF CInv, InstOrder, ProcState, Insts
    <2>7. \A i \in Insts : i # inst + 1 => state'[i] = state[i] /\ fwd'[i] = fwd[i]
      BY <2>1, <2>2 DEF CInv, TypeOK
    <2>8. ProcState'
      BY Zenon, <2>1, <2>6, <2>7 DEF CInv, ProcState
    <2>9. LastLeaves'
      BY Zenon, <2>1, <2>6 DEF LastLeaves
    <2>10. state'[inst + 1] # "running"
      BY <2>1, <2>2 DEF CInv, TypeOK
    <2>11. RestartNotLost'
      BY Zenon, <2>1, <2>7, <2>10 DEF CInv, RestartNotLost, history
    <2> QED
      BY Zenon, <2>4, <2>5, <2>8, <2>9, <2>11 DEF CInv
  <1>3. ASSUME NEW i \in Insts, Send(c, i) PROVE CInv'
    <2>1. /\ fwd[i] = "waiting" /\ fwd' = [fwd EXCEPT ![i] = "calling"]
          /\ behind' = [behind EXCEPT ![i] = ~fresh[i]]
          /\ mutex' = Nobody /\ pc' = [pc EXCEPT ![c] = "idle"]
          /\ UNCHANGED <<active, files, ver, machine, deb, asked, fresh, dp>>
      BY Zenon, <1>3 DEF Send
    <2>2. TypeOK'
      BY Zenon, <2>1 DEF CInv, TypeOK, machine
    <2>3. InstOrder' /\ ProcState'
      BY <2>1 DEF CInv, TypeOK, InstOrder, ProcState, machine
    <2>4. LastLeaves'
      BY Zenon, <2>1 DEF CInv, LastLeaves, machine
    <2>5. RestartNotLost'
      BY <2>1 DEF CInv, TypeOK, RestartNotLost, machine
    <2> QED
      BY Zenon, <2>2, <2>3, <2>4, <2>5 DEF CInv
  <1> QED
    BY Zenon, <1>1, <1>2, <1>3 DEF CallerStep

\* The forwarder and the debouncer keep the invariant.
LEMMA DebounceInd ==
  ASSUME CInv, NEW i \in Insts,
         Debounced(i) \/ ForwarderEnd(i) \/ DebounceTick(i) \/ DebounceEnd(i)
  PROVE  CInv'
  <1>1. UNCHANGED <<clients, machine, history, dp>>
    BY Zenon DEF Debounced, ForwarderEnd, DebounceTick, DebounceEnd
  <1>2. TypeOK'
    BY <1>1 DEF CInv, TypeOK, Debounced, ForwarderEnd, DebounceTick, DebounceEnd,
       clients, machine, history
  <1>3. \A j \in Insts : fwd[j] = "none" => fwd'[j] = "none"
    BY DEF CInv, TypeOK, Debounced, ForwarderEnd, DebounceTick, DebounceEnd
  <1>4. InstOrder' /\ ProcState' /\ LastLeaves'
    BY Zenon, <1>1, <1>3 DEF CInv, InstOrder, ProcState, LastLeaves, clients, machine
  <1>5. \A j \in Insts : state[j] = "running" /\ fwd'[j] # "calling" /\ asked'[j] = "no"
            => fwd[j] # "calling" /\ asked[j] = "no"
    BY DEF CInv, TypeOK, Debounced, ForwarderEnd, DebounceTick, DebounceEnd
  <1>6. RestartNotLost'
    BY Zenon, <1>1, <1>5 DEF CInv, RestartNotLost, machine, history
  <1> QED
    BY Zenon, <1>2, <1>4, <1>6 DEF CInv

\* A step of the state machine of i that leaves requests and callers alone.
LEMMA MachineFrame ==
  ASSUME CInv, NEW i \in Insts,
         UNCHANGED <<clients, inst, stop, fwd, dp>>,
         state' \in [Insts -> {"none", "errored", "uninit", "starting", "running",
                            "restarting", "shutting", "stopped", "gone"}],
         deb' \in [Insts -> {"none", "waiting", "firing", "gone"}],
         asked' \in [Insts -> {"no", "yes"}],
         proc' \in [Insts -> {"none", "alive", "died"}],
         fresh' \in [Insts -> BOOLEAN], behind' \in [Insts -> BOOLEAN], deaths' \in Nat,
         \A j \in Insts : j # i => state'[j] = state[j] /\ proc'[j] = proc[j] /\ asked'[j] = asked[j]
                                    /\ behind'[j] = behind[j],
         state[i] \notin {"none", "gone"},
         proc'[i] # "none" => state'[i] \in {"running", "restarting", "shutting"},
         state'[i] = "running" =>
             \/ ~behind'[i]
             \/ state[i] = "running" /\ asked'[i] = asked[i] /\ behind'[i] = behind[i]
  PROVE  CInv'
  <1>1. TypeOK'
    BY Zenon DEF CInv, TypeOK, clients
  <1>2. i = inst
    BY DEF CInv, TypeOK, InstOrder, Insts
  <1>3. InstOrder'
    BY <1>2 DEF CInv, TypeOK, InstOrder, Insts
  <1>4. ProcState'
    BY Zenon DEF CInv, ProcState
  <1>5. LastLeaves'
    BY Zenon, <1>2 DEF CInv, LastLeaves, clients
  <1>6. RestartNotLost'
    BY DEF CInv, RestartNotLost
  <1> QED
    BY Zenon, <1>1, <1>3, <1>4, <1>5, <1>6 DEF CInv

\* The state machine keeps the invariant.
LEMMA MachineInd ==
  ASSUME CInv, NEW i \in Insts, InstStep(i)
  PROVE  CInv'
  <1>1. CASE TakeRestart(i)
    BY <1>1, MachineFrame DEF CInv, TypeOK, ProcState, TakeRestart, history
  <1>2. CASE TakeStop(i)
    BY <1>2, MachineFrame DEF CInv, TypeOK, ProcState, TakeStop, requests, history
  <1>3. CASE RenderFails(i)
    BY <1>3, MachineFrame DEF CInv, TypeOK, ProcState, RenderFails, requests, history
  <1>4. CASE StartCollectd(i)
    <2>1. /\ behind' \in [Insts -> BOOLEAN] /\ ~behind'[i]
          /\ \A j \in Insts : j # i => behind'[j] = behind[j]
      BY <1>4 DEF CInv, TypeOK, StartCollectd
    <2>2. fresh' \in [Insts -> BOOLEAN]
      BY Zenon, <1>4 DEF CInv, TypeOK, StartCollectd
    <2>3. /\ state[i] = "starting" /\ state' = [state EXCEPT ![i] = "running"]
          /\ proc' = [proc EXCEPT ![i] = "alive"]
          /\ UNCHANGED <<clients, inst, stop, deaths, requests, dp>>
      BY Zenon, <1>4 DEF StartCollectd
    <2> QED
      BY <2>1, <2>2, <2>3, MachineFrame DEF CInv, TypeOK, requests
  <1>5. CASE ProcessDies(i)
    BY <1>5, MachineFrame DEF CInv, TypeOK, ProcState, ProcessDies, requests, history
  <1>6. CASE TakeDied(i)
    BY <1>6, MachineFrame DEF CInv, TypeOK, TakeDied, requests, history
  <1>7. CASE KillCollectd(i)
    BY <1>7, MachineFrame DEF CInv, TypeOK, KillCollectd, requests, history
  <1>8. CASE Terminate(i)
    BY <1>8, MachineFrame DEF CInv, TypeOK, ProcState, Terminate, requests, history
  <1> QED
    BY Zenon, <1>1, <1>2, <1>3, <1>4, <1>5, <1>6, <1>7, <1>8, DebounceInd DEF InstStep

\* CInv is an invariant of the specification.
THEOREM CollectdInvariance == Spec => []CInv
  <1>1. CInv /\ UNCHANGED vars => CInv'
    BY DEF CInv, TypeOK, InstOrder, ProcState, LastLeaves, RestartNotLost, vars
  <1>2. CInv /\ [Next]_vars => CInv'
    BY Zenon, <1>1, ClientInd, RequestInd, MachineInd DEF Next
  <1> QED
    BY CInvInit, <1>2, PTL DEF Spec

\* The manager's state stays well typed.
THEOREM CollectdTypeOK == Spec => []TypeOK
  <1>1. CInv => TypeOK
    BY Zenon DEF CInv
  <1> QED
    BY CollectdInvariance, <1>1, PTL

\* manageCollectd never has two collectd processes, over any number of
\* restarts, crashes and instances of the state machine.
THEOREM CollectdAtMostOneProcess == Spec => []AtMostOneProcess
  <1>1. CInv => AtMostOneProcess
    <2> SUFFICES ASSUME CInv PROVE AtMostOneProcess
      BY Zenon
    <2>1. \A i \in Insts : state[i] \notin {"none", "gone"} => i = inst
      BY DEF CInv, TypeOK, InstOrder, Insts
    <2> QED
      BY Zenon, <2>1 DEF CInv, ProcState, AtMostOneProcess
  <1> QED
    BY CollectdInvariance, <1>1, PTL

\* Once MonitorDidShutdown of the last monitor has returned, every state
\* machine has ended and no process is left.
THEOREM CollectdLastShutdownStops == Spec => []LastShutdownStops
  <1>1. CInv => LastShutdownStops
    <2> SUFFICES ASSUME CInv, active = {}, inst > 0, stop[inst] = "closed", NEW i \in 1..inst
                 PROVE  state[i] = "gone" /\ proc[i] = "none"
      BY Zenon DEF LastShutdownStops, Terminated
    <2>1. i \in Insts /\ inst \in Insts /\ (i < inst \/ i = inst)
      BY CollectdAssumption DEF CInv, TypeOK, Insts
    <2>2. state[i] = "gone"
      BY Zenon, <2>1 DEF CInv, InstOrder, LastLeaves
    <2> QED
      BY Zenon, <2>1, <2>2 DEF CInv, ProcState
  <1> QED
    BY CollectdInvariance, <1>1, PTL

\* A restart request that an instance has received is never lost.
THEOREM CollectdRestartNotLost == Spec => []RestartNotLost
  <1>1. CInv => RestartNotLost
    BY Zenon DEF CInv
  <1> QED
    BY CollectdInvariance, <1>1, PTL

-----------------------------------------------------------------------------
(* The subprocess of a monitor                                             *)

\* Nothing exists of the runs to come.
FutureRuns ==
    /\ n = 0 => runner \in {"none", "pipes", "failed"}
    /\ caller = "idle" => runner = "none" /\ n = 0
    /\ \A i \in Runs : i > n => /\ child[i] = "none" /\ pipes[i] = "none" /\ conf[i] = "none"

\* Only the pipes of the present run may be open, and none between two runs.
PipesOfRun ==
    \A i \in Runs : pipes[i] = "open" =>
        i = n /\ runner \in {"start", "wait", "exited", "close"}

\* No process outlives the call of Run that started it, so that there is
\* never more than one: runWithRestart starts the next after the wait.
OneSubprocess == \A i \in Runs : child[i] = "alive" => i = n /\ runner = "wait"

\* What a goroutine may read of configResult, and what it has decided by it.
\* The result of the present run may be overwritten by an older one's failure,
\* never by its success: a success is read from open pipes.
Decided ==
    \A i \in Runs :
        /\ conf[i] \in {"none", "want", "ask"} => data[i] = "no"
        /\ conf[i] \in {"told", "shut", "serve", "done"} => own[i] # "none"
        /\ conf[i] = "told" /\ pipes[i] = "open" /\ own[i] = "error" => result = "error"
        /\ conf[i] = "serve" /\ pipes[i] = "open" => own[i] = "nil"

SubprocInv ==
    CoreTypeOK /\ FutureRuns /\ PipesOfRun /\ OneSubprocess /\ Decided /\ ServesConfigured

\* The initial states satisfy the inductive invariant.
LEMMA SubprocInit == CoreInit => SubprocInv
BY SubprocAssumption
   DEF CoreInit, SubprocInv, CoreTypeOK, FutureRuns, PipesOfRun, OneSubprocess, Decided,
       ServesConfigured, Runs, Free

\* The calls of the owner do not touch runs.
LEMMA SubprocCalls == SubprocInv /\ Calls => SubprocInv'
<1> SUFFICES ASSUME SubprocInv, Calls PROVE SubprocInv'
    BY Zenon
<1> USE SubprocAssumption DEF SubprocInv, Runs
<1> USE DEF CoreTypeOK, FutureRuns, PipesOfRun, OneSubprocess, Decided, ServesConfigured
<1>1. CASE ConfigureInSubproc
      BY <1>1 DEF Caller, ConfigureInSubproc, shut, process, configure, goroutine
<1>2. CASE Wait
      BY <1>2 DEF Free, Wait, shut, process, configure, goroutine
<1>3. CASE Return
      BY <1>3 DEF Return, shut, process, configure, goroutine
<1>4. CASE Shutdown
      BY <1>4 DEF Shutdown, shut, process, configure, goroutine
<1>5. CASE Cancel
      BY <1>5 DEF Cancel, shut, process, configure, goroutine
<1> QED BY Zenon, <1>1, <1>2, <1>3, <1>4, <1>5 DEF Calls

\* runWithRestart moves from one run to the next.
LEMMA SubprocRunner == SubprocInv /\ Runner => SubprocInv'
<1> SUFFICES ASSUME SubprocInv, Runner PROVE SubprocInv'
    BY Zenon
<1> USE SubprocAssumption DEF SubprocInv, Runs
<1> USE DEF CoreTypeOK, FutureRuns, PipesOfRun, OneSubprocess, Decided, ServesConfigured
<1>1. CASE MakePipes
      BY <1>1 DEF MakePipes, shut, process, configure, goroutine
<1>2. CASE MakePipesFails
      BY <1>2 DEF MakePipesFails, shut, process, configure, goroutine
<1>3. CASE Run
      BY <1>3 DEF Run, shut, process, configure, goroutine
<1>4. CASE RunFails
      BY <1>4 DEF RunFails, shut, process, configure, goroutine
<1>5. CASE RunReturns
      BY <1>5 DEF RunReturns, shut, process, configure, goroutine
<1>6. CASE Broadcast
      BY <1>6 DEF Woken, Broadcast, shut, process, configure, goroutine
<1>7. CASE Close
      BY <1>7 DEF Close, shut, process, configure, goroutine
<1>8. CASE Sleep
      BY <1>8 DEF Sleep, shut, process, configure, goroutine
<1> QED BY Zenon, <1>1, <1>2, <1>3, <1>4, <1>5, <1>6, <1>7, <1>8 DEF Runner

\* A process ends, or the goroutine of a run takes a step.
LEMMA SubprocRun ==
    ASSUME SubprocInv, NEW i \in Runs, Die(i) \/ Goroutine(i)
    PROVE  SubprocInv'
<1> USE SubprocAssumption DEF SubprocInv, Runs
<1> USE DEF CoreTypeOK, FutureRuns, PipesOfRun, OneSubprocess, Decided, ServesConfigured
<1>1. CASE Die(i)
      BY <1>1 DEF Die, shut, process, configure, goroutine
<1>2. CASE DoConfigure(i)
      BY <1>2 DEF DoConfigure, shut, process, configure, goroutine
<1>3. CASE WaitForConfigure(i)
      BY <1>3 DEF WaitForConfigure, Answered, Free, shut, process, configure, goroutine
<1>4. CASE ConfigureBroken(i)
      BY <1>4 DEF ConfigureBroken, Answered, Free, shut, process, configure, goroutine
<1>5. CASE Check(i)
      BY <1>5 DEF Check, Woken, shut, process, configure, goroutine
<1>6. CASE ShutdownFailed(i)
      BY <1>6 DEF ShutdownFailed, shut, process, configure, goroutine
<1>7. CASE HandleMessage(i)
  <2>1. CASE ctx = "live"
        BY <1>7, <2>1 DEF HandleMessage, shut, process, configure, goroutine
  <2>2. CASE ctx # "live"
        BY <1>7, <2>2 DEF HandleMessage, shut, process, configure, goroutine
  <2> QED BY Zenon, <2>1, <2>2
<1>8. CASE UnreadMessage(i)
      BY <1>8 DEF UnreadMessage, shut, process, configure, goroutine
<1>9. CASE ProcessMessagesEnds(i)
      BY <1>9 DEF ProcessMessagesEnds, shut, process, configure, goroutine
<1> QED BY Zenon, <1>1, <1>2, <1>3, <1>4, <1>5, <1>6, <1>7, <1>8, <1>9 DEF Goroutine

\* The inductive invariant of the subprocess.
THEOREM SubprocInvariant == CoreSpec => []SubprocInv
<1>1. SubprocInv /\ [CoreNext]_coreVars => SubprocInv'
  <2>1. SubprocInv /\ UNCHANGED coreVars => SubprocInv'
        BY DEF coreVars, SubprocInv, CoreTypeOK, FutureRuns, PipesOfRun, OneSubprocess,
           Decided,
               ServesConfigured
  <2> QED BY Zenon, <2>1, SubprocCalls, SubprocRunner, SubprocRun DEF CoreNext
<1> QED BY <1>1, SubprocInit, PTL DEF CoreSpec

\* Data is handled only of a process that accepted its own configuration,
\* however often the monitor's process is restarted and in whatever order the
\* goroutines of old and new runs write and read configResult.
THEOREM SubprocServesConfigured == CoreSpec => []ServesConfigured
BY SubprocInvariant, PTL DEF SubprocInv

\* runWithRestart never has two processes at a time, and has none while it
\* makes pipes, sleeps or has ended.
THEOREM SubprocOneProcess == CoreSpec => []OneSubprocess
BY SubprocInvariant, PTL DEF SubprocInv

\* The types of the subprocess core's variables.
THEOREM SubprocTypeOK == CoreSpec => []CoreTypeOK
BY SubprocInvariant, PTL DEF SubprocInv

-----------------------------------------------------------------------------
(* The scripts of the scripted inputs receiver                             *)

ScriptsSpec == ScriptsInit /\ [][ScriptsNext]_scriptVars

\* The goroutines of a run have ended or never began.
Quiet(s) == s.ender \in {"none", "over"} /\ s.reader \in {"none", "over"}

\* Done is signalled and waitCh closed after the process is reaped and its
\* output copied; the pipe is closed, and the run over, after that or, when
\* SIGTERM comes too late, after the process is reaped.
Ordered(s) ==
    /\ s.reaped => s.sh \in {"zero", "failed"}
    /\ s.watch = "closed" => s.copier = "eof" /\ s.reaped
    /\ s.done = 1 \/ s.closed => s.watch = "closed"
    /\ s.ender = "over" => s.reaped
    /\ s.ender = "none" => s.sh = "none" /\ s.reader = "none"
    /\ s.reader = "none" => s.ender = "none"

\* beginCycle is reached with no run under way, and only the run of the
\* present cycle may be under way at all.
CyclesApart ==
    /\ loop \in {"idle", "begin", "starting"} => \A i \in Cycles : Quiet(script[i])
    /\ loop \in {"starting", "select"} => cycle \in Cycles
    /\ \A i \in Cycles : i # cycle => Quiet(script[i])

\* The receiver never has two scripts running: the interval's end waits for
\* the goroutines of the run, and these for the process.
OneScript ==
    \A i, j \in Cycles : script[i].sh = "alive" /\ script[j].sh = "alive" => i = j

ScriptsInv == ScriptsTypeOK /\ CyclesApart /\ \A i \in Cycles : Ordered(script[i])

\* The initial states satisfy the inductive invariant.
LEMMA ScriptsInitInv == ScriptsInit => ScriptsInv
BY ScriptedAssumption
   DEF ScriptsInit, ScriptsInv, ScriptsTypeOK, CyclesApart, Quiet, Ordered, Cycles, NoScript,
       Script

\* A step of one run keeps the invariant when it keeps the order of that run
\* and does not bring a quiet run back to life.
LEMMA OneRunStep ==
    ASSUME ScriptsInv, NEW i \in Cycles, NEW s \in Script, Becomes(i, s),
           Ordered(s), Quiet(script[i]) => Quiet(s)
    PROVE  ScriptsInv'
<1>1. /\ script \in [Cycles -> Script] /\ script'[i] = s
      /\ \A j \in Cycles : j # i => script'[j] = script[j]
      /\ script' \in [Cycles -> Script]
      BY Zenon DEF ScriptsInv, ScriptsTypeOK, Becomes
<1>2. ScriptsTypeOK'
      BY Zenon, <1>1 DEF ScriptsInv, ScriptsTypeOK, Becomes
<1>3. \A j \in Cycles : Quiet(script[j]) => Quiet(script'[j])
      BY Zenon, <1>1
<1>4. CyclesApart'
      BY Zenon, <1>3 DEF ScriptsInv, CyclesApart, Becomes
<1>5. \A j \in Cycles : Ordered(script'[j])
      BY Zenon, <1>1 DEF ScriptsInv
<1> QED BY Zenon, <1>2, <1>4, <1>5 DEF ScriptsInv

\* A run that has just started is in order.
LEMMA StartedOrdered == Started \in Script /\ Ordered(Started)
<1>1. 0 \in 0..MaxLines
      BY ScriptedAssumption
<1>2. NoScript \in Script
      BY <1>1 DEF NoScript, Script
<1>3. Started \in Script
      BY Zenon, <1>2 DEF Started, Script
<1>4. Ordered(Started)
      BY DEF Started, NoScript, Ordered
<1> QED BY Zenon, <1>3, <1>4

\* The steps of the loop of Start and of the operator's Stop.
LEMMA LoopSteps ==
    ASSUME ScriptsInv,
           \/ StartOperator \/ BeginCycle \/ StartScript \/ StartFails \/ LoopEnds
           \/ IntervalEnds \/ NextCycle \/ StopOperator \/ OperatorStopped
    PROVE  ScriptsInv'
<1> USE ScriptedAssumption DEF ScriptsInv, ScriptsTypeOK, CyclesApart, Cycles
<1>1. CASE StartOperator
      BY Zenon, <1>1 DEF StartOperator
<1>2. CASE BeginCycle
      BY <1>2 DEF BeginCycle
<1>3. CASE StartScript
  <2>1. Started \in Script /\ Ordered(Started)
        BY Zenon, StartedOrdered
  <2>2. /\ script'[cycle] = Started /\ script' \in [Cycles -> Script]
        /\ \A j \in Cycles : j # cycle => script'[j] = script[j]
        BY Zenon, <1>3, <2>1 DEF StartScript
  <2> QED BY Zenon, <1>3, <2>1, <2>2 DEF StartScript
<1>4. CASE StartFails
      BY Zenon, <1>4 DEF StartFails
<1>5. CASE LoopEnds
      BY Zenon, <1>5 DEF LoopEnds
<1>6. CASE IntervalEnds
      BY Zenon, <1>6 DEF IntervalEnds
<1>7. CASE NextCycle
      BY Zenon, <1>7 DEF NextCycle, NoneUnderWay, Quiet
<1>8. CASE StopOperator
      BY Zenon, <1>8 DEF StopOperator
<1>9. CASE OperatorStopped
      BY Zenon, <1>9 DEF OperatorStopped
<1> QED BY Zenon, <1>1, <1>2, <1>3, <1>4, <1>5, <1>6, <1>7, <1>8, <1>9

\* The steps of the process, of os/exec and of the goroutines of a run.
LEMMA RunSteps ==
    ASSUME ScriptsInv, NEW i \in Cycles,
           \/ ScriptForks(i) \/ HeirsEnd(i)
           \/ ScriptPrints(i) \/ ScriptExits(i) \/ ContextKills(i) \/ Reap(i) \/ CopyEnds(i)
           \/ Watch(i) \/ EndOnDone(i) \/ EndOnContext(i) \/ StopSignals(i) \/ KillTimer(i)
           \/ StopReturnsTo(i) \/ ReadLine(i) \/ WriteEntry(i) \/ ReadEOF(i) \/ ScanFails(i)
    PROVE  ScriptsInv'
<1> DEFINE s == script[i]
<1>0. s \in Script /\ Ordered(s) /\ MaxLines \in Nat
      BY Zenon, ScriptedAssumption DEF ScriptsInv, ScriptsTypeOK
<1> SUFFICES \E t \in Script : Becomes(i, t) /\ Ordered(t) /\ (Quiet(s) => Quiet(t))
    BY Zenon, OneRunStep
<1>1. CASE ScriptPrints(i)
  <2> DEFINE t == [s EXCEPT !.copier = "line", !.lines = @ + 1]
  <2>1. t \in Script
    <3>1. s.lines + 1 \in 0..MaxLines
          BY <1>0, <1>1 DEF ScriptPrints, Script
    <3> QED BY Zenon, <1>0, <3>1 DEF Script
  <2>2. Ordered(t) /\ (Quiet(s) => Quiet(t))
        BY Zenon, <1>0, <1>1 DEF ScriptPrints, Script, Ordered, Quiet
  <2>3. Becomes(i, t)
        BY Zenon, <1>1 DEF ScriptPrints
  <2> QED BY Zenon, <2>1, <2>2, <2>3
<1>2. CASE ScriptExits(i)
  <2>1. PICK status \in {"zero", "failed"} : Becomes(i, [s EXCEPT !.sh = status])
        BY Zenon, <1>2 DEF ScriptExits
  <2> DEFINE t == [s EXCEPT !.sh = status]
  <2>2. t \in Script
        BY Zenon, <1>0 DEF Script
  <2>3. Ordered(t) /\ (Quiet(s) => Quiet(t))
        BY Zenon, <1>0, <1>2 DEF ScriptExits, Script, Ordered, Quiet
  <2> QED BY Zenon, <2>1, <2>2, <2>3
<1>3. CASE ContextKills(i)
  <2> DEFINE t == [s EXCEPT !.sh = "failed"]
  <2>1. t \in Script
        BY Zenon, <1>0, <1>3 DEF ContextKills, Script
  <2>2. Ordered(t) /\ (Quiet(s) => Quiet(t))
        BY Zenon, <1>0, <1>3 DEF ContextKills, Script, Ordered, Quiet
  <2>3. Becomes(i, t)
        BY Zenon, <1>3 DEF ContextKills
  <2> QED BY Zenon, <2>1, <2>2, <2>3
<1>4. CASE Reap(i)
  <2> DEFINE t == [s EXCEPT !.reaped = TRUE]
  <2>1. t \in Script
        BY Zenon, <1>0, <1>4 DEF Reap, Script
  <2>2. Ordered(t) /\ (Quiet(s) => Quiet(t))
        BY Zenon, <1>0, <1>4 DEF Reap, Script, Ordered, Quiet
  <2>3. Becomes(i, t)
        BY Zenon, <1>4 DEF Reap
  <2> QED BY Zenon, <2>1, <2>2, <2>3
<1>5. CASE CopyEnds(i)
  <2> DEFINE t == [s EXCEPT !.copier = "eof"]
  <2>1. t \in Script
        BY Zenon, <1>0, <1>5 DEF CopyEnds, Script
  <2>2. Ordered(t) /\ (Quiet(s) => Quiet(t))
        BY Zenon, <1>0, <1>5 DEF CopyEnds, Script, Ordered, Quiet
  <2>3. Becomes(i, t)
        BY Zenon, <1>5 DEF CopyEnds
  <2> QED BY Zenon, <2>1, <2>2, <2>3
<1>6. CASE Watch(i)
  <2> DEFINE t == [s EXCEPT !.watch = "closed", !.done = IF s.sh = "zero" THEN 1 ELSE 0]
  <2>1. t \in Script
    <3>1. (IF s.sh = "zero" THEN 1 ELSE 0) \in 0..1
          BY <1>0, <1>6 DEF Watch, Script
    <3> QED BY Zenon, <1>0, <3>1 DEF Script
  <2>2. Ordered(t) /\ (Quiet(s) => Quiet(t))
        BY Zenon, <1>0, <1>6 DEF Watch, Script, Ordered, Quiet
  <2>3. Becomes(i, t)
        BY Zenon, <1>6 DEF Watch
  <2> QED BY Zenon, <2>1, <2>2, <2>3
<1>7. CASE EndOnDone(i)
  <2> DEFINE t == [s EXCEPT !.done = @ - 1, !.closed = TRUE, !.ender = "over"]
  <2>1. t \in Script
    <3>1. s.done - 1 \in 0..1
          BY <1>0, <1>7 DEF EndOnDone, Script
    <3> QED BY Zenon, <1>0, <3>1 DEF Script
  <2>2. Ordered(t) /\ (Quiet(s) => Quiet(t))
        BY Zenon, <1>0, <1>7 DEF EndOnDone, Script, Ordered, Quiet
  <2>3. Becomes(i, t)
        BY Zenon, <1>7 DEF EndOnDone
  <2> QED BY Zenon, <2>1, <2>2, <2>3
<1>8. CASE EndOnContext(i)
  <2> DEFINE t == [s EXCEPT !.ender = "signal"]
  <2>1. t \in Script
        BY Zenon, <1>0, <1>8 DEF EndOnContext, Script
  <2>2. Ordered(t) /\ (Quiet(s) => Quiet(t))
        BY Zenon, <1>0, <1>8 DEF EndOnContext, Script, Ordered, Quiet
  <2>3. Becomes(i, t)
        BY Zenon, <1>8 DEF EndOnContext
  <2> QED BY Zenon, <2>1, <2>2, <2>3
<1>9. CASE StopSignals(i)
  <2> DEFINE t == [s EXCEPT !.ender = IF s.reaped THEN "over" ELSE "await"]
  <2>1. t \in Script
        BY Zenon, <1>0, <1>9 DEF StopSignals, Script
  <2>2. Ordered(t) /\ (Quiet(s) => Quiet(t))
        BY Zenon, <1>0, <1>9 DEF StopSignals, Script, Ordered, Quiet
  <2>3. Becomes(i, t)
        BY Zenon, <1>9 DEF StopSignals
  <2> QED BY Zenon, <2>1, <2>2, <2>3
<1>10. CASE KillTimer(i)
  <2> DEFINE t == [s EXCEPT !.timer = "fired", !.err = s.reaped,
                              !.sh = IF s.sh = "alive" THEN "failed" ELSE s.sh]
  <2>1. t \in Script
        BY Zenon, <1>0, <1>10 DEF KillTimer, Script
  <2>2. Ordered(t) /\ (Quiet(s) => Quiet(t))
        BY Zenon, <1>0, <1>10 DEF KillTimer, Script, Ordered, Quiet
  <2>3. Becomes(i, t)
        BY Zenon, <1>10 DEF KillTimer
  <2> QED BY Zenon, <2>1, <2>2, <2>3
<1>11. CASE StopReturnsTo(i)
  <2> DEFINE t == [s EXCEPT !.ender = "over", !.closed = ~s.err]
  <2>1. t \in Script
        BY Zenon, <1>0, <1>11 DEF StopReturnsTo, Script
  <2>2. Ordered(t) /\ (Quiet(s) => Quiet(t))
        BY Zenon, <1>0, <1>11 DEF StopReturnsTo, Script, Ordered, Quiet
  <2>3. Becomes(i, t)
        BY Zenon, <1>11 DEF StopReturnsTo
  <2> QED BY Zenon, <2>1, <2>2, <2>3
<1>12. CASE ReadLine(i)
  <2> DEFINE t == [s EXCEPT !.reader = "write", !.copier = "idle"]
  <2>1. t \in Script
        BY Zenon, <1>0, <1>12 DEF ReadLine, Script
  <2>2. Ordered(t) /\ (Quiet(s) => Quiet(t))
        BY Zenon, <1>0, <1>12 DEF ReadLine, Script, Ordered, Quiet
  <2>3. Becomes(i, t)
        BY Zenon, <1>12 DEF ReadLine
  <2> QED BY Zenon, <2>1, <2>2, <2>3
<1>13. CASE WriteEntry(i)
  <2> DEFINE t == [s EXCEPT !.reader = "scan"]
  <2>1. t \in Script
        BY Zenon, <1>0, <1>13 DEF WriteEntry, Script
  <2>2. Ordered(t) /\ (Quiet(s) => Quiet(t))
        BY Zenon, <1>0, <1>13 DEF WriteEntry, Script, Ordered, Quiet
  <2>3. Becomes(i, t)
        BY Zenon, <1>13 DEF WriteEntry
  <2> QED BY Zenon, <2>1, <2>2, <2>3
<1>14. CASE ReadEOF(i)
  <2> DEFINE t == [s EXCEPT !.reader = "over"]
  <2>1. t \in Script
        BY Zenon, <1>0, <1>14 DEF ReadEOF, Script
  <2>2. Ordered(t) /\ (Quiet(s) => Quiet(t))
        BY Zenon, <1>0, <1>14 DEF ReadEOF, Script, Ordered, Quiet
  <2>3. Becomes(i, t)
        BY Zenon, <1>14 DEF ReadEOF
  <2> QED BY Zenon, <2>1, <2>2, <2>3
<1>15. CASE ScanFails(i)
  <2> DEFINE t == [s EXCEPT !.reader = "over"]
  <2>1. t \in Script
        BY Zenon, <1>0, <1>15 DEF ScanFails, Script
  <2>2. Ordered(t) /\ (Quiet(s) => Quiet(t))
        BY Zenon, <1>0, <1>15 DEF ScanFails, Script, Ordered, Quiet
  <2>3. Becomes(i, t)
        BY Zenon, <1>15 DEF ScanFails
  <2> QED BY Zenon, <2>1, <2>2, <2>3
<1>16. CASE ScriptForks(i)
  <2> DEFINE t == [s EXCEPT !.heirs = TRUE]
  <2>1. t \in Script
        BY Zenon, <1>0, <1>16 DEF ScriptForks, Script
  <2>2. Ordered(t) /\ (Quiet(s) => Quiet(t))
        BY Zenon, <1>0, <1>16 DEF ScriptForks, Script, Ordered, Quiet
  <2>3. Becomes(i, t)
        BY Zenon, <1>16 DEF ScriptForks
  <2> QED BY Zenon, <2>1, <2>2, <2>3
<1>17. CASE HeirsEnd(i)
  <2> DEFINE t == [s EXCEPT !.heirs = FALSE]
  <2>1. t \in Script
        BY Zenon, <1>0, <1>17 DEF HeirsEnd, Script
  <2>2. Ordered(t) /\ (Quiet(s) => Quiet(t))
        BY Zenon, <1>0, <1>17 DEF HeirsEnd, Script, Ordered, Quiet
  <2>3. Becomes(i, t)
        BY Zenon, <1>17 DEF HeirsEnd
  <2> QED BY Zenon, <2>1, <2>2, <2>3
<1> QED BY Zenon, <1>1, <1>2, <1>3, <1>4, <1>5, <1>6, <1>7, <1>8, <1>9, <1>10, <1>11,
           <1>12, <1>13, <1>14, <1>15, <1>16, <1>17

\* The inductive invariant of the scripted inputs.
THEOREM ScriptsInvariant == ScriptsSpec => []ScriptsInv
<1>1. ScriptsInv /\ [ScriptsNext]_scriptVars => ScriptsInv'
  <2>1. ScriptsInv /\ UNCHANGED scriptVars => ScriptsInv'
        BY Zenon DEF scriptVars, ScriptsInv, ScriptsTypeOK, CyclesApart
  <2> QED BY Zenon, <2>1, LoopSteps, RunSteps DEF ScriptsNext, CollectorStep
<1> QED BY <1>1, ScriptsInitInv, PTL DEF ScriptsSpec

\* The pipe of a run is closed only after everything the script printed has
\* been read, on either way out of the run.
THEOREM ScriptsNothingCutOff == ScriptsSpec => []NothingCutOff
<1>1. ScriptsInv => NothingCutOff
      BY Zenon DEF ScriptsInv, Ordered, NothingCutOff
<1> QED BY <1>1, ScriptsInvariant, PTL

\* Never two runs of the script at once, though every run has three goroutines
\* and a kill timer of its own, and the interval may end at any time.
THEOREM ScriptsNeverOverlap == ScriptsSpec => []OneScript
<1>1. ScriptsInv => OneScript
      BY Zenon DEF ScriptsInv, CyclesApart, Ordered, Quiet, OneScript
<1> QED BY <1>1, ScriptsInvariant, PTL
=============================================================================
