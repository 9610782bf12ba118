--------------------------- MODULE CollectdManager ---------------------------
(***************************************************************************)
(* The manager of a collectd subprocess                                    *)
(* (signalfx-agent/pkg/monitors/collectd/collectd.go), the monitors that   *)
(* use it (monitorcore.go), its debouncer (utils/time.go) and its write    *)
(* server (write_server.go).                                               *)
(*                                                                         *)
(* Every call of manageCollectd is an instance: a state machine, a         *)
(* forwarder goroutine that passes restart requests on, and a debouncer    *)
(* goroutine.  Instances share the unbuffered channel requestRestart.      *)
(* The configuration (collectd.conf and the monitors' files) is abstracted *)
(* to the set of monitors' files and a version that every change raises.   *)
(***************************************************************************)
EXTENDS Naturals

CONSTANTS Monitors,       \* monitors that use this collectd instance
          Posters,        \* bound: the monitors whose datapoints are followed
          Main,           \* the caller of ConfigureMainCollectd
          Nobody,         \* the holder of a free mutex
          MaxInst,        \* bound: calls of manageCollectd
          MaxVer,         \* bound: changes of the configuration
          MaxDeaths,      \* bound: deaths of the collectd process
          ServerMayFail,  \* whether the write server may fail to start
          RenderMayFail   \* whether collectd.conf may fail to be written

Callers == Monitors \union {Main}
Insts == 1..MaxInst

ASSUME CollectdAssumption ==
    /\ Main \notin Monitors /\ Nobody \notin Callers
    /\ MaxInst \in Nat \ {0} /\ MaxVer \in Nat /\ MaxDeaths \in Nat
    /\ ServerMayFail \in BOOLEAN /\ RenderMayFail \in BOOLEAN

VARIABLES mutex,     \* holder of configMutex
          pc,        \* pc[c]: where caller c is
          active,    \* activeMonitors
          files,     \* monitors with a file in managed_config
          ver,       \* changes of the configuration so far
          inst,      \* calls of manageCollectd so far; the last is current
          stop,      \* stop[i]: the stop channel of instance i
          state,     \* state[i]: the state of its state machine
          fwd,       \* fwd[i]: its forwarder goroutine
          deb,       \* deb[i]: its debouncer's goroutine
          asked,     \* asked[i]: the debouncer's callRequested
          proc,      \* proc[i]: its collectd process
          deaths,    \* deaths of processes so far
          dp,        \* dp[m]: a write of m's datapoints by collectd
          fresh,     \* history: the last process of i was started with the
                     \* present configuration
          behind     \* history: ... was started before the configuration that
                     \* the last request received by i is about

vars == <<mutex, pc, active, files, ver, inst, stop, state, fwd, deb, asked,
          proc, deaths, dp, fresh, behind>>
clients == <<mutex, pc, active, files, ver>>
machine == <<inst, stop, state, proc, deaths>>
requests == <<fwd, deb, asked>>
history == <<fresh, behind>>

\* A change of the configuration, which no process has read yet.
Changed ==
    /\ ver' = ver + 1
    /\ fresh' = [i \in Insts |-> FALSE]
    /\ UNCHANGED behind

\* The state machine of i has ended and closed its terminated channel.
Terminated(i) == state[i] = "gone"

Init ==
    /\ mutex = Nobody
    /\ pc = [c \in Callers |-> "idle"]
    /\ active = {} /\ files = {} /\ ver = 0
    /\ inst = 0
    /\ stop = [i \in Insts |-> "open"]
    /\ state = [i \in Insts |-> "none"]
    /\ fwd = [i \in Insts |-> "none"]
    /\ deb = [i \in Insts |-> "none"]
    /\ asked = [i \in Insts |-> "no"]
    /\ proc = [i \in Insts |-> "none"]
    /\ deaths = 0
    /\ dp = [m \in Monitors |-> "none"]
    /\ fresh = [i \in Insts |-> FALSE]
    /\ behind = [i \in Insts |-> FALSE]

-----------------------------------------------------------------------------
(* The callers.  "conf" and "shut" wait for the mutex, "request" and        *)
(* "sending" are inside RequestRestart, "await" waits for the end of the    *)
(* state machine; all but the first two hold the mutex.                     *)

\* SetConfigurationAndRun writes the monitor's file before it has the mutex.
\* The manager exists: ConfigureMainCollectd was called before.
WriteConfig(m) ==
    /\ pc[m] = "idle" /\ inst > 0 /\ ver < MaxVer
    /\ files' = files \union {m}
    /\ Changed
    /\ pc' = [pc EXCEPT ![m] = "conf"]
    /\ UNCHANGED <<mutex, active, machine, requests, dp>>

\* ConfigureFromMonitor gets the mutex and records the monitor's output.
ConfigureFromMonitor(m) ==
    /\ pc[m] = "conf" /\ mutex = Nobody
    /\ mutex' = m
    /\ active' = active \union {m}
    /\ pc' = [pc EXCEPT ![m] = "request"]
    /\ UNCHANGED <<files, ver, machine, requests, history, dp>>

\* ConfigureMainCollectd with a configuration that is new or has changed.
ConfigureMainCollectd ==
    /\ pc[Main] = "idle" /\ mutex = Nobody /\ ver < MaxVer
    /\ mutex' = Main
    /\ files' = IF inst = 0 THEN {} ELSE files
    /\ Changed
    /\ pc' = [pc EXCEPT ![Main] = "request"]
    /\ UNCHANGED <<active, machine, requests, dp>>

\* MonitorCore.Shutdown removes the monitor's file before it has the mutex.
RemoveConfig(m) ==
    /\ pc[m] = "idle" /\ inst > 0 /\ ver < MaxVer
    /\ files' = files \ {m}
    /\ Changed
    /\ pc' = [pc EXCEPT ![m] = "shut"]
    /\ UNCHANGED <<mutex, active, machine, requests, dp>>

\* MonitorDidShutdown of a monitor that is not active.
ShutdownAgain(m) ==
    /\ pc[m] = "shut" /\ mutex = Nobody
    /\ m \notin active
    /\ pc' = [pc EXCEPT ![m] = "idle"]
    /\ UNCHANGED <<mutex, active, files, ver, machine, requests, history, dp>>

\* MonitorDidShutdown while other monitors are active: a restart.
ShutdownOne(m) ==
    /\ pc[m] = "shut" /\ mutex = Nobody
    /\ m \in active /\ active # {m}
    /\ mutex' = m
    /\ active' = active \ {m}
    /\ pc' = [pc EXCEPT ![m] = "request"]
    /\ UNCHANGED <<files, ver, machine, requests, history, dp>>

\* MonitorDidShutdown of the last active monitor: collectd is stopped and the
\* whole directory of configuration files deleted.
ShutdownLast(m) ==
    /\ pc[m] = "shut" /\ mutex = Nobody
    /\ active = {m}
    /\ mutex' = m
    /\ stop' = [stop EXCEPT ![inst] = "closed"]
    /\ files' = {}
    /\ Changed
    /\ pc' = [pc EXCEPT ![m] = "await"]
    /\ UNCHANGED <<active, inst, state, proc, deaths, requests, dp>>

\* MonitorDidShutdown goes on once terminated is closed.
AwaitTerminated(m) ==
    /\ pc[m] = "await" /\ Terminated(inst)
    /\ active' = active \ {m}
    /\ mutex' = Nobody
    /\ pc' = [pc EXCEPT ![m] = "idle"]
    /\ UNCHANGED <<files, ver, machine, requests, history, dp>>

\* RequestRestart with a state machine that has not ended.
RequestRunning(c) ==
    /\ pc[c] = "request"
    /\ inst > 0 /\ ~Terminated(inst)
    /\ pc' = [pc EXCEPT ![c] = "sending"]
    /\ UNCHANGED <<mutex, active, files, ver, machine, requests, history, dp>>

\* RequestRestart starts manageCollectd and waits until the write server is
\* set up and initCh closed.
RequestNew(c) ==
    /\ pc[c] = "request"
    /\ inst < MaxInst
    /\ inst > 0 => Terminated(inst)
    /\ inst' = inst + 1
    /\ state' = [state EXCEPT ![inst + 1] = "uninit"]
    /\ fwd' = [fwd EXCEPT ![inst + 1] = "waiting"]
    /\ deb' = [deb EXCEPT ![inst + 1] = "waiting"]
    /\ pc' = [pc EXCEPT ![c] = "sending"]
    /\ UNCHANGED <<mutex, active, files, ver, stop, proc, deaths, asked, history, dp>>

\* The write server does not start: initCh is closed all the same, and the
\* state machine spins without forwarder and debouncer.
RequestErrored(c) ==
    /\ ServerMayFail
    /\ pc[c] = "request"
    /\ inst < MaxInst
    /\ inst > 0 => Terminated(inst)
    /\ inst' = inst + 1
    /\ state' = [state EXCEPT ![inst + 1] = "errored"]
    /\ pc' = [pc EXCEPT ![c] = "sending"]
    /\ UNCHANGED <<mutex, active, files, ver, stop, proc, deaths, requests, history, dp>>

\* The request is received by the forwarder of some instance; the call returns.
Send(c, i) ==
    /\ pc[c] = "sending" /\ fwd[i] = "waiting"
    /\ fwd' = [fwd EXCEPT ![i] = "calling"]
    /\ behind' = [behind EXCEPT ![i] = ~fresh[i]]
    /\ mutex' = Nobody
    /\ pc' = [pc EXCEPT ![c] = "idle"]
    /\ UNCHANGED <<active, files, ver, machine, deb, asked, fresh, dp>>

CallerStep(c) ==
    \/ RequestRunning(c) \/ RequestNew(c) \/ RequestErrored(c)
    \/ \E i \in Insts : Send(c, i)

MonitorStep(m) ==
    \/ WriteConfig(m) \/ ConfigureFromMonitor(m) \/ RemoveConfig(m)
    \/ ShutdownAgain(m) \/ ShutdownOne(m) \/ ShutdownLast(m) \/ AwaitTerminated(m)
-----------------------------------------------------------------------------
(* Debounce0 and the forwarder                                             *)

\* restartDebounced: the forwarder needs the debouncer's lock, which the
\* debouncer's goroutine keeps while it waits in fn for the state machine.
Debounced(i) ==
    /\ fwd[i] = "calling" /\ deb[i] # "firing"
    /\ asked' = [asked EXCEPT ![i] = "yes"]
    /\ fwd' = [fwd EXCEPT ![i] = "waiting"]
    /\ UNCHANGED <<clients, machine, deb, history, dp>>

ForwarderEnd(i) ==
    /\ fwd[i] = "waiting" /\ Terminated(i)
    /\ fwd' = [fwd EXCEPT ![i] = "gone"]
    /\ UNCHANGED <<clients, machine, deb, asked, history, dp>>

\* Mutant: fn does nothing either when the machine is running.
DebounceTickIdle(i) ==
    /\ deb[i] = "waiting" /\ asked[i] = "yes"
    /\ IF state[i] \in {"shutting", "running"}
       THEN asked' = [asked EXCEPT ![i] = "no"] /\ UNCHANGED deb
       ELSE deb' = [deb EXCEPT ![i] = "firing"] /\ UNCHANGED asked
    /\ UNCHANGED <<clients, machine, fwd, history, dp>>

\* The ticker fires and the debouncer calls fn if a call was requested: fn
\* sends on restart unless it reads that the machine is shutting down.
DebounceTick(i) ==
    /\ deb[i] = "waiting" /\ asked[i] = "yes"
    /\ IF state[i] = "shutting"
       THEN asked' = [asked EXCEPT ![i] = "no"] /\ UNCHANGED deb
       ELSE deb' = [deb EXCEPT ![i] = "firing"] /\ UNCHANGED asked
    /\ UNCHANGED <<clients, machine, fwd, history, dp>>

\* Its stop channel was closed when the machine ended.
DebounceEnd(i) ==
    /\ deb[i] = "waiting" /\ Terminated(i)
    /\ deb' = [deb EXCEPT ![i] = "gone"]
    /\ UNCHANGED <<clients, machine, fwd, asked, history, dp>>

-----------------------------------------------------------------------------
(* The state machine: one action per case and branch of manageCollectd     *)

\* The machine takes the restart that the debouncer sends.
TakeRestart(i) ==
    /\ deb[i] = "firing"
    /\ \/ state[i] = "uninit" /\ state' = [state EXCEPT ![i] = "starting"]
       \/ state[i] = "running" /\ state' = [state EXCEPT ![i] = "restarting"]
    /\ deb' = [deb EXCEPT ![i] = "waiting"]
    /\ asked' = [asked EXCEPT ![i] = "no"]
    /\ UNCHANGED <<clients, inst, stop, proc, deaths, fwd, history, dp>>

\* Mutant: a running machine does not look at its stop channel.
TakeStopUninit(i) ==
    /\ stop[i] = "closed"
    /\ state[i] = "uninit" /\ state' = [state EXCEPT ![i] = "stopped"]
    /\ UNCHANGED <<clients, inst, stop, proc, deaths, requests, history, dp>>

\* The select takes the closed stop channel.
TakeStop(i) ==
    /\ stop[i] = "closed"
    /\ \/ state[i] = "uninit" /\ state' = [state EXCEPT ![i] = "stopped"]
       \/ state[i] = "running" /\ state' = [state EXCEPT ![i] = "shutting"]
    /\ UNCHANGED <<clients, inst, stop, proc, deaths, requests, history, dp>>

RenderFails(i) ==
    /\ RenderMayFail
    /\ state[i] = "starting"
    /\ state' = [state EXCEPT ![i] = "stopped"]
    /\ UNCHANGED <<clients, inst, stop, proc, deaths, requests, history, dp>>

\* collectd.conf is written and the process started; a start that fails is
\* retried after a pause and changes nothing.
StartCollectd(i) ==
    /\ state[i] = "starting"
    /\ proc' = [proc EXCEPT ![i] = "alive"]
    /\ fresh' = [fresh EXCEPT ![i] = TRUE]
    /\ behind' = [behind EXCEPT ![i] = FALSE]
    /\ state' = [state EXCEPT ![i] = "running"]
    /\ UNCHANGED <<clients, inst, stop, deaths, requests, dp>>

\* The process dies by itself; its waiting goroutine sends on procDied.
ProcessDies(i) ==
    /\ proc[i] = "alive" /\ deaths < MaxDeaths
    /\ proc' = [proc EXCEPT ![i] = "died"]
    /\ deaths' = deaths + 1
    /\ UNCHANGED <<clients, inst, stop, state, requests, history, dp>>

TakeDied(i) ==
    /\ state[i] = "running" /\ proc[i] = "died"
    /\ proc' = [proc EXCEPT ![i] = "none"]
    /\ state' = [state EXCEPT ![i] = "starting"]
    /\ UNCHANGED <<clients, inst, stop, deaths, requests, history, dp>>

\* Mutant: the machine goes on without waiting for the process to die.
KillCollectdNot(i) ==
    /\ \/ state[i] = "restarting" /\ state' = [state EXCEPT ![i] = "starting"]
       \/ state[i] = "shutting" /\ state' = [state EXCEPT ![i] = "stopped"]
    /\ UNCHANGED <<clients, inst, stop, proc, deaths, requests, history, dp>>

\* Restarting and ShuttingDown kill the process and wait for procDied.
KillCollectd(i) ==
    /\ \/ state[i] = "restarting" /\ state' = [state EXCEPT ![i] = "starting"]
       \/ state[i] = "shutting" /\ state' = [state EXCEPT ![i] = "stopped"]
    /\ proc' = [proc EXCEPT ![i] = "none"]
    /\ UNCHANGED <<clients, inst, stop, deaths, requests, history, dp>>

\* Stopped: the debouncer is stopped, the write server shut down and
\* terminated closed.
Terminate(i) ==
    /\ state[i] = "stopped"
    /\ state' = [state EXCEPT ![i] = "gone"]
    /\ UNCHANGED <<clients, inst, stop, proc, deaths, requests, history, dp>>

-----------------------------------------------------------------------------
(* The write server                                                        *)

\* A running collectd posts datapoints of an active monitor.
Post(m) ==
    /\ dp[m] = "none" /\ m \in active \cap Posters
    /\ \E i \in Insts : proc[i] = "alive"
    /\ dp' = [dp EXCEPT ![m] = "posted"]
    /\ UNCHANGED <<clients, machine, requests, history>>

\* receiveDPs and receiveEvents need the mutex to find the monitor's output.
\* The write ends either way: sent to the output of an active monitor, dropped
\* with an error for any other.
ReceiveDPs(m) ==
    /\ dp[m] = "posted" /\ mutex = Nobody
    /\ dp' = [dp EXCEPT ![m] = "none"]
    /\ UNCHANGED <<clients, machine, requests, history>>

InstStep(i) ==
    \/ Debounced(i) \/ ForwarderEnd(i) \/ DebounceTick(i) \/ DebounceEnd(i)
    \/ TakeRestart(i) \/ TakeStop(i) \/ RenderFails(i) \/ StartCollectd(i)
    \/ ProcessDies(i) \/ TakeDied(i) \/ KillCollectd(i) \/ Terminate(i)

Next ==
    \/ ConfigureMainCollectd
    \/ \E m \in Monitors : MonitorStep(m) \/ Post(m) \/ ReceiveDPs(m)
    \/ \E c \in Callers : CallerStep(c)
    \/ \E i \in Insts : InstStep(i)

Spec == Init /\ [][Next]_vars

\* Goroutines that can go on do so; select and the mutex are fair.  Calls of
\* the manager and deaths of the process are up to the environment, and a
\* start of collectd that is retried succeeds in the end.
FairSpec ==
    /\ Spec
    /\ \A m \in Monitors : WF_vars(AwaitTerminated(m))
    /\ \A c \in Callers : WF_vars(CallerStep(c))
    /\ \A i \in Insts :
        /\ WF_vars(Debounced(i)) /\ WF_vars(ForwarderEnd(i))
        /\ WF_vars(DebounceTick(i)) /\ SF_vars(TakeRestart(i)) /\ SF_vars(TakeStop(i))
        /\ WF_vars(StartCollectd(i)) /\ WF_vars(TakeDied(i))
        /\ WF_vars(KillCollectd(i)) /\ WF_vars(Terminate(i))

-----------------------------------------------------------------------------
TypeOK ==
    /\ mutex \in Callers \union {Nobody}
    /\ pc \in [Callers -> {"idle", "conf", "shut", "request", "sending", "await"}]
    /\ active \subseteq Monitors /\ files \subseteq Monitors
    /\ ver \in Nat /\ inst \in 0..MaxInst /\ deaths \in Nat
    /\ stop \in [Insts -> {"open", "closed"}]
    /\ state \in [Insts -> {"none", "errored", "uninit", "starting", "running",
                            "restarting", "shutting", "stopped", "gone"}]
    /\ fwd \in [Insts -> {"none", "waiting", "calling", "gone"}]
    /\ deb \in [Insts -> {"none", "waiting", "firing", "gone"}]
    /\ asked \in [Insts -> {"no", "yes"}]
    /\ proc \in [Insts -> {"none", "alive", "died"}]
    /\ dp \in [Monitors -> {"none", "posted"}]
    /\ fresh \in [Insts -> BOOLEAN] /\ behind \in [Insts -> BOOLEAN]

\* At most one collectd process runs, over all restarts of the process and of
\* the state machine: none is left when the next one is started.
AtMostOneProcess ==
    /\ \A i, j \in Insts : proc[i] # "none" /\ proc[j] # "none" => i = j
    /\ \A i, j \in Insts : state[i] = "starting" => proc[j] = "none"

\* When MonitorDidShutdown of the last monitor has returned, and until the
\* next request, no collectd process is left, nor a state machine that could
\* start one.
LastShutdownStops ==
    active = {} /\ inst > 0 /\ stop[inst] = "closed" =>
        \A i \in 1..inst : Terminated(i) /\ proc[i] = "none"

\* A restart request that an instance has received is not lost, however many
\* arrive while the debouncer waits: once nothing is under way, the running
\* process was started after the last request.
RestartNotLost ==
    \A i \in Insts :
        state[i] = "running" /\ fwd[i] # "calling" /\ asked[i] = "no" => ~behind[i]

\* The manager's mutex is released again and again, although RequestRestart and
\* MonitorDidShutdown wait for other goroutines while they hold it, unless the
\* write server or the rendering of collectd.conf has failed.
MutexReleased ==
    []<>(\/ mutex = Nobody
         \/ \E i \in Insts :
               \/ state[i] = "errored"
               \/ state[i] \in {"stopped", "gone"} /\ stop[i] = "open")

=============================================================================
