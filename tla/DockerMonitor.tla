--------------------------- MODULE DockerMonitor ---------------------------
(***************************************************************************)
(* The Docker monitor's view of the containers: ListAndWatchContainers     *)
(* (core/common/docker/containerlist.go) with its cache, its periodic      *)
(* synchronisation and its stream of events, and the change handler of     *)
(* the monitor (monitors/docker/docker.go) that keeps the set of           *)
(* containers whose stats are fetched.                                     *)
(*                                                                         *)
(* The Docker daemon is external: containers change, every change logs an  *)
(* event, and a stream delivers the events since a time in their order.    *)
(***************************************************************************)
EXTENDS Naturals, Sequences

CONSTANTS Containers,
          Excluded,    \* containers whose image the filter excludes
          MaxChanges,  \* bound: changes of containers
          MaxFaults    \* bound: failing calls of the daemon

ASSUME DockerAssumption ==
    Excluded \subseteq Containers /\ MaxChanges \in Nat /\ MaxFaults \in Nat

VARIABLES
    real,        \* the daemon's containers
    log,         \* the daemon's events since the watch began
    faults,      \* failing calls so far
    watcher,     \* the watching goroutine: where it is
    last,        \* lastTime: the event handled last, or 0
    upcoming,    \* the next event of the stream
    cache,       \* containers of ListAndWatchContainers
    listed,      \* containerList
    todo,        \* the containers of it not looked at yet
    busy,        \* the goroutines that inspect a container
    mon,         \* containers of the monitor
    stop,        \* whether m.ctx is cancelled
    uninspected  \* history: cached containers whose last event could not be inspected

dockerVars == <<real, log, faults, watcher, last, upcoming, cache, listed, todo, busy,
                mon, stop, uninspected>>
daemon == <<real, log>>
stream == <<last, upcoming>>
syncing == <<listed, todo, busy>>
known == <<cache, mon, uninspected>>

DockerInit ==
    /\ real \in [Containers -> {"absent", "running"}]
    /\ log = <<>> /\ faults = 0
    /\ watcher = "none" /\ last = 0 /\ upcoming = 1
    /\ cache = [c \in Containers |-> "none"]
    /\ listed = {} /\ todo = {} /\ busy = {}
    /\ mon = {} /\ stop = FALSE /\ uninspected = {}

-----------------------------------------------------------------------------
(* The daemon                                                              *)

Changes == {<<"absent", "running">>, <<"stopped", "running">>, <<"running", "paused">>,
            <<"paused", "running">>, <<"running", "stopped">>, <<"paused", "stopped">>,
            <<"stopped", "gone">>}

ContainerChanges(c) ==
    /\ watcher # "none" /\ Len(log) < MaxChanges
    /\ \E change \in Changes :
          /\ real[c] = change[1]
          /\ real' = [real EXCEPT ![c] = change[2]]
          /\ log' = Append(log, [id |-> c, destroy |-> change[2] = "gone"])
    /\ UNCHANGED <<faults, watcher, stream, syncing, known, stop>>

\* A call may fail, and fails once the context is cancelled.
MayFail ==
    \/ stop /\ UNCHANGED faults
    \/ faults < MaxFaults /\ faults' = faults + 1

Inspectable(c) == real[c] \notin {"absent", "gone"}

-----------------------------------------------------------------------------
(* changeHandler and updateContainer                                       *)

\* The container's new state, or "none".
ChangeHandler(c, state) ==
    mon' = IF state = "running" THEN mon \union {c} ELSE mon \ {c}

Inspected(c) ==
    IF c \in Excluded
    THEN UNCHANGED known
    ELSE /\ cache' = [cache EXCEPT ![c] = real[c]]
         /\ ChangeHandler(c, real[c])
         /\ uninspected' = uninspected \ {c}

Forget(c) ==
    /\ cache' = [cache EXCEPT ![c] = "none"]
    /\ ChangeHandler(c, "none")
    /\ uninspected' = uninspected \ {c}

-----------------------------------------------------------------------------
(* syncContainerList                                                       *)

ListContainers ==
    /\ watcher = "list" /\ ~stop
    /\ listed' = {c \in Containers : real[c] = "running"}
    /\ todo' = listed'
    /\ watcher' = "sync"
    /\ UNCHANGED <<daemon, faults, stream, busy, known, stop>>

ListFails ==
    /\ watcher = "list" /\ MayFail
    /\ watcher' = "select"
    /\ UNCHANGED <<daemon, stream, syncing, known, stop>>

\* Containers that are cached are skipped, whatever their cached state.
LookAt(c) ==
    /\ watcher = "sync" /\ c \in todo
    /\ todo' = todo \ {c}
    /\ busy' = IF cache[c] = "none" THEN busy \union {c} ELSE busy
    /\ UNCHANGED <<daemon, faults, watcher, stream, listed, known, stop>>

\* The goroutine of one container; the mutex lets one at a time inspect.
SyncInspect(c) ==
    /\ c \in busy /\ Inspectable(c) /\ ~stop
    /\ Inspected(c)
    /\ busy' = busy \ {c}
    /\ UNCHANGED <<daemon, faults, watcher, stream, listed, todo, stop>>

SyncInspectFails(c) ==
    /\ c \in busy
    /\ MayFail \/ (~Inspectable(c) /\ UNCHANGED faults)
    /\ busy' = busy \ {c}
    /\ UNCHANGED <<daemon, watcher, stream, listed, todo, known, stop>>

\* The loop reads the map without the mutex while a goroutine writes it: the
\* Go runtime may end the process.
MapRace ==
    /\ watcher = "sync" /\ todo # {}
    /\ \E c \in busy : Inspectable(c) /\ c \notin Excluded
    /\ watcher' = "crashed"
    /\ UNCHANGED <<daemon, faults, stream, syncing, known, stop>>

DropStale ==
    /\ watcher = "sync" /\ todo = {} /\ busy = {}
    /\ cache' = [c \in Containers |-> IF c \in listed THEN cache[c] ELSE "none"]
    /\ mon' = mon \intersect {c \in Containers : cache'[c] # "none"}
    /\ uninspected' = uninspected \intersect listed
    /\ watcher' = "select"
    /\ UNCHANGED <<daemon, faults, stream, syncing, stop>>

-----------------------------------------------------------------------------
(* The watching goroutine, which the monitor's first interval starts       *)

\* lastTime is the present: the log begins here.
StartWatching ==
    /\ watcher = "none"
    /\ watcher' = "open"
    /\ UNCHANGED <<daemon, faults, stream, syncing, known, stop>>

\* Mutant: a new stream has only what happens from now on.
OpenNow ==
    /\ watcher = "open"
    /\ upcoming' = Len(log) + 1
    /\ watcher' = "list"
    /\ UNCHANGED <<daemon, faults, last, syncing, known, stop>>

\* A new stream repeats the event handled last, which has the time it starts at.
OpenStream ==
    /\ watcher = "open"
    /\ upcoming' = IF last = 0 THEN 1 ELSE last
    /\ watcher' = "list"
    /\ UNCHANGED <<daemon, faults, last, syncing, known, stop>>

Refresh ==
    /\ watcher = "select"
    /\ watcher' = "list"
    /\ UNCHANGED <<daemon, faults, stream, syncing, known, stop>>

HandleEvent ==
    /\ watcher = "select" /\ upcoming <= Len(log)
    /\ LET c == log[upcoming].id
       IN IF log[upcoming].destroy
          THEN Forget(c) /\ UNCHANGED faults
          ELSE \/ Inspectable(c) /\ ~stop /\ Inspected(c) /\ UNCHANGED faults
               \/ /\ MayFail \/ (~Inspectable(c) /\ UNCHANGED faults)
                  /\ uninspected' = uninspected \union {d \in {c} : cache[d] # "none"}
                  /\ UNCHANGED <<cache, mon>>
    /\ last' = upcoming /\ upcoming' = upcoming + 1
    /\ UNCHANGED <<daemon, watcher, syncing, stop>>

StreamFails ==
    /\ watcher = "select" /\ MayFail
    /\ watcher' = "open"
    /\ UNCHANGED <<daemon, stream, syncing, known, stop>>

Finish ==
    /\ watcher = "select" /\ stop
    /\ watcher' = "done"
    /\ UNCHANGED <<daemon, faults, stream, syncing, known, stop>>

ShutdownMonitor ==
    /\ watcher # "none" /\ ~stop
    /\ stop' = TRUE
    /\ UNCHANGED <<daemon, faults, watcher, stream, syncing, known>>

-----------------------------------------------------------------------------
\* Weakly fair: calls return and the ticker ticks.
SyncStep ==
    \/ ListContainers \/ ListFails \/ DropStale \/ OpenStream
    \/ \E c \in Containers : LookAt(c) \/ SyncInspect(c) \/ SyncInspectFails(c)

DockerNext ==
    \/ StartWatching \/ SyncStep \/ MapRace
    \/ Refresh \/ HandleEvent \/ StreamFails \/ Finish \/ ShutdownMonitor
    \/ \E c \in Containers : ContainerChanges(c)

-----------------------------------------------------------------------------
DockerTypeOK ==
    /\ real \in [Containers -> {"absent", "stopped", "running", "paused", "gone"}]
    /\ log \in Seq([id : Containers, destroy : BOOLEAN])
    /\ Len(log) <= MaxChanges /\ faults \in 0..MaxFaults
    /\ watcher \in {"none", "open", "list", "sync", "select", "done", "crashed"}
    /\ last \in 0..Len(log) /\ upcoming \in 1..(Len(log) + 1)
    /\ cache \in [Containers -> {"none", "stopped", "running", "paused"}]
    /\ busy \union todo \subseteq listed /\ listed \subseteq Containers
    /\ mon \union uninspected \subseteq Containers \ Excluded /\ stop \in BOOLEAN

\* When containers stop changing and calls stop failing, the monitor has the
\* running containers that are not excluded, and the cache none that is gone.
\* A cached container whose last event could not be inspected is the exception:
\* synchronising skips it.
MonitorConverges ==
    \A c \in Containers :
        <>[](\/ /\ c \in mon <=> real[c] = "running" /\ c \notin Excluded
                /\ real[c] = "gone" => cache[c] = "none"
             \/ watcher \in {"none", "crashed"} \/ stop \/ c \in uninspected)

=============================================================================
