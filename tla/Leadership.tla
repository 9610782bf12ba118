----------------------------- MODULE Leadership -----------------------------
(***************************************************************************)
(* Leader notification of the Kubernetes monitors                          *)
(* (signalfx-agent/pkg/monitors/kubernetes/leadership/leadership.go) with  *)
(* its two users, the cluster monitor (cluster/monitor.go) and the events  *)
(* monitor (events/events.go).                                             *)
(*                                                                         *)
(* client-go's elector (external) starts a goroutine with OnNewLeader for  *)
(* every change of the lease's holder; the goroutines compete for the      *)
(* package's mutex.  A monitor's channel has room for one notice, and      *)
(* OnNewLeader keeps the mutex while it waits for room.  The slice of      *)
(* channels is kept as a set: only the order of the sends is lost.         *)
(***************************************************************************)
EXTENDS Naturals, Sequences

CONSTANTS Clusters,     \* cluster monitors
          Events,       \* events monitors
          Always,       \* the monitors with AlwaysClusterReporter
          Nodes, Self,  \* node names; the node of this process
          NoNode,       \* no holder has been reported yet
          MaxElections  \* bound: changes of the lease's holder

Monitors == Clusters \union Events

ASSUME LeadershipAssumption ==
    /\ Clusters \intersect Events = {} /\ Always \subseteq Monitors
    /\ Self \in Nodes /\ NoNode \notin Nodes
    /\ MaxElections \in Nat

VARIABLES env,          \* whether MY_NAMESPACE and MY_NODE_NAME are set
          started,      \* the election runs
          isLeader,     \* the package's flag
          leaderIdentity, \* the node of the OnNewLeader call that ran last
          noticeChans,  \* the monitors whose channels are subscribed
          ch,           \* ch[m]: the notices buffered in m's channel
          holder,       \* external: the holder of the lease last reported
          elections,    \* changes of the holder so far
          pending,      \* OnNewLeader goroutines that wait for the mutex
          cb,           \* the OnNewLeader call that holds the mutex
          mon,          \* mon[m]: where the monitor's goroutine is
          stop,         \* stop[m]: its stop channel
          reporting,    \* reporting[m]: the monitor syncs and reports
          panicked,     \* the process has died of a panic
          sent,         \* history: sent[m], the notices sent to m so far
          led           \* history: this node has held the lease

vars == <<env, started, isLeader, leaderIdentity, noticeChans, ch, holder, elections,
          pending, cb, mon, stop, reporting, panicked, sent, led>>

flags == <<started, isLeader, leaderIdentity>>
chans == <<ch, sent>>
elector == <<env, holder, elections, led>>
goroutines == <<mon, stop, reporting, panicked>>

Notices == {"true", "false"}

\* No OnNewLeader call holds the mutex.
NoCall == [notice |-> "none", rest |-> {}]

Free == cb = NoCall

Init ==
    /\ env \in {"set", "unset"}
    /\ started = FALSE /\ isLeader = FALSE
    /\ leaderIdentity = NoNode
    /\ noticeChans = {}
    /\ ch = [m \in Monitors |-> <<>>]
    /\ holder = NoNode /\ elections = 0 /\ pending = {}
    /\ cb = NoCall
    /\ mon = [m \in Monitors |-> "new"]
    /\ stop = [m \in Monitors |-> "open"]
    /\ reporting = [m \in Monitors |-> "off"]
    /\ panicked = FALSE
    /\ sent = [m \in Monitors |-> <<>>]
    /\ led = FALSE

-----------------------------------------------------------------------------
(* External: client-go's leader elector.                                   *)

\* The lease has a new holder: a goroutine with OnNewLeader is started.
NewHolder(n) ==
    /\ started /\ ~panicked
    /\ n # holder /\ elections < MaxElections
    /\ holder' = n
    /\ elections' = elections + 1
    /\ led' = (led \/ n = Self)
    /\ pending' = pending \union {[nr |-> elections + 1, id |-> n]}
    /\ UNCHANGED <<env, noticeChans, flags, chans, cb, goroutines>>

-----------------------------------------------------------------------------
(* leadership.go                                                           *)

\* A notice is put into m's channel, which has room for it.
Send(m, v) ==
    /\ ch' = [ch EXCEPT ![m] = Append(@, v)]
    /\ sent' = [sent EXCEPT ![m] = Append(@, v)]

\* Mutant: every new channel is primed with the current state.
RequestPrimed(m) ==
    /\ Free
    /\ started' = TRUE
    /\ noticeChans' = noticeChans \union {m}
    /\ Send(m, IF isLeader THEN "true" ELSE "false")

\* Mutant: no channel is primed.
RequestUnprimed(m) ==
    /\ Free
    /\ started' = TRUE
    /\ noticeChans' = noticeChans \union {m}
    /\ UNCHANGED <<chans>>

\* Starts the election if need be; a new channel is primed if isLeader is set.
RequestLeaderNotification(m) ==
    /\ Free
    /\ started' = TRUE
    /\ noticeChans' = noticeChans \union {m}
    /\ IF isLeader THEN Send(m, "true") ELSE UNCHANGED <<chans>>

\* The function returned to the subscriber: drops its channel.
Unregister(m) == Free /\ noticeChans' = noticeChans \ {m}

\* Mutant: every election of this node is announced.
NoticeOfEvery(n) == IF n = Self THEN "true" ELSE IF isLeader THEN "false" ELSE "none"

\* What OnNewLeader(n) sends to every channel: isLeader is never reset.
NoticeOf(n) ==
    CASE n = Self /\ ~isLeader -> "true"
      [] n # Self /\ isLeader  -> "false"
      [] OTHER                 -> "none"

\* OnNewLeader takes the mutex; without anything to send it returns at once.
OnNewLeader(c) ==
    /\ Free /\ ~panicked
    /\ c \in pending
    /\ pending' = pending \ {c}
    /\ leaderIdentity' = c.id
    /\ cb' = IF NoticeOf(c.id) = "none" THEN NoCall
             ELSE [notice |-> NoticeOf(c.id), rest |-> noticeChans]
    /\ UNCHANGED <<elector, started, isLeader, noticeChans, chans, goroutines>>

\* It sends to the next channel and waits while that one is full.
OnNewLeaderSend(m) ==
    /\ ~panicked
    /\ m \in cb.rest
    /\ ch[m] = <<>>
    /\ Send(m, cb.notice)
    /\ cb' = [cb EXCEPT !.rest = @ \ {m}]
    /\ UNCHANGED <<elector, noticeChans, flags, pending, goroutines>>

\* It has told everyone, sets isLeader after a true, and frees the mutex.
OnNewLeaderDone ==
    /\ ~Free /\ ~panicked /\ cb.rest = {}
    /\ isLeader' = (isLeader \/ cb.notice = "true")
    /\ cb' = NoCall
    /\ UNCHANGED <<elector, leaderIdentity, started, noticeChans, chans, pending, goroutines>>

-----------------------------------------------------------------------------
(* cluster/monitor.go and events/events.go                                 *)

\* Configure subscribes and starts the monitor's goroutine.
StartMonitor(m) ==
    /\ ~panicked /\ mon[m] = "new" /\ m \notin Always
    /\ env = "set"
    /\ RequestLeaderNotification(m)
    /\ mon' = [mon EXCEPT ![m] = "loop"]
    /\ UNCHANGED <<elector, leaderIdentity, isLeader, pending, cb, stop, reporting, panicked>>

\* startLeaderElection fails without the environment's variables.
StartFails(m) ==
    /\ mon[m] = "new" /\ m \notin Always
    /\ env = "unset" /\ Free
    /\ mon' = [mon EXCEPT ![m] = "failed"]
    /\ UNCHANGED <<elector, noticeChans, flags, chans, pending, cb, stop, reporting, panicked>>

\* A monitor that always reports needs no channel.
StartAlways(m) ==
    /\ ~panicked /\ mon[m] = "new" /\ m \in Always
    /\ mon' = [mon EXCEPT ![m] = "loop"]
    /\ reporting' = [reporting EXCEPT ![m] = "on"]
    /\ UNCHANGED <<elector, noticeChans, flags, chans, pending, cb, stop, panicked>>

\* The select takes a notice.  The events monitor closes its syncStopper on a
\* false, which is nil when it does not sync: closing it panics.
Receive(m) ==
    /\ ~panicked /\ mon[m] = "loop" /\ ch[m] # <<>>
    /\ ch' = [ch EXCEPT ![m] = Tail(@)]
    /\ reporting' = [reporting EXCEPT ![m] = IF Head(ch[m]) = "true" THEN "on" ELSE "off"]
    /\ panicked' = (m \in Events /\ Head(ch[m]) = "false" /\ reporting[m] = "off")
    /\ UNCHANGED <<elector, noticeChans, flags, pending, cb, mon, stop, sent>>

\* Shutdown closes the stop channel.
Shutdown(m) ==
    /\ ~panicked /\ mon[m] = "loop" /\ stop[m] = "open"
    /\ stop' = [stop EXCEPT ![m] = "closed"]
    /\ UNCHANGED <<elector, noticeChans, flags, chans, pending, cb, mon, reporting, panicked>>

\* The select takes the stop: from now on no notice is received.
TakeStop(m) ==
    /\ ~panicked /\ mon[m] = "loop" /\ stop[m] = "closed"
    /\ mon' = [mon EXCEPT ![m] = "stopping"]
    /\ UNCHANGED <<elector, noticeChans, flags, chans, pending, cb, stop, reporting, panicked>>

\* unregister() needs the mutex; then the syncing is halted.
Finish(m) ==
    /\ ~panicked /\ mon[m] = "stopping"
    /\ IF m \in Always THEN UNCHANGED noticeChans ELSE Unregister(m)
    /\ mon' = [mon EXCEPT ![m] = "done"]
    /\ reporting' = [reporting EXCEPT ![m] = "off"]
    /\ UNCHANGED <<elector, chans, flags, pending, cb, stop, panicked>>

MonitorStep(m) ==
    \/ StartMonitor(m) \/ StartFails(m) \/ StartAlways(m)
    \/ Receive(m) \/ Shutdown(m) \/ TakeStop(m) \/ Finish(m)

Next ==
    \/ \E n \in Nodes : NewHolder(n)
    \/ \E c \in pending : OnNewLeader(c)
    \/ OnNewLeaderDone
    \/ \E m \in Monitors : OnNewLeaderSend(m) \/ MonitorStep(m)

Spec == Init /\ [][Next]_vars

\* Goroutines that can go on do so, and a mutex starves nobody; the elector and the starts and shutdowns
\* of monitors are up to the environment.
FairSpec ==
    /\ Spec
    /\ SF_vars(\E c \in pending : OnNewLeader(c))
    /\ WF_vars(OnNewLeaderDone)
    /\ \A m \in Monitors :
        WF_vars(OnNewLeaderSend(m)) /\ WF_vars(Receive(m)) /\ WF_vars(TakeStop(m)) /\ SF_vars(Finish(m))

-----------------------------------------------------------------------------
Calls == [nr: 1..MaxElections, id: Nodes]

TypeOK ==
    /\ env \in {"set", "unset"}
    /\ started \in BOOLEAN /\ isLeader \in BOOLEAN
    /\ noticeChans \subseteq Monitors
    /\ ch \in [Monitors -> Seq(Notices)]
    /\ \A m \in Monitors : Len(ch[m]) <= 1
    /\ holder \in Nodes \union {NoNode} /\ leaderIdentity \in Nodes \union {NoNode}
    /\ elections \in 0..MaxElections
    /\ pending \subseteq Calls
    /\ cb \in [notice: Notices \union {"none"}, rest: SUBSET Monitors]
    /\ mon \in [Monitors -> {"new", "loop", "stopping", "done", "failed"}]
    /\ stop \in [Monitors -> {"open", "closed"}]
    /\ reporting \in [Monitors -> {"off", "on"}]
    /\ panicked \in BOOLEAN /\ led \in BOOLEAN
    /\ sent \in [Monitors -> Seq(Notices)]

\* The first value sent to a channel is true (comment in
\* RequestLeaderNotification), whatever the order of elections, callbacks and
\* subscriptions.
FirstNoticeTrue == \A m \in Monitors : sent[m] # <<>> => sent[m][1] = "true"

\* OnNewLeader never waits for a monitor while it announces that this node
\* leads: every channel it has still to feed is empty.
TrueNeverBlocks == cb.notice = "true" => \A m \in cb.rest : ch[m] = <<>>

\* A monitor whose goroutine has ended does not report, and no callback will
\* ever send to its channel again.
StoppedIsSilent ==
    \A m \in Monitors : mon[m] = "done" =>
        reporting[m] = "off" /\ m \notin noticeChans /\ m \notin cb.rest

\* A monitor reports only if it always does or if this node has been elected.
ReportsOnlyIfElected ==
    \A m \in Monitors \ Always : reporting[m] = "on" => led

\* A monitor that is subscribed while isLeader is set receives its first
\* notice, unless it is shut down (or the process dies) first.
ElectedIsHeard ==
    \A m \in Monitors :
        isLeader /\ m \in noticeChans ~>
            Len(sent[m]) > Len(ch[m]) \/ stop[m] = "closed" \/ panicked

\* Violated: after a true comes a false and then "the channel could send true
\* again and so on": no two successive notices are equal.
NoticesAlternate ==
    \A m \in Monitors : \A i \in 1..Len(sent[m]) - 1 : sent[m][i] # sent[m][i + 1]

=============================================================================
