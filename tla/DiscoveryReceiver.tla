------------------------- MODULE DiscoveryReceiver -------------------------
(***************************************************************************)
(* The discovery receiver (internal/receiver/discoveryreceiver): Start,    *)
(* Shutdown and consumerLoop of receiver.go, the endpoint tracker's        *)
(* notifications (endpoint_tracker.go) and the evaluation of metrics and   *)
(* statements (evaluator.go, metric_evaluator.go, statement_evaluator.go). *)
(*                                                                         *)
(* All of them meet at one unbuffered channel, pLogs: observers send       *)
(* endpoint events, the receivers started by the receiver creator send     *)
(* status records, the consumer loop receives, and Shutdown closes it.     *)
(*                                                                         *)
(* One endpoint and one configured receiver are modelled: their            *)
(* correlation is corr (CorrelationStore.tla has the store itself), and    *)
(* attrs are the receiver's Attrs.  An embedded config is abstracted to    *)
(* the observer its watch_observers names.                                 *)
(***************************************************************************)
EXTENDS Naturals, FiniteSets

CONSTANTS Observers,            \* watch_observers
          NoObserver,           \* discovery.NoType
          Metrics, Statements,  \* goroutines that emit metrics, or log
          LogEndpoints,         \* config log_endpoints
          EmbedReceiverConfig   \* config embed_receiver_config

Workers == Metrics \union Statements
ObserverIDs == Observers \union {NoObserver}

ASSUME DiscoveryAssumption ==
    /\ Metrics \intersect Statements = {}
    /\ NoObserver \notin Observers
    /\ "none" \notin ObserverIDs
    /\ LogEndpoints \in {"yes", "no"} /\ EmbedReceiverConfig \in {"yes", "no"}

VARIABLES pc,         \* where the collector's Start or Shutdown call is
          tracker,    \* endpointTracker: "none" (nil), "on" or "stopped"
          creator,    \* receiverCreator: "none" (nil), "made", "up" or "down"
          loop,       \* consumerLoop: "none", "select", "consume" or "done"
          sentinel,   \* messages buffered in the sentinel channel
          closed,     \* "yes" once pLogs is closed
          panicked,   \* "yes" once a send on closed pLogs ended the process
          subscribed, \* the observers that still notify the tracker
          ntf,        \* ntf[o]: step and event of o's current notification
          corr,       \* the correlation: its observer and last state
          attrs,      \* attrs[o]: the config cached for o in Attrs, or "none"
          wk,         \* wk[w]: the evaluation worker w is in
          logged,     \* logged[k]: alreadyLogged of evaluator k has the key
          firsts      \* history: first_only records received from evaluator k

lifecycle == <<pc, tracker, creator, sentinel, closed>>
stores == <<corr, attrs, logged>>
vars == <<lifecycle, loop, panicked, subscribed, ntf, stores, wk, firsts>>

Kinds == {"metric", "statement"}
Kind(w) == IF w \in Metrics THEN "metric" ELSE "statement"

\* The matches configured for the receiver, with and without first_only.
Matches == {"first", "every"}

\* The endpoint states the store tells apart: added and changed ones are live.
States == {"live", "removed"}
Idle == [pc |-> "idle", obs |-> NoObserver, cfg |-> "none", log |-> {}]
NoEvent == [pc |-> "idle", state |-> "none"]

Init ==
    /\ pc = "new" /\ tracker = "none" /\ creator = "none" /\ loop = "none"
    /\ sentinel = 0 /\ closed = "no" /\ panicked = "no"
    /\ subscribed = {}
    /\ ntf = [o \in Observers |-> NoEvent]
    /\ corr = [obs |-> NoObserver, state |-> "none"]
    /\ attrs = [o \in ObserverIDs |-> "none"]
    /\ wk = [w \in Workers |-> Idle]
    /\ logged = [k \in Kinds |-> "no"]
    /\ firsts = [k \in Kinds |-> 0]

-----------------------------------------------------------------------------
(* Start.                                                                  *)

\* observablesFromHost finds no such extension: nothing has been created.
StartObservablesFail ==
    /\ pc = "new"
    /\ pc' = "failed"
    /\ UNCHANGED <<tracker, creator, sentinel, closed, loop, panicked,
                   subscribed, ntf, stores, wk, firsts>>

\* The tracker subscribes to every observable and starts the reaper.
StartTracker ==
    /\ pc = "new"
    /\ pc' = "tracking" /\ tracker' = "on"
    /\ subscribed' = Observers
    /\ UNCHANGED <<creator, sentinel, closed, loop, panicked, ntf, stores, wk, firsts>>

\* The statement evaluator or the receiver creator cannot be created.
StartCreateFail ==
    /\ pc = "tracking"
    /\ pc' = "failed"
    /\ UNCHANGED <<tracker, creator, sentinel, closed, loop, panicked,
                   subscribed, ntf, stores, wk, firsts>>

\* The receiver creator is created and Start waits until the loop runs.
StartLoop ==
    /\ pc = "tracking"
    /\ pc' = "looping" /\ creator' = "made" /\ loop' = "select"
    /\ UNCHANGED <<tracker, sentinel, closed, panicked, subscribed, ntf, stores, wk, firsts>>

\* receiverCreator.Start succeeds, or fails before it starts a receiver.
StartCreator ==
    /\ pc = "looping"
    /\ \/ pc' = "started" /\ creator' = "up"
       \/ pc' = "failed" /\ creator' = creator
    /\ UNCHANGED <<tracker, sentinel, closed, loop, panicked, subscribed,
                   ntf, stores, wk, firsts>>

-----------------------------------------------------------------------------
(* Shutdown, in the order of its steps.                                    *)

\* The collector shuts the receiver down before, after or despite its Start.
Shutdown ==
    /\ pc \in {"new", "started", "failed"}
    /\ IF tracker = "none"
         THEN pc' = "done" /\ tracker' = tracker
         ELSE pc' = "stopping" /\ tracker' = "stopped"
    /\ UNCHANGED <<creator, sentinel, closed, loop, panicked, subscribed,
                   ntf, stores, wk, firsts>>

\* External: the receiver creator shuts its receivers down ...
ShutdownCreator ==
    /\ pc = "stopping"
    /\ pc' = "draining"
    /\ creator' = IF creator = "none" THEN "none" ELSE "down"
    /\ UNCHANGED <<tracker, sentinel, closed, loop, panicked, subscribed,
                   ntf, stores, wk, firsts>>

\* ... and returns, with or without an error, when none of them is in a call.
CreatorDown ==
    /\ pc = "draining"
    /\ \A w \in Workers : wk[w] = Idle
    /\ pc' = "halting"
    /\ UNCHANGED <<tracker, creator, sentinel, closed, loop, panicked, subscribed,
                   ntf, stores, wk, firsts>>

\* The deferred function: sentinel has room for one message.
SendSentinel ==
    /\ pc = "halting"
    /\ sentinel < 1
    /\ pc' = "waiting" /\ sentinel' = sentinel + 1
    /\ UNCHANGED <<tracker, creator, closed, loop, panicked, subscribed,
                   ntf, stores, wk, firsts>>

\* loopFinished.Wait returns and the channels are closed.
CloseChannels ==
    /\ pc = "waiting"
    /\ loop \in {"none", "done"}
    /\ pc' = "done" /\ closed' = "yes"
    /\ UNCHANGED <<tracker, creator, sentinel, loop, panicked, subscribed,
                   ntf, stores, wk, firsts>>

-----------------------------------------------------------------------------
(* The consumer loop.  It receives in Emit and Send, below.                *)

\* Mutant: the loop forgets to return.
TakeSentinelGoesOn ==
    /\ loop = "select" /\ sentinel > 0
    /\ sentinel' = sentinel - 1
    /\ UNCHANGED <<pc, tracker, creator, closed, loop, panicked, subscribed,
                   ntf, stores, wk, firsts>>

\* Mutant: the loop does not go on once Shutdown has begun.
ConsumedStarted ==
    /\ loop = "consume" /\ pc = "started"
    /\ loop' = "select"
    /\ UNCHANGED <<lifecycle, panicked, subscribed, ntf, stores, wk, firsts>>

\* ConsumeLogs of the next consumer returns.
Consumed ==
    /\ loop = "consume"
    /\ loop' = "select"
    /\ UNCHANGED <<lifecycle, panicked, subscribed, ntf, stores, wk, firsts>>

TakeSentinel ==
    /\ loop = "select" /\ sentinel > 0
    /\ sentinel' = sentinel - 1
    /\ loop' = "done"
    /\ UNCHANGED <<pc, tracker, creator, closed, panicked, subscribed,
                   ntf, stores, wk, firsts>>

-----------------------------------------------------------------------------
(* The endpoint tracker.                                                   *)

\* Observer o calls OnAdd or OnChange, or OnRemove.
Notify(o, s) ==
    /\ o \in subscribed /\ ntf[o] = NoEvent
    /\ ntf' = [ntf EXCEPT ![o] =
                 [pc |-> IF LogEndpoints = "yes" THEN "emit" ELSE "update", state |-> s]]
    /\ UNCHANGED <<lifecycle, loop, panicked, subscribed, stores, wk, firsts>>

\* emitEndpointLogs: the loop receives the endpoint's log record.
Emit(o) ==
    /\ ntf[o].pc = "emit"
    /\ closed = "no" /\ loop = "select"
    /\ loop' = "consume"
    /\ ntf' = [ntf EXCEPT ![o] = [@ EXCEPT !.pc = "update"]]
    /\ UNCHANGED <<lifecycle, panicked, subscribed, stores, wk, firsts>>

\* The channel has been closed, before the send or while it was blocked.
EmitClosed(o) ==
    /\ ntf[o].pc = "emit"
    /\ closed = "yes"
    /\ panicked' = "yes"
    /\ UNCHANGED <<lifecycle, loop, subscribed, ntf, stores, wk, firsts>>

\* updateEndpoints: every state sets the correlation's observer.
UpdateEndpoints(o) ==
    /\ ntf[o].pc = "update"
    /\ corr' = [obs |-> o, state |-> ntf[o].state]
    /\ ntf' = [ntf EXCEPT ![o] = NoEvent]
    /\ UNCHANGED <<lifecycle, loop, panicked, subscribed, attrs, logged, wk, firsts>>

\* The goroutine that stop started for the observer has run.
Unsubscribe(o) ==
    /\ tracker = "stopped" /\ o \in subscribed
    /\ subscribed' = subscribed \ {o}
    /\ UNCHANGED <<lifecycle, loop, panicked, ntf, stores, wk, firsts>>

\* The store's reaper forgets a removed endpoint; the next GetOrCreate
\* starts from a zero value correlation.
Reap ==
    /\ tracker = "on" /\ corr.state = "removed"
    /\ corr' = [obs |-> NoObserver, state |-> "none"]
    /\ UNCHANGED <<lifecycle, loop, panicked, subscribed, ntf, attrs, logged, wk, firsts>>

-----------------------------------------------------------------------------
(* Evaluation of metrics and of statements.                                *)

\* ConsumeMetrics or Write is called for the receiver: GetOrCreate.
Correlate(w) ==
    /\ creator = "up"
    /\ wk[w] = Idle
    /\ wk' = [wk EXCEPT ![w] = [@ EXCEPT !.pc = "attrs", !.obs = corr.obs]]
    /\ UNCHANGED <<lifecycle, loop, panicked, subscribed, ntf, stores, firsts>>

\* The copy of Attrs has a config for the observer, or has none yet.
ReadAttrs(w) ==
    /\ wk[w].pc = "attrs"
    /\ wk' = [wk EXCEPT ![w] =
                [@ EXCEPT !.pc = IF EmbedReceiverConfig = "yes" /\ attrs[wk[w].obs] = "none"
                                   THEN "update" ELSE "match",
                          !.cfg = attrs[wk[w].obs]]]
    /\ UNCHANGED <<lifecycle, loop, panicked, subscribed, ntf, stores, firsts>>

\* addObserverToEncodedConfig and UpdateAttrs.  The encoded config is the
\* one receiverCreatorReceiversConfig encoded, so it decodes.
UpdateAttrs(w) ==
    /\ wk[w].pc = "update"
    /\ attrs' = [attrs EXCEPT ![wk[w].obs] = wk[w].obs]
    /\ wk' = [wk EXCEPT ![w] = [@ EXCEPT !.pc = "match", !.cfg = wk[w].obs]]
    /\ UNCHANGED <<lifecycle, loop, panicked, subscribed, ntf, corr, logged, firsts>>

\* Mutant: the key is looked up, but not stored.
LogsAll(w, S) == S

\* What evaluateMatch keeps of the matches S: alreadyLogged.LoadOrStore.
Logs(w, S) == IF logged[Kind(w)] = "yes" THEN S \ {"first"} ELSE S

\* The loop over the configured matches, of which those in S match.
EvaluateMatch(w, S) ==
    /\ wk[w].pc = "match"
    /\ logged' = [logged EXCEPT ![Kind(w)] = IF "first" \in S THEN "yes" ELSE @]
    /\ wk' = [wk EXCEPT ![w] =
                IF Logs(w, S) = {} THEN Idle
                ELSE [@ EXCEPT !.pc = "send", !.log = Logs(w, S)]]
    /\ UNCHANGED <<lifecycle, loop, panicked, subscribed, ntf, corr, attrs, firsts>>

\* The loop receives the records of the evaluation.  A send on the closed
\* channel is not among the steps: ClosedAfterEvaluators excludes it.
Send(w) ==
    /\ wk[w].pc = "send"
    /\ closed = "no" /\ loop = "select"
    /\ loop' = "consume"
    /\ wk' = [wk EXCEPT ![w] = Idle]
    /\ firsts' = [firsts EXCEPT ![Kind(w)] = IF "first" \in wk[w].log THEN @ + 1 ELSE @]
    /\ UNCHANGED <<lifecycle, panicked, subscribed, ntf, stores>>

-----------------------------------------------------------------------------

Receiver == \/ StartObservablesFail \/ StartTracker \/ StartCreateFail
            \/ StartLoop \/ StartCreator \/ Shutdown \/ ShutdownCreator
            \/ CreatorDown \/ SendSentinel \/ CloseChannels \/ Consumed \/ TakeSentinel

Tracker == \/ \E o \in Observers : \/ \E s \in States : Notify(o, s)
                                   \/ Emit(o) \/ EmitClosed(o)
                                   \/ UpdateEndpoints(o) \/ Unsubscribe(o)
           \/ Reap

Evaluators == \E w \in Workers : \/ Correlate(w) \/ ReadAttrs(w) \/ UpdateAttrs(w)
                                 \/ \E S \in SUBSET Matches : EvaluateMatch(w, S)
                                 \/ Send(w)

Next == panicked = "no" /\ (Receiver \/ Tracker \/ Evaluators)

Spec == Init /\ [][Next]_vars

(* Fairness.  The collector's call, the loop and the evaluators are        *)
(* goroutines that go on while they can.  Go's select chooses at random    *)
(* and blocked senders queue, so the loop's receptions are strongly fair.  *)
Fairness ==
    /\ WF_vars(panicked = "no" /\ (\/ ShutdownCreator \/ CreatorDown
                                   \/ SendSentinel \/ CloseChannels))
    /\ WF_vars(panicked = "no" /\ Consumed)
    /\ SF_vars(panicked = "no" /\ TakeSentinel)
    /\ \A w \in Workers :
         /\ WF_vars(panicked = "no" /\ (ReadAttrs(w) \/ UpdateAttrs(w)))
         /\ WF_vars(panicked = "no" /\ \E S \in SUBSET Matches : EvaluateMatch(w, S))
         /\ SF_vars(panicked = "no" /\ Send(w))

FairSpec == Spec /\ Fairness

-----------------------------------------------------------------------------
(* Properties.                                                             *)

TypeOK ==
    /\ pc \in {"new", "tracking", "looping", "started", "failed",
               "stopping", "draining", "halting", "waiting", "done"}
    /\ tracker \in {"none", "on", "stopped"}
    /\ creator \in {"none", "made", "up", "down"}
    /\ loop \in {"none", "select", "consume", "done"}
    /\ sentinel \in {0, 1}
    /\ closed \in {"yes", "no"} /\ panicked \in {"yes", "no"}
    /\ subscribed \subseteq Observers
    /\ ntf \in [Observers -> [pc : {"idle", "emit", "update"}, state : States \union {"none"}]]
    /\ corr \in [obs : ObserverIDs, state : States \union {"none"}]
    /\ attrs \in [ObserverIDs -> ObserverIDs \union {"none"}]
    /\ wk \in [Workers -> [pc : {"idle", "attrs", "update", "match", "send"},
                           obs : ObserverIDs, cfg : ObserverIDs \union {"none"},
                           log : SUBSET Matches]]
    /\ logged \in [Kinds -> {"yes", "no"}]
    /\ firsts \in [Kinds -> Nat]

\* However many goroutines an evaluator's ConsumeMetrics or Write runs in,
\* a first_only match of a receiver and endpoint yields at most one record
\* of that evaluator: evaluateMatch claims the key with LoadOrStore.
FirstOnlyOnce == \A k \in Kinds : firsts[k] <= 1

\* A status record's embedded config watches the very observer that the
\* record names: correlateResourceAttributes takes both from one
\* correlation although the config comes from the cached Attrs.
EmbeddedObserver ==
    \A w \in Workers : wk[w].pc = "send" =>
        wk[w].cfg = IF EmbedReceiverConfig = "yes" THEN wk[w].obs ELSE "none"

\* When Shutdown closes pLogs no evaluation is under way: ConsumeMetrics and
\* Write never send on the closed channel.
ClosedAfterEvaluators == closed = "yes" => \A w \in Workers : wk[w] = Idle

\* The consumer loop lives until the receivers have been shut down: it never
\* ends while an evaluator may still have records to hand over.
LoopOutlivesReceivers ==
    (creator = "up" \/ \E w \in Workers : wk[w] # Idle) => loop \in {"select", "consume"}

\* Shutdown returns, whatever observers and receivers do meanwhile.
ShutdownReturns == pc = "stopping" ~> (pc = "done" \/ panicked = "yes")

\* A status record that an evaluator hands over is received by the loop, as
\* Start's order is meant to ensure ("so as not to miss any resulting
\* telemetry"), also when Shutdown has begun.
RecordsReceived ==
    \A w \in Workers : wk[w].pc = "send" ~> (wk[w].pc # "send" \/ panicked = "yes")

=============================================================================
