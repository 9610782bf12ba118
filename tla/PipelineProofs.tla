--------------------------- MODULE PipelineProofs ---------------------------
(***************************************************************************)
(* Proofs about a receiver and an exporter of the collector's pipelines:   *)
(* the discovery receiver, for any observers and any number of goroutines  *)
(* that evaluate metrics and statements, and the HTTP sink exporter, for   *)
(* any exporters, payloads and requests.                                   *)
(***************************************************************************)
EXTENDS DiscoveryReceiver, HttpSink, FiniteSetTheorems, TLAPS

-----------------------------------------------------------------------------
(* The discovery receiver                                                  *)

Entry == [pc : {"idle", "attrs", "update", "match", "send"},
          obs : ObserverIDs, cfg : ObserverIDs \union {"none"},
          log : SUBSET Matches]

\* Receivers run only between Start's last step and the end of the receiver
\* creator's Shutdown, and the loop does not receive its sentinel earlier.
Life ==
    /\ creator = "up" => pc \in {"started", "stopping"} /\ loop \in {"select", "consume"}
    /\ \A w \in Workers : wk[w] # Idle =>
         pc \in {"started", "stopping", "draining"} /\ loop \in {"select", "consume"}
    /\ sentinel > 0 \/ loop = "done" => pc \in {"waiting", "done"}
    /\ closed = "yes" => pc = "done"
    /\ pc = "looping" => loop \in {"select", "consume"}
    /\ tracker = "none" => pc \in {"new", "failed", "done"}

\* Only a worker about to send holds records, and the record of a first_only
\* match is unclaimed, in one worker's hands or received.
First ==
    /\ \A w \in Workers : wk[w].log # {} => wk[w].pc = "send"
    /\ \A k \in Kinds : firsts[k] <= 1
    /\ \A k \in Kinds : logged[k] = "no" => firsts[k] = 0
    /\ \A w \in Workers : "first" \in wk[w].log =>
         logged[Kind(w)] = "yes" /\ firsts[Kind(w)] = 0
    /\ \A v, w \in Workers :
         "first" \in wk[v].log /\ "first" \in wk[w].log /\ Kind(v) = Kind(w) => v = w

\* Attrs caches under each observer the config that watches it.
Embed ==
    /\ \A o \in ObserverIDs : attrs[o] # "none" => attrs[o] = o /\ EmbedReceiverConfig = "yes"
    /\ \A w \in Workers : wk[w].pc = "update" => EmbedReceiverConfig = "yes"
    /\ \A w \in Workers : wk[w].pc \in {"match", "send"} =>
         wk[w].cfg = IF EmbedReceiverConfig = "yes" THEN wk[w].obs ELSE "none"

IInv == TypeOK /\ Life /\ First /\ Embed

\* A goroutine that does nothing holds no records.
LEMMA IdleEntry == Idle \in Entry /\ Idle.log = {} /\ Idle.pc = "idle"
  BY DEF Idle, Entry, ObserverIDs, Matches

\* Every goroutine evaluates metrics or statements.
LEMMA KindType == \A w \in Workers : Kind(w) \in Kinds
  BY DEF Kind, Kinds

\* The initial states satisfy the inductive invariant.
LEMMA InitIInv == Init => IInv
<1> SUFFICES ASSUME Init PROVE IInv
  OBVIOUS
<1>1. TypeOK
  BY IdleEntry, DiscoveryAssumption
  DEF Init, TypeOK, Entry, NoEvent, States, ObserverIDs, Kinds
<1>2. Life
  BY DEF Init, Life
<1>3. First
  BY IdleEntry, KindType DEF Init, First
<1>4. Embed
  BY IdleEntry DEF Init, Embed
<1> QED
  BY <1>1, <1>2, <1>3, <1>4 DEF IInv

\* A step that keeps the workers' state has to show only what it changes.
LEMMA WorkersFrame ==
    ASSUME IInv, UNCHANGED <<attrs, logged, wk, firsts>>
    PROVE  First' /\ Embed'
  BY DEF IInv, First, Embed

\* The steps of the collector's call and of the consumer loop.
LEMMA ReceiverIInv == ASSUME IInv, Receiver PROVE IInv'
<1> USE DEF IInv
<1>1. CASE StartObservablesFail
  BY <1>1, WorkersFrame DEF StartObservablesFail, TypeOK, Life, stores
<1>2. CASE StartTracker
  BY <1>2, WorkersFrame DEF StartTracker, TypeOK, Life, stores
<1>3. CASE StartCreateFail
  BY <1>3, WorkersFrame DEF StartCreateFail, TypeOK, Life, stores
<1>4. CASE StartLoop
  BY <1>4, WorkersFrame DEF StartLoop, TypeOK, Life, stores
<1>5. CASE StartCreator
  BY <1>5, WorkersFrame DEF StartCreator, TypeOK, Life, stores
<1>6. CASE Shutdown
  BY <1>6, WorkersFrame DEF Shutdown, TypeOK, Life, stores
<1>7. CASE ShutdownCreator
  BY <1>7, WorkersFrame DEF ShutdownCreator, TypeOK, Life, stores
<1>8. CASE CreatorDown
  BY <1>8, WorkersFrame DEF CreatorDown, TypeOK, Life, stores
<1>9. CASE SendSentinel
  BY <1>9, WorkersFrame DEF SendSentinel, TypeOK, Life, stores
<1>10. CASE CloseChannels
  BY <1>10, WorkersFrame DEF CloseChannels, TypeOK, Life, stores
<1>11. CASE Consumed
  BY <1>11, WorkersFrame DEF Consumed, TypeOK, Life, stores, lifecycle
<1>12. CASE TakeSentinel
  BY <1>12, WorkersFrame DEF TakeSentinel, TypeOK, Life, stores
<1> QED
  BY <1>1, <1>2, <1>3, <1>4, <1>5, <1>6, <1>7, <1>8, <1>9, <1>10, <1>11, <1>12
  DEF Receiver

\* The steps of the endpoint tracker.
LEMMA TrackerIInv == ASSUME IInv, Tracker PROVE IInv'
<1> USE DEF IInv
<1>1. ASSUME NEW o \in Observers, NEW s \in States, Notify(o, s)
      PROVE  IInv'
  BY <1>1, WorkersFrame DEF Notify, NoEvent, TypeOK, Life, stores, lifecycle
<1>2. ASSUME NEW o \in Observers, Emit(o)
      PROVE  IInv'
  BY <1>2, WorkersFrame DEF Emit, TypeOK, Life, stores, lifecycle
<1>3. ASSUME NEW o \in Observers, EmitClosed(o)
      PROVE  IInv'
  BY <1>3, WorkersFrame DEF EmitClosed, TypeOK, Life, stores, lifecycle
<1>4. ASSUME NEW o \in Observers, UpdateEndpoints(o)
      PROVE  IInv'
  BY <1>4, WorkersFrame DEF UpdateEndpoints, NoEvent, ObserverIDs, TypeOK, Life,
     lifecycle
<1>5. ASSUME NEW o \in Observers, Unsubscribe(o)
      PROVE  IInv'
  BY <1>5, WorkersFrame DEF Unsubscribe, TypeOK, Life, stores, lifecycle
<1>6. CASE Reap
  BY <1>6, WorkersFrame DEF Reap, ObserverIDs, TypeOK, Life, lifecycle
<1> QED
  BY <1>1, <1>2, <1>3, <1>4, <1>5, <1>6 DEF Tracker

\* A step of worker w that moves from entry wk[w] to e.
LEMMA EntryType ==
    ASSUME TypeOK, NEW w \in Workers, NEW e \in Entry, wk' = [wk EXCEPT ![w] = e]
    PROVE  /\ wk' \in [Workers -> Entry]
           /\ wk'[w] = e
           /\ \A v \in Workers \ {w} : wk'[v] = wk[v]
  BY DEF TypeOK, Entry

\* Looking up the correlation keeps the invariant.
LEMMA CorrelateIInv == ASSUME IInv, NEW w \in Workers, Correlate(w) PROVE IInv'
<1> DEFINE e == [Idle EXCEPT !.pc = "attrs", !.obs = corr.obs]
<1>1. e \in Entry /\ e.log = {} /\ e.pc = "attrs"
  BY Zenon DEF IInv, TypeOK, Idle, Entry, ObserverIDs, Matches
<1>2. wk' = [wk EXCEPT ![w] = e]
  BY DEF Correlate
<1> HIDE DEF e
<1>3. /\ wk' \in [Workers -> Entry]
      /\ wk'[w] = e
      /\ \A v \in Workers \ {w} : wk'[v] = wk[v]
  BY Zenon, <1>1, <1>2, EntryType DEF IInv
<1>4. TypeOK'
  BY <1>3 DEF IInv, TypeOK, Entry, Correlate, lifecycle, stores
<1>5. Life'
  BY <1>3 DEF IInv, Life, Correlate, lifecycle
<1>6. First'
  BY Zenon, <1>1, <1>3 DEF IInv, First, Correlate, stores
<1>7. Embed'
  BY <1>1, <1>3 DEF IInv, Embed, Correlate, stores
<1> QED
  BY <1>4, <1>5, <1>6, <1>7 DEF IInv

\* Reading the attributes keeps the invariant.
LEMMA ReadAttrsIInv == ASSUME IInv, NEW w \in Workers, ReadAttrs(w) PROVE IInv'
<1> DEFINE p == IF EmbedReceiverConfig = "yes" /\ attrs[wk[w].obs] = "none"
                  THEN "update" ELSE "match"
<1> DEFINE e == [wk[w] EXCEPT !.pc = p, !.cfg = attrs[wk[w].obs]]
<1>1. wk[w] \in Entry /\ attrs[wk[w].obs] \in ObserverIDs \union {"none"}
  BY DEF IInv, TypeOK, Entry
<1>2. e \in Entry /\ e.log = wk[w].log /\ e.pc = p /\ e.obs = wk[w].obs
      /\ e.cfg = attrs[wk[w].obs]
  BY Zenon, <1>1 DEF Entry
<1>3. wk' = [wk EXCEPT ![w] = e] /\ wk[w].pc = "attrs"
  BY DEF ReadAttrs
<1> HIDE DEF e
<1>4. /\ wk' \in [Workers -> Entry]
      /\ wk'[w] = e
      /\ \A v \in Workers \ {w} : wk'[v] = wk[v]
  BY Zenon, <1>2, <1>3, EntryType DEF IInv
<1>5. TypeOK'
  BY <1>4 DEF IInv, TypeOK, Entry, ReadAttrs, lifecycle, stores
<1>6. Life'
  BY <1>3, <1>4, IdleEntry DEF IInv, Life, ReadAttrs, lifecycle
<1>7. First'
  BY <1>2, <1>3, <1>4 DEF IInv, First, ReadAttrs, stores
<1>8. Embed'
  BY <1>1, <1>2, <1>4 DEF IInv, Embed, ReadAttrs, stores, Entry
<1> QED
  BY <1>5, <1>6, <1>7, <1>8 DEF IInv

\* Updating the attributes keeps the invariant.
LEMMA UpdateAttrsIInv == ASSUME IInv, NEW w \in Workers, UpdateAttrs(w) PROVE IInv'
<1> DEFINE e == [wk[w] EXCEPT !.pc = "match", !.cfg = wk[w].obs]
<1>1. wk[w] \in Entry
  BY DEF IInv, TypeOK, Entry
<1>2. e \in Entry /\ e.log = wk[w].log /\ e.pc = "match" /\ e.obs = wk[w].obs
      /\ e.cfg = wk[w].obs
  BY Zenon, <1>1 DEF Entry
<1>3. wk' = [wk EXCEPT ![w] = e] /\ wk[w].pc = "update"
  BY DEF UpdateAttrs
<1> HIDE DEF e
<1>4. /\ wk' \in [Workers -> Entry]
      /\ wk'[w] = e
      /\ \A v \in Workers \ {w} : wk'[v] = wk[v]
  BY Zenon, <1>2, <1>3, EntryType DEF IInv
<1>5. TypeOK'
  BY <1>1, <1>4 DEF IInv, TypeOK, Entry, UpdateAttrs, lifecycle
<1>6. Life'
  BY <1>3, <1>4, IdleEntry DEF IInv, Life, UpdateAttrs, lifecycle
<1>7. First'
  BY <1>2, <1>3, <1>4 DEF IInv, First, UpdateAttrs
<1>8. Embed'
  BY <1>1, <1>2, <1>3, <1>4 DEF IInv, TypeOK, Embed, UpdateAttrs, Entry
<1> QED
  BY <1>5, <1>6, <1>7, <1>8 DEF IInv

\* Claiming the key: the evaluator's LoadOrStore lets one worker through.
LEMMA EvaluateMatchIInv ==
    ASSUME IInv, NEW w \in Workers, NEW S \in SUBSET Matches, EvaluateMatch(w, S)
    PROVE  IInv'
<1> DEFINE L == Logs(w, S)
<1> DEFINE e == IF L = {} THEN Idle ELSE [wk[w] EXCEPT !.pc = "send", !.log = L]
<1>1. wk[w] \in Entry /\ wk[w].pc = "match" /\ Kind(w) \in Kinds
  BY KindType DEF IInv, TypeOK, Entry, EvaluateMatch
<1>2. L \in SUBSET Matches /\ ("first" \in L => logged[Kind(w)] = "no" /\ "first" \in S)
  BY <1>1 DEF Logs, IInv, TypeOK
<1>3. wk' = [wk EXCEPT ![w] = e]
  BY DEF EvaluateMatch
<1> HIDE DEF L
<1>4. /\ e \in Entry /\ e.log = L
      /\ e.pc # "update"
      /\ e.pc = "match" \/ e.pc = "send" => e.obs = wk[w].obs /\ e.cfg = wk[w].cfg
      /\ e.log # {} => e.pc = "send"
  <2>1. CASE L = {}
    BY <2>1, IdleEntry
  <2>2. CASE L # {}
    BY Zenon, <2>2, <1>1, <1>2 DEF Entry
  <2> QED
    BY <2>1, <2>2
<1> HIDE DEF e
<1>5. /\ wk' \in [Workers -> Entry]
      /\ wk'[w] = e
      /\ \A v \in Workers \ {w} : wk'[v] = wk[v]
  BY Zenon, <1>3, <1>4, EntryType DEF IInv
<1>6. /\ logged' \in [Kinds -> {"yes", "no"}]
      /\ \A k \in Kinds : logged'[k] = "no" => logged[k] = "no"
      /\ \A k \in Kinds : logged[k] = "yes" => logged'[k] = "yes"
      /\ "first" \in S => logged'[Kind(w)] = "yes"
  BY <1>1 DEF IInv, TypeOK, EvaluateMatch
<1>7. TypeOK'
  BY <1>5, <1>6 DEF IInv, TypeOK, Entry, EvaluateMatch, lifecycle
<1>8. Life'
  BY <1>1, <1>5, IdleEntry DEF IInv, Life, EvaluateMatch, lifecycle
<1>9. First'
  <2>1. \A v \in Workers : wk'[v].log # {} => wk'[v].pc = "send"
    BY <1>4, <1>5 DEF IInv, First
  <2>2. firsts' = firsts
    BY DEF EvaluateMatch
  <2>3. \A v \in Workers : "first" \in wk'[v].log =>
          logged'[Kind(v)] = "yes" /\ firsts[Kind(v)] = 0
    BY <1>1, <1>2, <1>4, <1>5, <1>6, KindType DEF IInv, First
  <2>4. \A u, v \in Workers :
          "first" \in wk'[u].log /\ "first" \in wk'[v].log /\ Kind(u) = Kind(v) => u = v
    BY <1>2, <1>4, <1>5 DEF IInv, First
  <2> QED
    BY <1>6, <2>1, <2>2, <2>3, <2>4 DEF IInv, First
<1>10. Embed'
  BY <1>1, <1>4, <1>5 DEF IInv, Embed, EvaluateMatch
<1> QED
  BY <1>7, <1>8, <1>9, <1>10 DEF IInv

\* Sending a record to pLogs keeps the invariant.
LEMMA SendIInv == ASSUME IInv, NEW w \in Workers, Send(w) PROVE IInv'
<1>1. wk' = [wk EXCEPT ![w] = Idle] /\ wk[w].pc = "send" /\ Kind(w) \in Kinds
  BY KindType DEF Send
<1>2. /\ wk' \in [Workers -> Entry]
      /\ wk'[w] = Idle
      /\ \A v \in Workers \ {w} : wk'[v] = wk[v]
  BY Zenon, <1>1, IdleEntry, EntryType DEF IInv
<1>3. /\ firsts' \in [Kinds -> Nat]
      /\ \A k \in Kinds \ {Kind(w)} : firsts'[k] = firsts[k]
      /\ "first" \notin wk[w].log => firsts'[Kind(w)] = firsts[Kind(w)]
      /\ "first" \in wk[w].log => firsts'[Kind(w)] = 1
  BY <1>1 DEF IInv, TypeOK, First, Send
<1>4. TypeOK'
  BY <1>2, <1>3 DEF IInv, TypeOK, Entry, Send, lifecycle, stores
<1>5. Life'
  BY <1>1, <1>2, IdleEntry DEF IInv, Life, Send, lifecycle
<1>6. First'
  <2>1. logged' = logged
    BY DEF Send, stores
  <2>2. \A v \in Workers : wk'[v].log # {} => wk'[v].pc = "send"
    BY <1>2, IdleEntry DEF IInv, First
  <2>3. \A k \in Kinds : firsts'[k] <= 1 /\ (logged[k] = "no" => firsts'[k] = 0)
    BY <1>1, <1>3 DEF IInv, First
  <2>4. \A v \in Workers : "first" \in wk'[v].log =>
          logged[Kind(v)] = "yes" /\ firsts'[Kind(v)] = 0
    BY <1>1, <1>2, <1>3, IdleEntry, KindType DEF IInv, First
  <2>5. \A u, v \in Workers :
          "first" \in wk'[u].log /\ "first" \in wk'[v].log /\ Kind(u) = Kind(v) => u = v
    BY <1>2, IdleEntry DEF IInv, First
  <2> QED
    BY <2>1, <2>2, <2>3, <2>4, <2>5 DEF First
<1>7. Embed'
  BY <1>2, IdleEntry DEF IInv, Embed, Send, stores
<1> QED
  BY <1>4, <1>5, <1>6, <1>7 DEF IInv

\* Every step keeps the inductive invariant.
LEMMA NextIInv == IInv /\ [Next]_vars => IInv'
<1> SUFFICES ASSUME IInv, [Next]_vars PROVE IInv'
  OBVIOUS
<1>1. CASE Receiver
  BY <1>1, ReceiverIInv
<1>2. CASE Tracker
  BY <1>2, TrackerIInv
<1>3. CASE Evaluators
  BY <1>3, CorrelateIInv, ReadAttrsIInv, UpdateAttrsIInv, EvaluateMatchIInv, SendIInv
  DEF Evaluators
<1>4. CASE UNCHANGED vars
  BY <1>4, WorkersFrame DEF vars, lifecycle, stores, IInv, TypeOK, Life
<1> QED
  BY <1>1, <1>2, <1>3, <1>4 DEF Next

\* IInv is an invariant of the discovery receiver.
LEMMA Invariant == Spec => []IInv
  BY InitIInv, NextIInv, PTL DEF Spec

\* The receiver's state stays well typed; the sentinel channel's buffer of
\* one is never exceeded, so Shutdown's send does not block.
THEOREM DiscoveryTypeOK == Spec => []TypeOK
<1>1. IInv => TypeOK
  BY DEF IInv
<1> QED
  BY <1>1, Invariant, PTL

\* A first_only match yields at most one record per evaluator, for any number
\* of goroutines that evaluate telemetry at once.
THEOREM DiscoveryFirstOnlyOnce == Spec => []FirstOnlyOnce
<1>1. IInv => FirstOnlyOnce
  BY DEF IInv, First, FirstOnlyOnce
<1> QED
  BY <1>1, Invariant, PTL

\* The embedded config of a status record watches the record's observer.
THEOREM DiscoveryEmbeddedObserver == Spec => []EmbeddedObserver
<1>1. IInv => EmbeddedObserver
  BY DEF IInv, Embed, EmbeddedObserver
<1> QED
  BY <1>1, Invariant, PTL

\* Shutdown closes pLogs only when no evaluation is under way.
THEOREM DiscoveryClosedAfterEvaluators == Spec => []ClosedAfterEvaluators
<1>1. IInv => ClosedAfterEvaluators
  BY DEF IInv, Life, ClosedAfterEvaluators
<1> QED
  BY <1>1, Invariant, PTL

\* The consumer loop runs as long as receivers may emit.
THEOREM DiscoveryLoopOutlivesReceivers == Spec => []LoopOutlivesReceivers
<1>1. IInv => LoopOutlivesReceivers
  BY DEF IInv, Life, LoopOutlivesReceivers
<1> QED
  BY <1>1, Invariant, PTL

-----------------------------------------------------------------------------
(* The HTTP sink                                                           *)

\* A payload that has not reached a client: it is neither on its way to it nor
\* among its results.
Within(res, p) == \E i \in 1..Len(res) : res[i][1] = p
NotYet(c, p) == <<c, p>> \notin senders /\ ~Within(cli[c].results, p)

\* Every payload is fanned out once, by its own exporter.
FannedOnce ==
    /\ \A e \in Exporters : fan[e] \in Payloads =>
          From[fan[e]] = e /\ prod[fan[e]] = "taken" /\ \A c \in Clients : NotYet(c, fan[e])
    /\ \A p \in Payloads : prod[p] # "taken" => \A c \in Clients : NotYet(c, p)

\* What a client has received, and what is on its way to it.
Once(res) == \A i, j \in 1..Len(res) : res[i] = res[j] => i = j
OfKind(res, kind) == \A i \in 1..Len(res) : ExpKind[From[res[i][1]]] = kind
OnItsWay(c) ==
    \A p \in Payloads : <<c, p>> \in senders =>
        ~Within(cli[c].results, p) /\ ExpKind[From[p]] = cli[c].req.kind
Unused(c) ==
    /\ c \in list => cli[c].pc # "none"
    /\ cli[c].pc = "none" => /\ cli[c].results = <<>> /\ cli[c].done = "no"
                             /\ \A p \in Payloads : <<c, p>> \notin senders
Enough(r) ==
    /\ r.done = "yes" => Len(r.results) >= r.req.count
    /\ r.end = "answered" => r.done = "yes"
Received(r) == Once(r.results) /\ OfKind(r.results, r.req.kind) /\ Enough(r)

SinkInv ==
    /\ SinkTypeOK /\ FannedOnce
    /\ \A c \in Clients : OnItsWay(c) /\ Unused(c) /\ Received(cli[c])

ClientState ==
    [pc : {"none", "waiting", "returned", "gone"}, req : Requests \cup {NoRequest},
     results : Seq(Payloads \X Nat), done : {"yes", "no"}, end : Ends]

\* The initial states satisfy the inductive invariant.
LEMMA SinkInitInv == SinkInit => SinkInv
<1> SUFFICES ASSUME SinkInit PROVE SinkInv
    BY Zenon
<1>0. /\ cli = [c \in Clients |-> FreshClient] /\ list = {} /\ senders = {}
      /\ fan = [e \in Exporters |-> "off"] /\ prod = [p \in Payloads |-> "none"]
      BY Zenon DEF SinkInit
<1>1. FreshClient \in ClientState
  <2>1. <<>> \in Seq(Payloads \X Nat)
        OBVIOUS
  <2> QED BY Zenon, <2>1 DEF FreshClient, ClientState, Ends
<1>2. cli \in [Clients -> ClientState]
      BY Zenon, <1>0, <1>1
<1>3. SinkTypeOK
      BY Zenon, <1>2 DEF SinkInit, SinkTypeOK, ClientState
<1>4. \A p \in Payloads : ~Within(<<>>, p)
      BY DEF Within
<1>5. FannedOnce
  <2>1. \A c \in Clients, p \in Payloads : NotYet(c, p)
        BY Zenon, <1>0, <1>4 DEF NotYet, FreshClient
  <2>2. \A e \in Exporters : fan[e] \notin Payloads
        BY <1>0, SinkAssumption
  <2> QED BY Zenon, <2>1, <2>2 DEF FannedOnce
<1>6. Received(FreshClient)
      BY DEF Received, Once, OfKind, Enough, FreshClient
<1>7. \A c \in Clients : OnItsWay(c) /\ Unused(c) /\ Received(cli[c])
      BY Zenon, <1>0, <1>6 DEF OnItsWay, Unused, FreshClient
<1> QED BY Zenon, <1>3, <1>5, <1>7 DEF SinkInv

\* Steps of the exporters before they fan out change no client, and take no
\* payload back.
LEMMA QuietStep ==
    ASSUME SinkInv, SinkTypeOK', UNCHANGED <<cli, list, senders>>,
           \A e \in Exporters : fan'[e] = fan[e] \/ fan'[e] \notin Payloads,
           \A p \in Payloads : prod'[p] = "taken" <=> prod[p] = "taken"
    PROVE  SinkInv'
<1>1. \A c \in Clients, p \in Payloads : NotYet(c, p)' <=> NotYet(c, p)
      BY Zenon DEF NotYet
<1>2. FannedOnce'
      BY Zenon, <1>1 DEF SinkInv, FannedOnce
<1>3. ASSUME NEW c \in Clients PROVE (OnItsWay(c) /\ Unused(c) /\ Received(cli[c]))'
  <2>1. OnItsWay(c) /\ Unused(c) /\ Received(cli[c])
        BY Zenon DEF SinkInv
  <2>2. OnItsWay(c)'
        BY Zenon, <2>1 DEF OnItsWay
  <2>3. Unused(c)'
        BY Zenon, <2>1 DEF Unused
  <2>4. Received(cli[c])'
        BY Zenon, <2>1 DEF Received, Once, OfKind, Enough
  <2> QED BY Zenon, <2>2, <2>3, <2>4
<1> QED BY Zenon, <1>2, <1>3 DEF SinkInv

\* The same for the steps before a payload is fanned out.
LEMMA ExporterSteps ==
    ASSUME SinkInv, NEW e \in Exporters,
           Start(e) \/ BeginShutdown(e) \/ EndShutdown(e) \/ FanOutBegin(e)
    PROVE  SinkInv'
<1>0. SinkTypeOK
      BY Zenon DEF SinkInv
<1>1. UNCHANGED <<prod, cli, list, senders>>
      BY Zenon DEF Start, BeginShutdown, EndShutdown, FanOutBegin
<1>2. /\ fan' \in [Exporters -> {"off", "going", "idle"} \cup Payloads]
      /\ \A f \in Exporters : fan'[f] = fan[f] \/ fan'[f] \in {"going", "idle"}
      BY Zenon, <1>0 DEF Start, BeginShutdown, EndShutdown, FanOutBegin, SinkTypeOK
<1>3. exp' \in [Exporters -> [pc : {"new", "started", "stopping", "shut"},
                              chan : {"nil", "made"}]]
      BY <1>0 DEF Start, BeginShutdown, EndShutdown, FanOutBegin, SinkTypeOK
<1>4. server' \in {"none", "starting", "serving", "failed", "closed"}
      BY Zenon, <1>0 DEF Start, BeginShutdown, EndShutdown, FanOutBegin, SinkTypeOK
<1>5. SinkTypeOK'
      BY Zenon, <1>0, <1>1, <1>2, <1>3, <1>4 DEF SinkTypeOK
<1>6. \A f \in Exporters : fan'[f] = fan[f] \/ fan'[f] \notin Payloads
      BY <1>2, SinkAssumption
<1> QED BY Zenon, <1>1, <1>5, <1>6, QuietStep

\* The server, and the goroutines that send what was consumed.
LEMMA ProducerSteps ==
    ASSUME SinkInv, ListenAndServe \/ (\E p \in Payloads : Consume(p) \/ SendConsumed(p))
    PROVE  SinkInv'
<1>0. SinkTypeOK
      BY Zenon DEF SinkInv
<1>1. UNCHANGED <<exp, fan, cli, list, senders>>
      BY Zenon DEF ListenAndServe, Consume, SendConsumed
<1>2. server' \in {"none", "starting", "serving", "failed", "closed"}
      BY Zenon, <1>0 DEF ListenAndServe, Consume, SendConsumed, SinkTypeOK
<1>3. /\ prod' \in [Payloads -> {"none", "spawned", "lost", "sending", "taken"}]
      /\ \A p \in Payloads : prod'[p] = "taken" <=> prod[p] = "taken"
      BY <1>0 DEF ListenAndServe, Consume, SendConsumed, SinkTypeOK
<1>4. SinkTypeOK'
      BY Zenon, <1>0, <1>1, <1>2, <1>3 DEF SinkTypeOK
<1> QED BY Zenon, <1>1, <1>3, <1>4, QuietStep

\* A payload that is received is in one goroutine's hands.
LEMMA FanOutReceiveInv ==
    ASSUME SinkInv, NEW e \in Exporters, NEW p \in Payloads, FanOutReceive(e, p)
    PROVE  SinkInv'
<1>0. SinkTypeOK /\ FannedOnce
      BY Zenon DEF SinkInv
<1>1. /\ From[p] = e /\ prod[p] = "sending" /\ prod' = [prod EXCEPT ![p] = "taken"]
      /\ fan' = [fan EXCEPT ![e] = p] /\ UNCHANGED <<server, exp, cli, list, senders>>
      BY Zenon DEF FanOutReceive
<1>2. SinkTypeOK'
      BY Zenon, <1>0, <1>1 DEF SinkTypeOK
<1>3. \A c \in Clients, q \in Payloads : NotYet(c, q)' <=> NotYet(c, q)
      BY Zenon, <1>1 DEF NotYet
<1>4. \A c \in Clients : NotYet(c, p)
      BY Zenon, <1>0, <1>1 DEF FannedOnce
<1>5. /\ fan'[e] = p /\ prod'[p] = "taken"
      /\ \A f \in Exporters \ {e} : fan'[f] = fan[f]
      /\ \A q \in Payloads : prod'[q] = prod[q] \/ q = p
      BY Zenon, <1>0, <1>1 DEF SinkTypeOK
<1>6. FannedOnce'
  <2>1. ASSUME NEW f \in Exporters, fan'[f] \in Payloads
        PROVE  From[fan'[f]] = f /\ prod'[fan'[f]] = "taken" /\ \A c \in Clients : NotYet(c, fan'[f])
    <3>1. CASE f = e
          BY Zenon, <1>1, <1>4, <1>5, <3>1
    <3>2. CASE f # e
          BY Zenon, <1>0, <1>5, <2>1, <3>2 DEF FannedOnce
    <3> QED BY Zenon, <3>1, <3>2
  <2>2. \A q \in Payloads : prod'[q] # "taken" => \A c \in Clients : NotYet(c, q)
        BY Zenon, <1>0, <1>5 DEF FannedOnce
  <2> QED BY Zenon, <1>1, <2>1, <2>2 DEF FannedOnce, NotYet
<1>7. ASSUME NEW c \in Clients PROVE (OnItsWay(c) /\ Unused(c) /\ Received(cli[c]))'
  <2>1. OnItsWay(c) /\ Unused(c) /\ Received(cli[c])
        BY Zenon DEF SinkInv
  <2>2. OnItsWay(c)'
        BY Zenon, <1>1, <2>1 DEF OnItsWay
  <2>3. Unused(c)'
        BY Zenon, <1>1, <2>1 DEF Unused
  <2>4. Received(cli[c])'
        BY Zenon, <1>1, <2>1 DEF Received, Once, OfKind, Enough
  <2> QED BY Zenon, <2>2, <2>3, <2>4
<1> QED BY Zenon, <1>2, <1>6, <1>7 DEF SinkInv

\* What FanOut gives the clients it has not reached yet is of their kind.
LEMMA FanOutInv ==
    ASSUME SinkInv, NEW e \in Exporters, FanOut(e)
    PROVE  SinkInv'
<1> DEFINE p == fan[e]
<1>0. SinkTypeOK /\ FannedOnce
      BY Zenon DEF SinkInv
<1>1. /\ p \in Payloads /\ fan' = [fan EXCEPT ![e] = "idle"]
      /\ UNCHANGED <<server, exp, prod, cli, list>>
      BY Zenon DEF FanOut
<1>2. PICK X \in SUBSET {c \in list : cli[c].req.kind = ExpKind[e]} :
         senders' = senders \cup {<<c, p>> : c \in X}
  <2>1. PICK late \in SUBSET {c \in {d \in list : cli[d].req.kind = ExpKind[e]} : Stopped(c)} :
           senders' = senders \cup
              {<<c, p>> : c \in late \cup {c \in {d \in list : cli[d].req.kind = ExpKind[e]} :
                                              ~Stopped(c)}}
        BY Zenon DEF FanOut
  <2>2. late \cup {c \in {d \in list : cli[d].req.kind = ExpKind[e]} : ~Stopped(c)}
           \in SUBSET {c \in list : cli[c].req.kind = ExpKind[e]}
        BY Zenon
  <2> QED BY Zenon, <2>1, <2>2
<1>3. /\ From[p] = e /\ prod[p] = "taken" /\ \A c \in Clients : NotYet(c, p)
      BY Zenon, <1>0, <1>1 DEF FannedOnce
<1>4. /\ fan'[e] = "idle" /\ \A f \in Exporters \ {e} : fan'[f] = fan[f]
      BY Zenon, <1>0, <1>1 DEF SinkTypeOK
<1>5. X \subseteq Clients
      BY Zenon, <1>0 DEF SinkTypeOK
<1>6. SinkTypeOK'
  <2>1. senders' \subseteq Clients \X Payloads
        BY <1>0, <1>1, <1>2, <1>5 DEF SinkTypeOK
  <2>2. fan' \in [Exporters -> {"off", "going", "idle"} \cup Payloads]
        BY Zenon, <1>0, <1>1 DEF SinkTypeOK
  <2> QED BY Zenon, <1>0, <1>1, <2>1, <2>2 DEF SinkTypeOK
<1>7. \A c \in Clients, q \in Payloads : <<c, q>> \in senders' <=> <<c, q>> \in senders \/ (q = p /\ c \in X)
      BY Zenon, <1>2
<1>8. "idle" \notin Payloads
      BY SinkAssumption
<1>9. FannedOnce'
  <2>1. ASSUME NEW q \in Payloads, q # p, NEW c \in Clients, NotYet(c, q)
        PROVE  NotYet(c, q)'
        BY Zenon, <1>1, <1>7, <2>1 DEF NotYet
  <2>2. ASSUME NEW f \in Exporters, fan'[f] \in Payloads
        PROVE  From[fan'[f]] = f /\ prod'[fan'[f]] = "taken"
                 /\ \A c \in Clients : NotYet(c, fan[f])'
    <3>1. f # e /\ fan'[f] = fan[f]
          BY Zenon, <1>4, <1>8, <2>2
    <3>2. PICK q \in Payloads : q = fan[f]
          BY Zenon, <2>2, <3>1
    <3>3. From[q] = f /\ prod[q] = "taken" /\ \A c \in Clients : NotYet(c, q)
          BY Zenon, <1>0, <3>2 DEF FannedOnce
    <3>4. \A c \in Clients : NotYet(c, q)'
          BY Zenon, <1>3, <2>1, <3>1, <3>3
    <3> QED BY Zenon, <1>1, <3>1, <3>2, <3>3, <3>4 DEF NotYet
  <2>3. \A q \in Payloads : prod'[q] # "taken" => \A c \in Clients : NotYet(c, q)'
        BY Zenon, <1>0, <1>1, <1>3, <2>1 DEF FannedOnce
  <2> QED BY Zenon, <2>2, <2>3 DEF FannedOnce, NotYet
<1>10. ASSUME NEW c \in Clients
       PROVE  (OnItsWay(c) /\ Unused(c) /\ Received(cli[c]))'
  <2>1. OnItsWay(c) /\ Unused(c) /\ Received(cli[c])
        BY Zenon DEF SinkInv
  <2>2. Received(cli[c])'
        BY Zenon, <1>1, <2>1 DEF Received, Once, OfKind, Enough
  <2>3. OnItsWay(c)'
        BY Zenon, <1>1, <1>3, <1>7, <2>1 DEF OnItsWay, NotYet
  <2>4. c \in X => c \in list
        BY Zenon
  <2>5. Unused(c)'
        BY Zenon, <1>1, <1>7, <2>1, <2>4 DEF Unused
  <2> QED BY Zenon, <2>2, <2>3, <2>5
<1> QED BY Zenon, <1>6, <1>9, <1>10 DEF SinkInv

\* A step of one client's handler keeps the invariant when what it leaves in
\* the results are the elements received before and those of a payload that was
\* on its way.
LEMMA ClientStep ==
    ASSUME SinkInv, NEW c \in Clients, NEW r \in ClientState,
           cli' = [cli EXCEPT ![c] = r], UNCHANGED <<server, exp, fan, prod>>,
           list' \subseteq list \cup {c}, senders' \subseteq senders,
           \A p \in Payloads : NotYet(c, p) => ~Within(r.results, p),
           \A p \in Payloads : <<c, p>> \in senders' =>
               ~Within(r.results, p) /\ ExpKind[From[p]] = r.req.kind,
           r.pc # "none", Received(r)
    PROVE  SinkInv'
<1>0. SinkTypeOK /\ FannedOnce
      BY Zenon DEF SinkInv
<1>1. /\ cli'[c] = r /\ \A d \in Clients \ {c} : cli'[d] = cli[d]
      /\ cli' \in [Clients -> ClientState]
      BY Zenon, <1>0 DEF SinkTypeOK, ClientState
<1>2. SinkTypeOK'
      BY Zenon, <1>0, <1>1 DEF SinkTypeOK, ClientState
<1>3. ASSUME NEW d \in Clients, NEW p \in Payloads, NotYet(d, p)
      PROVE  NotYet(d, p)'
  <2>1. CASE d = c
        BY Zenon, <1>1, <1>3, <2>1 DEF NotYet
  <2>2. CASE d # c
        BY Zenon, <1>1, <1>3, <2>2 DEF NotYet
  <2> QED BY Zenon, <2>1, <2>2
<1>4. FannedOnce'
  <2>1. ASSUME NEW f \in Exporters, fan[f] \in Payloads
        PROVE  From[fan[f]] = f /\ prod[fan[f]] = "taken" /\ \A d \in Clients : NotYet(d, fan[f])'
    <3>1. PICK q \in Payloads : q = fan[f]
          BY Zenon, <2>1
    <3>2. From[q] = f /\ prod[q] = "taken" /\ \A d \in Clients : NotYet(d, q)
          BY Zenon, <1>0, <3>1 DEF FannedOnce
    <3>3. \A d \in Clients : NotYet(d, q)'
          BY Zenon, <1>3, <3>2
    <3> QED BY Zenon, <3>1, <3>2, <3>3 DEF NotYet
  <2>2. \A q \in Payloads : prod[q] # "taken" => \A d \in Clients : NotYet(d, q)'
        BY Zenon, <1>0, <1>3 DEF FannedOnce
  <2> QED BY Zenon, <2>1, <2>2 DEF FannedOnce, NotYet
<1>5. ASSUME NEW d \in Clients
      PROVE  (OnItsWay(d) /\ Unused(d) /\ Received(cli[d]))'
  <2>1. CASE d = c
        BY Zenon, <1>1, <2>1 DEF OnItsWay, Unused, Received, Once, OfKind, Enough
  <2>2. CASE d # c
    <3>1. OnItsWay(d) /\ Unused(d) /\ Received(cli[d])
          BY Zenon DEF SinkInv
    <3>2. cli'[d] = cli[d]
          BY Zenon, <1>1, <2>2
    <3>3. OnItsWay(d)'
          BY Zenon, <3>1, <3>2 DEF OnItsWay
    <3>4. Unused(d)'
          BY Zenon, <2>2, <3>1, <3>2 DEF Unused
    <3>5. Received(cli'[d])
          BY Zenon, <3>1, <3>2
    <3>6. Received(cli[d])'
          BY Zenon, <3>5 DEF Received, Once, OfKind, Enough
    <3> QED BY Zenon, <3>3, <3>4, <3>6
  <2> QED BY Zenon, <2>1, <2>2
<1> QED BY Zenon, <1>2, <1>4, <1>5 DEF SinkInv

\* The elements of a payload that pass a filter all come from that payload, and
\* none passes twice.
LEMMA FilteredOnce ==
    ASSUME NEW r, NEW p \in Payloads, NEW g \in Filtered(r, p)
    PROVE  g \in Seq(Payloads \X Nat) /\ Once(g) /\ \A i \in 1..Len(g) : g[i][1] = p
<1> DEFINE S == {i \in 1..Len(Content[p]) : Kept(r, Content[p][i])}
<1>1. PICK f \in Ascending(S) : g = [i \in DOMAIN f |-> <<p, f[i]>>]
      BY Zenon DEF Filtered
<1>2. Len(Content[p]) \in Nat
      BY Zenon, SinkAssumption
<1>3. IsFiniteSet(S) /\ S \subseteq Nat
  <2>1. PICK m \in Nat : m = Len(Content[p])
        BY Zenon, <1>2
  <2>2. 1 \in Int /\ m \in Int /\ 1..m \subseteq Nat
        OBVIOUS
  <2>3. IsFiniteSet(1..m)
        BY Zenon, <2>2, FS_Interval
  <2>4. S \subseteq 1..m
        BY Zenon, <2>1
  <2> QED BY Zenon, <2>2, <2>3, <2>4, FS_Subset
<1>4. PICK n \in Nat : n = Cardinality(S)
      BY Zenon, <1>3, FS_CardinalityType
<1> HIDE DEF S
<1>5. f \in [1..n -> S] /\ \A i, j \in 1..n : i < j => f[i] < f[j]
      BY <1>1, <1>4 DEF Ascending
<1>6. g \in [1..n -> Payloads \X Nat] /\ \A i \in 1..n : g[i] = <<p, f[i]>>
      BY Zenon, <1>1, <1>3, <1>5
<1>7. g \in Seq(Payloads \X Nat) /\ Len(g) = n
      BY <1>6
<1>8. ASSUME NEW i \in 1..n, NEW j \in 1..n, g[i] = g[j]
      PROVE  i = j
  <2>1. f[i] = f[j] /\ f[i] \in Nat /\ f[j] \in Nat
        BY <1>3, <1>5, <1>6, <1>8
  <2> QED BY <1>5, <2>1
<1> QED BY <1>6, <1>7, <1>8 DEF Once

\* Appending them to results that hold nothing of the payload adds only its
\* elements and repeats none.
LEMMA AppendOnce ==
    ASSUME NEW res \in Seq(Payloads \X Nat), NEW g \in Seq(Payloads \X Nat),
           NEW p \in Payloads, ~Within(res, p), Once(res), Once(g),
           \A i \in 1..Len(g) : g[i][1] = p
    PROVE  /\ res \o g \in Seq(Payloads \X Nat) /\ Len(res \o g) >= Len(res) /\ Once(res \o g)
           /\ \A i \in 1..Len(res \o g) :
                 (res \o g)[i][1] = p \/ \E k \in 1..Len(res) : res[k][1] = (res \o g)[i][1]
<1> DEFINE m == Len(res)
           h == res \o g
<1>1. /\ h \in Seq(Payloads \X Nat) /\ Len(h) = m + Len(g) /\ m \in Nat /\ Len(g) \in Nat
      /\ \A i \in 1..m : h[i] = res[i]
      /\ \A i \in (m + 1)..(m + Len(g)) : h[i] = g[i - m]
      OBVIOUS
<1> HIDE DEF h, m
<1>2. ASSUME NEW i \in 1..Len(h)
      PROVE  \/ i \in 1..m /\ h[i] = res[i] /\ h[i][1] # p
             \/ i - m \in 1..Len(g) /\ h[i] = g[i - m] /\ h[i][1] = p
  <2>1. CASE i \in 1..m
    <3>1. \A k \in 1..m : res[k][1] # p
          BY Zenon DEF Within, m
    <3> QED BY Zenon, <1>1, <2>1, <3>1
  <2>2. CASE i \notin 1..m
    <3>1. i \in (m + 1)..(m + Len(g)) /\ i - m \in 1..Len(g)
          BY <1>1, <2>2
    <3> QED BY Zenon, <1>1, <3>1
  <2> QED BY Zenon, <2>1, <2>2
<1>3. Once(h)
  <2>1. ASSUME NEW i \in 1..Len(h), NEW j \in 1..Len(h), h[i] = h[j]
        PROVE  i = j
    <3>1. CASE h[i][1] = p
      <4>1. /\ i - m \in 1..Len(g) /\ j - m \in 1..Len(g) /\ g[i - m] = g[j - m]
            BY Zenon, <1>2, <2>1, <3>1
      <4>2. i - m = j - m
            BY Zenon, <4>1 DEF Once
      <4> QED BY <1>1, <4>2
    <3>2. CASE h[i][1] # p
      <4>1. /\ i \in 1..m /\ j \in 1..m /\ res[i] = res[j]
            BY Zenon, <1>2, <2>1, <3>2
      <4> QED BY Zenon, <4>1 DEF Once, m
    <3> QED BY Zenon, <3>1, <3>2
  <2> QED BY Zenon, <2>1 DEF Once
<1>4. Len(h) >= m
      BY <1>1
<1>5. \A i \in 1..Len(h) : h[i][1] = p \/ \E k \in 1..m : res[k][1] = h[i][1]
      BY Zenon, <1>2
<1> QED BY Zenon, <1>1, <1>3, <1>4, <1>5 DEF h, m

\* What a client's state looks like while it waits.
LEMMA Waiting ==
    ASSUME SinkInv, NEW c \in Clients
    PROVE  /\ cli[c] \in ClientState /\ cli[c].req.count \in Int
           /\ OnItsWay(c) /\ Unused(c) /\ Received(cli[c])
<1>1. cli[c] \in ClientState /\ OnItsWay(c) /\ Unused(c) /\ Received(cli[c])
      BY Zenon DEF SinkInv, SinkTypeOK, ClientState
<1>2. cli[c].req \in Requests \cup {NoRequest}
      BY Zenon, <1>1 DEF ClientState
<1>3. NoRequest.count \in Int
      BY DEF NoRequest
<1> QED BY Zenon, <1>1, <1>2, <1>3, SinkAssumption

\* A request that begins has received nothing.
LEMMA HandleInv ==
    ASSUME SinkInv, NEW c \in Clients, NEW q \in Requests, Handle(c, q)
    PROVE  SinkInv'
<1> DEFINE r == [cli[c] EXCEPT !.pc = "waiting", !.req = q]
<1>1. /\ cli[c].pc = "none" /\ cli' = [cli EXCEPT ![c] = r] /\ list' = list \cup {c}
      /\ UNCHANGED <<server, exp, fan, prod, senders>>
      BY Zenon DEF Handle
<1>2. /\ cli[c] \in ClientState /\ Unused(c) /\ Received(cli[c])
      BY Zenon, Waiting
<1>3. /\ r \in ClientState /\ r.pc = "waiting" /\ r.req = q /\ r.results = cli[c].results
      /\ r.done = cli[c].done /\ r.end = cli[c].end
      BY Zenon, <1>2 DEF ClientState
<1> HIDE DEF r
<1>4. r.results = <<>> /\ r.done = "no" /\ r.end # "answered"
      BY Zenon, <1>1, <1>2, <1>3 DEF Unused, Received, Enough
<1>5. Received(r)
      BY <1>4 DEF Received, Once, OfKind, Enough
<1>6. \A p \in Payloads : ~Within(r.results, p)
      BY <1>4 DEF Within
<1>7. \A p \in Payloads : <<c, p>> \notin senders'
      BY Zenon, <1>1, <1>2 DEF Unused
<1>8. r.pc # "none"
      BY <1>3
<1> QED BY Zenon, <1>1, <1>3, <1>5, <1>6, <1>7, <1>8, ClientStep

\* A request that ends keeps what it received, and is answered only when the
\* channel that says so is closed.
EndsAs(c, r) ==
    /\ cli' = [cli EXCEPT ![c] = r] /\ r.pc # "none" /\ r.req = cli[c].req
    /\ r.results = cli[c].results /\ r.done = cli[c].done
    /\ r.end = "answered" => cli[c].end = "answered" \/ cli[c].done = "yes"

LEMMA EndInv ==
    ASSUME SinkInv, NEW c \in Clients, Timeout(c) \/ ContextDone(c) \/ Done(c) \/ RemoveClient(c)
    PROVE  SinkInv'
<1>0. cli[c] \in ClientState /\ OnItsWay(c) /\ Received(cli[c])
      BY Zenon, Waiting
<1>1. UNCHANGED <<server, exp, fan, prod, senders>> /\ list' \subseteq list \cup {c}
      BY Zenon DEF Timeout, ContextDone, Done, Return, RemoveClient
<1>2. ASSUME NEW how \in Ends, Return(c, how), how = "answered" => cli[c].done = "yes"
      PROVE  \E r \in ClientState : EndsAs(c, r)
  <2> DEFINE r == [cli[c] EXCEPT !.pc = "returned", !.end = how]
  <2>1. r \in ClientState /\ r.pc = "returned" /\ r.req = cli[c].req
          /\ r.results = cli[c].results /\ r.done = cli[c].done /\ r.end = how
        BY Zenon, <1>0 DEF ClientState
  <2>2. cli' = [cli EXCEPT ![c] = r]
        BY Zenon, <1>2 DEF Return
  <2> HIDE DEF r
  <2>3. r.pc # "none"
        BY <2>1
  <2> QED BY Zenon, <1>2, <2>1, <2>2, <2>3 DEF EndsAs
<1>3. ASSUME RemoveClient(c)
      PROVE  \E r \in ClientState : EndsAs(c, r)
  <2> DEFINE r == [cli[c] EXCEPT !.pc = "gone"]
  <2>1. r \in ClientState /\ r.pc = "gone" /\ r.req = cli[c].req
          /\ r.results = cli[c].results /\ r.done = cli[c].done /\ r.end = cli[c].end
        BY Zenon, <1>0 DEF ClientState
  <2>2. cli' = [cli EXCEPT ![c] = r]
        BY Zenon, <1>3 DEF RemoveClient
  <2> HIDE DEF r
  <2>3. r.pc # "none"
        BY <2>1
  <2> QED BY Zenon, <2>1, <2>2, <2>3 DEF EndsAs
<1>4. PICK r \in ClientState : EndsAs(c, r)
  <2>1. CASE Timeout(c) \/ ContextDone(c)
        BY <1>2, <2>1 DEF Timeout, ContextDone, Ends
  <2>2. CASE Done(c)
        BY Zenon, <1>2, <2>2 DEF Done, Ends
  <2> QED BY Zenon, <1>3, <2>1, <2>2
<1>5. Received(r)
      BY Zenon, <1>0, <1>4 DEF EndsAs, Received, Enough
<1>6. \A p \in Payloads : NotYet(c, p) => ~Within(r.results, p)
      BY Zenon, <1>4 DEF EndsAs, NotYet
<1>7. \A p \in Payloads : <<c, p>> \in senders' =>
         ~Within(r.results, p) /\ ExpKind[From[p]] = r.req.kind
      BY Zenon, <1>0, <1>1, <1>4 DEF EndsAs, OnItsWay
<1> QED BY Zenon, <1>1, <1>4, <1>5, <1>6, <1>7, ClientStep DEF EndsAs

\* A payload that arrives was on its way, so the results held nothing of it; and
\* the channel that ends the request is closed only when there are enough.
LEMMA ReceiveInv ==
    ASSUME SinkInv, NEW c \in Clients, NEW p \in Payloads, Receive(c, p)
    PROVE  SinkInv'
<1> DEFINE old == cli[c]
<1>0. /\ old \in ClientState /\ old.req.count \in Int
      /\ OnItsWay(c) /\ Unused(c) /\ Received(old)
      BY Zenon, Waiting
<1>1. PICK g \in Filtered(old.req, p) :
        LET res == old.results \o g
            closes == Closes(old.req, Len(old.results), Len(res))
            panics == closes /\ old.done = "yes"
        IN cli' = [cli EXCEPT ![c] =
              [pc |-> IF panics THEN "returned" ELSE old.pc, req |-> old.req, results |-> res,
               done |-> IF closes THEN "yes" ELSE old.done,
               end |-> IF panics THEN "panic" ELSE old.end]]
      BY Zenon DEF Receive
<1>2. /\ old.pc = "waiting" /\ <<c, p>> \in senders /\ senders' = senders \ {<<c, p>>}
      /\ UNCHANGED <<server, exp, fan, prod, list>>
      BY Zenon DEF Receive
<1> DEFINE res == old.results \o g
           closes == Closes(old.req, Len(old.results), Len(res))
           panics == closes /\ old.done = "yes"
           r == [pc |-> IF panics THEN "returned" ELSE old.pc, req |-> old.req, results |-> res,
                 done |-> IF closes THEN "yes" ELSE old.done,
                 end |-> IF panics THEN "panic" ELSE old.end]
<1>3. cli' = [cli EXCEPT ![c] = r]
      BY Zenon, <1>1
<1>4. old.results \in Seq(Payloads \X Nat) /\ old.req \in Requests \cup {NoRequest}
        /\ old.done \in {"yes", "no"} /\ old.end \in Ends
      BY Zenon, <1>0 DEF ClientState
<1>5. ~Within(old.results, p) /\ ExpKind[From[p]] = old.req.kind
      BY Zenon, <1>0, <1>2 DEF OnItsWay
<1>6. g \in Seq(Payloads \X Nat) /\ Once(g) /\ \A i \in 1..Len(g) : g[i][1] = p
      BY FilteredOnce
<1>7. /\ res \in Seq(Payloads \X Nat) /\ Len(res) >= Len(old.results) /\ Once(res)
      /\ \A i \in 1..Len(res) :
            res[i][1] = p \/ \E k \in 1..Len(old.results) : old.results[k][1] = res[i][1]
      BY Zenon, <1>0, <1>4, <1>5, <1>6, AppendOnce DEF Received
<1>8. closes => Len(res) >= old.req.count
  <2>1. Len(res) \in Nat
        BY <1>7
  <2> QED BY <1>0, <2>1 DEF Closes
<1>9. old.done = "yes" => Len(res) >= old.req.count
  <2>1. Len(res) \in Nat /\ Len(old.results) \in Nat
        BY <1>4, <1>7
  <2>2. old.done = "yes" => Len(old.results) >= old.req.count
        BY Zenon, <1>0 DEF Received, Enough
  <2> QED BY <1>0, <1>7, <2>1, <2>2
<1> HIDE DEF res, closes
<1>10. /\ r \in ClientState /\ r.pc # "none" /\ r.req = old.req /\ r.results = res
       /\ r.done = "yes" => closes \/ old.done = "yes"
       /\ r.end = "answered" => old.end = "answered" /\ r.done = "yes"
       BY Zenon, <1>0, <1>2, <1>4, <1>7 DEF ClientState, Ends, Received, Enough
<1> HIDE DEF r
<1>11. OfKind(res, old.req.kind)
       BY Zenon, <1>0, <1>5, <1>7 DEF OfKind, Received
<1>12. Received(r)
       BY Zenon, <1>7, <1>8, <1>9, <1>10, <1>11 DEF Received, Enough
<1>13. \A q \in Payloads : q # p /\ ~Within(old.results, q) => ~Within(res, q)
       BY Zenon, <1>7 DEF Within
<1>14. \A q \in Payloads : NotYet(c, q) => ~Within(r.results, q)
       BY Zenon, <1>2, <1>10, <1>13 DEF NotYet
<1>15. \A q \in Payloads : <<c, q>> \in senders' =>
          ~Within(r.results, q) /\ ExpKind[From[q]] = r.req.kind
       BY Zenon, <1>0, <1>2, <1>10, <1>13 DEF OnItsWay
<1>16. senders' \subseteq senders /\ list' \subseteq list \cup {c}
       BY Zenon, <1>2
<1> QED BY Zenon, <1>2, <1>3, <1>10, <1>12, <1>14, <1>15, <1>16, ClientStep

\* Every step keeps the inductive invariant.
LEMMA SinkNextInv == SinkInv /\ [SinkNext]_sinkVars => SinkInv'
<1> SUFFICES ASSUME SinkInv, [SinkNext]_sinkVars PROVE SinkInv'
    BY Zenon
<1>1. ASSUME NEW e \in Exporters, Exporting(e) PROVE SinkInv'
      BY Zenon, <1>1, ExporterSteps, FanOutReceiveInv, FanOutInv DEF Exporting
<1>2. ASSUME NEW c \in Clients, Serving(c) PROVE SinkInv'
      BY Zenon, <1>2, HandleInv, ReceiveInv, EndInv DEF Serving
<1>3. CASE UNCHANGED sinkVars
  <2>1. UNCHANGED <<server, exp, fan, prod, cli, list, senders>>
        BY Zenon, <1>3 DEF sinkVars
  <2>2. SinkTypeOK'
        BY Zenon, <2>1 DEF SinkInv, SinkTypeOK
  <2> QED BY Zenon, <2>1, <2>2, QuietStep
<1> QED BY Zenon, <1>1, <1>2, <1>3, ProducerSteps DEF SinkNext

\* A request that is answered got as many elements as it asked for, none twice
\* and none of the other data type (client.response), however many exporters,
\* payloads and requests share the sink.
THEOREM SinkAnswerSound == SinkSpec => []AnswerSound
<1>1. SinkInv => AnswerSound
      BY Zenon DEF SinkInv, Received, Once, OfKind, Enough, AnswerSound
<1> QED BY <1>1, SinkInitInv, SinkNextInv, PTL DEF SinkSpec
=============================================================================
