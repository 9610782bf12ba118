------------------------------ MODULE HttpSink ------------------------------
(***************************************************************************)
(* internal/exporter/httpsinkexporter: the exporters of one endpoint, the  *)
(* sink they share, its HTTP server, and the requests ("clients") that     *)
(* wait for spans or metrics.                                              *)
(*                                                                         *)
(* A payload is a sequence of elements (the spans of a batch, the metrics  *)
(* of a pmetric.Metrics), each with a name and a set of attributes.        *)
(* Marshalling is left out; an element in a client's results is named by   *)
(* its payload and its position there.                                     *)
(***************************************************************************)
EXTENDS Integers, Sequences, FiniteSets

CONSTANTS
    Exporters,   \* exporters created for the endpoint
    ExpKind,     \* ExpKind[e]: "spans" or "metrics"
    Payloads,    \* what the pipelines hand to the exporters
    From,        \* From[p]: the exporter that consumes p
    Content,     \* Content[p]: sequence of [name |-> n, attrs |-> S]
    Clients,     \* HTTP requests
    Requests     \* parsed options: [kind, names, attrs, count]

ASSUME SinkAssumption ==
    /\ From \in [Payloads -> Exporters] /\ Payloads \intersect {"off", "going", "idle"} = {}
    /\ \A p \in Payloads : Len(Content[p]) \in Nat
    /\ \A r \in Requests : r.count \in Int

Ends == {"none", "answered", "timeout", "ctx", "panic"}

VARIABLES
    server,   \* sink.server
    exp,      \* [pc, chan] of each exporter; chan is e.spans or e.metrics
    fan,      \* the fan-out goroutine: "off", "going", "idle" or a payload
    prod,     \* the goroutine that sends a consumed payload to the channel
    cli,      \* [pc, req, results, done, end] of each request
    list,     \* sink._clients; nothing depends on their order
    senders   \* goroutines blocked in c.spans <- batch or c.metrics <- md

sinkVars == <<server, exp, fan, prod, cli, list, senders>>

NoRequest == [kind |-> "spans", names |-> {}, attrs |-> {}, count |-> 1]
FreshClient == [pc |-> "none", req |-> NoRequest, results |-> <<>>,
                done |-> "no", end |-> "none"]

SinkInit ==
    /\ server = "none"
    /\ exp = [e \in Exporters |-> [pc |-> "new", chan |-> "nil"]]
    /\ fan = [e \in Exporters |-> "off"]
    /\ prod = [p \in Payloads |-> "none"]
    /\ cli = [c \in Clients |-> FreshClient]
    /\ list = {}
    /\ senders = {}

-----------------------------------------------------------------------------
(* The exporters                                                           *)

\* newSink has handed all exporters of the endpoint the same sink, whose
\* server is started once.
Start(e) ==
    /\ exp[e].pc = "new"
    /\ exp' = [exp EXCEPT ![e] = [@ EXCEPT !.pc = "started"]]
    /\ server' = IF server = "none" THEN "starting" ELSE server  \* startOnce
    /\ fan' = [fan EXCEPT ![e] = "going"]
    /\ UNCHANGED <<prod, cli, list, senders>>

\* The listener's error is dropped.
ListenAndServe ==
    /\ server = "starting"
    /\ server' \in {"serving", "failed"}
    /\ UNCHANGED <<exp, fan, prod, cli, list, senders>>

BeginShutdown(e) ==
    /\ exp[e].pc = "started"
    /\ exp' = [exp EXCEPT ![e] = [@ EXCEPT !.pc = "stopping"]]
    /\ server' = "closed"
    /\ UNCHANGED <<fan, prod, cli, list, senders>>

\* http.Server.Shutdown returns once no handler is running.
EndShutdown(e) ==
    /\ exp[e].pc = "stopping"
    /\ \A c \in Clients : cli[c].pc \in {"none", "gone"}
    /\ exp' = [exp EXCEPT ![e] = [@ EXCEPT !.pc = "shut"]]
    /\ UNCHANGED <<server, fan, prod, cli, list, senders>>

\* ConsumeTraces, ConsumeMetrics: returns at once, a goroutine sends.
Consume(p) ==
    /\ exp[From[p]].pc = "started"
    /\ prod[p] = "none"
    /\ prod' = [prod EXCEPT ![p] = "spawned"]
    /\ UNCHANGED <<server, exp, fan, cli, list, senders>>

\* The goroutine reads the exporter's channel field: a send on the nil
\* channel blocks for ever, also when the field is set later.
SendConsumed(p) ==
    /\ prod[p] = "spawned"
    /\ prod' = [prod EXCEPT ![p] =
          IF exp[From[p]].chan = "nil" THEN "lost" ELSE "sending"]
    /\ UNCHANGED <<server, exp, fan, cli, list, senders>>

FanOutBegin(e) ==
    /\ fan[e] = "going"
    /\ exp' = [exp EXCEPT ![e] = [@ EXCEPT !.chan = "made"]]
    /\ fan' = [fan EXCEPT ![e] = "idle"]
    /\ UNCHANGED <<server, prod, cli, list, senders>>

FanOutReceive(e, p) ==
    /\ fan[e] = "idle"
    /\ From[p] = e
    /\ prod[p] = "sending"
    /\ prod' = [prod EXCEPT ![p] = "taken"]
    /\ fan' = [fan EXCEPT ![e] = p]
    /\ UNCHANGED <<server, exp, cli, list, senders>>

Stopped(c) == cli[c].pc # "waiting"

\* c.stopped is read without a lock: the read may miss a fresh write.
FanOut(e) ==
    LET p == fan[e]
        kin == {c \in list : cli[c].req.kind = ExpKind[e]}
    IN  /\ p \in Payloads
        /\ \E late \in SUBSET {c \in kin : Stopped(c)} :
              senders' = senders \cup
                 {<<c, p>> : c \in late \cup {c \in kin : ~Stopped(c)}}
        /\ fan' = [fan EXCEPT ![e] = "idle"]
        /\ UNCHANGED <<server, exp, prod, cli, list>>

-----------------------------------------------------------------------------
(* The requests                                                            *)

Handle(c, r) ==
    /\ server = "serving"
    /\ cli[c].pc = "none"
    /\ cli' = [cli EXCEPT ![c] = [@ EXCEPT !.pc = "waiting", !.req = r]]
    /\ list' = list \cup {c}
    /\ UNCHANGED <<server, exp, fan, prod, senders>>

FilterByName(r, x) == r.names = {} \/ x.name \in r.names
FilterMetricByAttrs(r, x) == r.attrs = {} \/ x.attrs \cap r.attrs # {}

Kept(r, x) ==
    IF r.kind = "spans" THEN FilterByName(r, x)
    ELSE FilterByName(r, x) \/ FilterMetricByAttrs(r, x)

\* The one sequence of the numbers in S that ascends, as a set.
Ascending(S) ==
    {f \in [1..Cardinality(S) -> S] : \A i, j \in DOMAIN f : i < j => f[i] < f[j]}

\* The elements of p that pass the client's filter, in order, as a set.
Filtered(r, p) ==
    LET passing == {i \in 1..Len(Content[p]) : Kept(r, Content[p][i])}
    IN  {[i \in DOMAIN f |-> <<p, f[i]>>] : f \in Ascending(passing)}

ClosesEarly(r, m, n) == m < r.count /\ n + 1 >= r.count

\* Whether going from m to n results closes done.
Closes(r, m, n) ==
    IF r.kind = "spans" THEN m < r.count /\ r.count <= n ELSE n >= r.count

\* A case of the select in response: the results grow, done may be closed,
\* and closing it twice panics.
Receive(c, p) ==
    /\ cli[c].pc = "waiting"
    /\ <<c, p>> \in senders
    /\ senders' = senders \ {<<c, p>>}
    /\ \E passed \in Filtered(cli[c].req, p) :
          LET res == cli[c].results \o passed
              closes == Closes(cli[c].req, Len(cli[c].results), Len(res))
              panics == closes /\ cli[c].done = "yes"
          IN cli' = [cli EXCEPT ![c] =
                [pc |-> IF panics THEN "returned" ELSE @.pc, req |-> @.req, results |-> res,
                 done |-> IF closes THEN "yes" ELSE @.done,
                 end |-> IF panics THEN "panic" ELSE @.end]]
    /\ UNCHANGED <<server, exp, fan, prod, list>>

Return(c, how) ==
    /\ cli[c].pc = "waiting"
    /\ cli' = [cli EXCEPT ![c] = [@ EXCEPT !.pc = "returned", !.end = how]]
    /\ UNCHANGED <<server, exp, fan, prod, list, senders>>

\* Times out only while nothing has arrived.
TimeoutEmpty(c) ==
    /\ cli[c].done = "no" /\ cli[c].results = <<>>
    /\ Return(c, "timeout")

\* A fresh timer is armed by every turn of the loop, so it cannot beat a
\* done channel that is closed already.
Timeout(c) == cli[c].done = "no" /\ Return(c, "timeout")

ContextDone(c) == Return(c, "ctx")

Done(c) == cli[c].done = "yes" /\ Return(c, "answered")

RemoveClient(c) ==
    /\ cli[c].pc = "returned"
    /\ cli' = [cli EXCEPT ![c] = [@ EXCEPT !.pc = "gone"]]
    /\ list' = list \ {c}
    /\ UNCHANGED <<server, exp, fan, prod, senders>>
-----------------------------------------------------------------------------
Exporting(e) ==
    \/ Start(e) \/ BeginShutdown(e) \/ EndShutdown(e)
    \/ FanOutBegin(e) \/ FanOut(e)
    \/ \E p \in Payloads : FanOutReceive(e, p)

Serving(c) ==
    \/ \E r \in Requests : Handle(c, r)
    \/ \E p \in Payloads : Receive(c, p)
    \/ Timeout(c) \/ ContextDone(c) \/ Done(c) \/ RemoveClient(c)

SinkNext ==
    \/ \E e \in Exporters : Exporting(e)
    \/ \E p \in Payloads : Consume(p) \/ SendConsumed(p)
    \/ \E c \in Clients : Serving(c)
    \/ ListenAndServe

\* A handler goes on while it can: its timer fires when nothing more arrives
\* (a payload is consumed once, so the timer is re-armed finitely often), and
\* a ready case of its select is taken in the end.
SinkFairness ==
    /\ \A e \in Exporters : WF_sinkVars(EndShutdown(e))
    /\ \A c \in Clients :
          WF_sinkVars(Timeout(c)) /\ WF_sinkVars(Done(c)) /\ WF_sinkVars(RemoveClient(c))

SinkSpec == SinkInit /\ [][SinkNext]_sinkVars
SinkFairSpec == SinkSpec /\ SinkFairness
-----------------------------------------------------------------------------
(* Properties                                                              *)

\* The state of the sink, the exporters, the goroutines and the requests.
SinkTypeOK ==
    /\ server \in {"none", "starting", "serving", "failed", "closed"}
    /\ exp \in [Exporters -> [pc : {"new", "started", "stopping", "shut"},
                              chan : {"nil", "made"}]]
    /\ fan \in [Exporters -> {"off", "going", "idle"} \cup Payloads]
    /\ prod \in [Payloads ->
                   {"none", "spawned", "lost", "sending", "taken"}]
    /\ cli \in [Clients -> [pc : {"none", "waiting", "returned", "gone"},
                            req : Requests \cup {NoRequest}, results : Seq(Payloads \X Nat),
                            done : {"yes", "no"}, end : Ends]]
    /\ list \subseteq Clients
    /\ senders \subseteq Clients \X Payloads

\* An answer holds as many elements as the request asked for, no element
\* twice, and none of the other data type, whichever exporters fanned them
\* out while requests came and went.
AnswerSound ==
    \A c \in Clients : cli[c].end = "answered" =>
        LET res == cli[c].results IN
        /\ Len(res) >= cli[c].req.count
        /\ \A i, j \in 1..Len(res) : res[i] = res[j] => i = j
        /\ \A i \in 1..Len(res) : ExpKind[From[res[i][1]]] = cli[c].req.kind

\* Shutdown returns: every request being handled ends by its answer or its
\* timeout when payloads stop coming.
SinkShutdownReturns ==
    \A e \in Exporters : (exp[e].pc = "stopping") ~> (exp[e].pc = "shut")
=============================================================================
