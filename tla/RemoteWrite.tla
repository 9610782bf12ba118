---------------------------- MODULE RemoteWrite ----------------------------
(***************************************************************************)
(* The Prometheus remote write receiver                                    *)
(* (internal/receiver/signalfxgatewayprometheusremotewritereceiver):       *)
(* Start and Shutdown, the goroutine that serves HTTP, the handlers of     *)
(* requests, which send their results to a bounded channel, and the        *)
(* goroutine that passes the results on to the next consumer.  Servers and *)
(* goroutines are numbered by the calls of Start.  Of the three counters   *)
(* of the parser, which are handled alike, one is modelled.                *)
(***************************************************************************)
EXTENDS Naturals, Sequences, FiniteSets

CONSTANTS MaxRequests,  \* bound: write requests that reach the parser
          BufferSize,   \* capacity of the metrics channel
          MaxStarts     \* bound: calls of Start

ASSUME WriteAssumption ==
    BufferSize \in Nat \ {0} /\ MaxRequests \in Nat /\ MaxStarts \in Nat

Servers == 1..MaxStarts
Requests == 1..MaxRequests

VARIABLES
    call,       \* where a call of Start or Shutdown is, "" when there is none
    server,     \* receiver.server, 0 for nil
    starts,     \* calls of Start that made a server
    closed,     \* servers whose Close has been called
    chanClosed, \* servers whose channel has been closed
    cancelled,  \* servers whose context has been cancelled
    serve,      \* startServer goroutines: [pc, of], of is the server served
    manage,     \* manageServerLifecycle goroutines: [pc, item]
    chan,       \* the metrics channels
    faults,     \* the parsers' counters
    req,        \* requests: [pc, of, faults, reported, floor], see CountsCover
    consumed,   \* requests whose results the next consumer has accepted
    rejected,   \* requests whose results it has refused
    fatal       \* ReportFatalError has been called

writeVars == <<call, server, starts, closed, chanClosed, cancelled, serve, manage, chan,
               faults, req, consumed, rejected, fatal>>

callVars == <<call, server, starts, closed, chanClosed, cancelled>>
outVars == <<consumed, rejected>>
serveVars == <<serve, fatal>>

NoRequest == [pc |-> "idle", of |-> 0, faults |-> 0, reported |-> 0, floor |-> 0]

WriteInit ==
    /\ call = "" /\ server = 0 /\ starts = 0
    /\ closed = {} /\ chanClosed = {} /\ cancelled = {}
    /\ serve = [s \in Servers |-> [pc |-> "none", of |-> 0]]
    /\ manage = [s \in Servers |-> [pc |-> "none", item |-> {}]]
    /\ chan = [s \in Servers |-> <<>>]
    /\ faults = [s \in Servers |-> 0]
    /\ req = [q \in Requests |-> NoRequest]
    /\ consumed = {} /\ rejected = {} /\ fatal = FALSE

-----------------------------------------------------------------------------
(* Start and Shutdown                                                      *)

\* A Start first closes the server of an earlier one.
Start ==
    /\ call = "" /\ starts < MaxStarts
    /\ call' = IF server = 0 THEN "start" ELSE "start close"
    /\ UNCHANGED <<server, starts, closed, chanClosed, cancelled, serveVars, manage, chan,
                   faults, req, outVars>>

\* The collector shuts a receiver down once.
ShutdownReceiver ==
    /\ call = "" /\ server # 0 /\ server \notin cancelled
    /\ call' = "shutdown close"
    /\ UNCHANGED <<server, starts, closed, chanClosed, cancelled, serveVars, manage, chan,
                   faults, req, outVars>>

\* close: http.Server.Close, then the channel, once.
CloseServer ==
    /\ call \in {"start close", "shutdown close"}
    /\ closed' = closed \union {server}
    /\ call' = IF call = "start close" THEN "start channel" ELSE "shutdown channel"
    /\ UNCHANGED <<server, starts, chanClosed, cancelled, serveVars, manage, chan, faults,
                   req, outVars>>

\* Mutant: the channel is left open.
CloseNoChannel ==
    /\ call \in {"start channel", "shutdown channel"}
    /\ call' \in IF call = "start channel" THEN {"start cancel", ""} ELSE {"shutdown cancel"}
    /\ UNCHANGED <<server, starts, closed, chanClosed, cancelled, serveVars, manage, chan,
                   faults, req, outVars>>

\* Start gives up when Close has failed.
CloseChannel ==
    /\ call \in {"start channel", "shutdown channel"}
    /\ chanClosed' = chanClosed \union {server}
    /\ call' \in IF call = "start channel" THEN {"start cancel", ""} ELSE {"shutdown cancel"}
    /\ UNCHANGED <<server, starts, closed, cancelled, serveVars, manage, chan, faults, req,
                   outVars>>

CancelContext ==
    /\ call \in {"start cancel", "shutdown cancel"}
    /\ cancelled' = cancelled \union {server}
    /\ call' = IF call = "start cancel" THEN "start" ELSE ""
    /\ UNCHANGED <<server, starts, closed, chanClosed, serveVars, manage, chan, faults, req,
                   outVars>>

\* A new channel, context, parser and server, and the two goroutines.
StartGoroutines ==
    /\ call = "start"
    /\ call' = ""
    /\ starts' = starts + 1
    /\ server' = starts + 1
    /\ serve' = [serve EXCEPT ![starts + 1].pc = "read"]
    /\ manage' = [manage EXCEPT ![starts + 1].pc = "select"]
    /\ UNCHANGED <<closed, chanClosed, cancelled, chan, faults, req, outVars, fatal>>

-----------------------------------------------------------------------------
(* startServer                                                             *)

\* The goroutine reads receiver.server when it runs, not when it is started.
ReadServer(s) ==
    /\ serve[s].pc = "read"
    /\ serve' = [serve EXCEPT ![s] = [pc |-> "listen", of |-> server]]
    /\ UNCHANGED <<callVars, manage, chan, faults, req, outVars, fatal>>

\* Close closes the listeners that are served.
HoldsPort(s) ==
    serve[s].pc = "bound" \/ (serve[s].pc = "serving" /\ serve[s].of \notin closed)

\* ToListener fails when the address is in use.
Listen(s) ==
    /\ serve[s].pc = "listen"
    /\ \E inUse \in BOOLEAN :
        LET fails == inUse \/ \E t \in Servers : HoldsPort(t)
        IN /\ serve' = [serve EXCEPT ![s].pc = IF fails THEN "ended" ELSE "bound"]
           /\ fatal' = (fatal \/ fails)
    /\ UNCHANGED <<callVars, manage, chan, faults, req, outVars>>

\* Serve returns at once when Close came first; ErrServerClosed is swallowed.
Serve(s) ==
    /\ serve[s].pc = "bound"
    /\ serve' = [serve EXCEPT ![s].pc = IF serve[s].of \in closed THEN "ended" ELSE "serving"]
    /\ UNCHANGED <<callVars, manage, chan, faults, req, outVars, fatal>>

ServeEnds(s) ==
    /\ serve[s].pc = "serving" /\ serve[s].of \in closed
    /\ serve' = [serve EXCEPT ![s].pc = "ended"]
    /\ UNCHANGED <<callVars, manage, chan, faults, req, outVars, fatal>>

ServeStep(s) == ReadServer(s) \/ Listen(s) \/ Serve(s) \/ ServeEnds(s)

-----------------------------------------------------------------------------
(* The handler                                                             *)

Over == {"refused", "accepted", "panicked"}

\* A request with a series that has no name or no samples, or a good one, with
\* or without NaN samples.  Requests that cannot be decoded and empty ones are
\* answered at once and change nothing.
Kinds == {"invalid", "good", "NaN"}

\* A request has one fault or none.
FaultsOf(S) == Cardinality({q \in S : req[q].faults = 1})

Arrive(q, kind) ==
    /\ req[q].pc = "idle" /\ \A p \in 1..(q - 1) : req[p].pc # "idle"
    /\ \E s \in Servers :
        /\ HoldsPort(s) /\ serve[s].pc = "serving"
        /\ req' = [req EXCEPT ![q] =
              [pc |-> kind, of |-> serve[s].of,
               faults |-> IF kind = "good" THEN 0 ELSE 1,
               reported |-> 0,
               floor |-> FaultsOf({p \in Requests : req[p].of = serve[s].of
                                                    /\ req[p].pc \in Over})]]
    /\ UNCHANGED <<callVars, serveVars, manage, chan, faults, outVars>>

\* Mutant: requests that will be refused are not counted.
CountGood(q) ==
    /\ req[q].pc \in {"invalid", "good", "NaN"}
    /\ faults' = [faults EXCEPT ![req[q].of] = @ + IF req[q].pc = "NaN" THEN 1 ELSE 0]
    /\ req' = [req EXCEPT ![q].pc = IF @ = "invalid" THEN "refuse" ELSE "report"]
    /\ UNCHANGED <<callVars, serveVars, manage, chan, outVars>>

\* The parser counts what is wrong with a request, atomically.
Count(q) ==
    /\ req[q].pc \in {"invalid", "good", "NaN"}
    /\ faults' = [faults EXCEPT ![req[q].of] = @ + req[q].faults]
    /\ req' = [req EXCEPT ![q].pc = IF @ = "invalid" THEN "refuse" ELSE "report"]
    /\ UNCHANGED <<callVars, serveVars, manage, chan, outVars>>

Ended(q, how) ==
    [req EXCEPT ![q] = [pc |-> how, of |-> @.of, faults |-> @.faults, reported |-> 0, floor |-> 0]]

\* It adds the counter to the result, which is dropped if there was an error.
Report(q) ==
    /\ req[q].pc \in {"refuse", "report"}
    /\ req' = IF req[q].pc = "refuse" THEN Ended(q, "refused")
              ELSE [req EXCEPT ![q] = [pc |-> "send", of |-> @.of, faults |-> @.faults,
                                       reported |-> faults[@.of], floor |-> @.floor]]
    /\ UNCHANGED <<callVars, serveVars, manage, chan, faults, outVars>>

\* A send on a closed channel panics, which ends the handler only.
Send(q) ==
    LET s == req[q].of
    IN /\ req[q].pc = "send"
       /\ s \in chanClosed \/ Len(chan[s]) < BufferSize
       /\ IF s \in chanClosed
          THEN req' = Ended(q, "panicked") /\ UNCHANGED chan
          ELSE /\ chan' = [chan EXCEPT ![s] = Append(@, q)]
               /\ req' = Ended(q, "accepted")
       /\ UNCHANGED <<callVars, serveVars, manage, faults, outVars>>

HandlerStep(q) == Count(q) \/ Report(q) \/ Send(q)

-----------------------------------------------------------------------------
(* manageServerLifecycle                                                   *)

\* The select may take either case when both are ready; a closed channel is
\* drained before it ends the loop.
Receive(s) ==
    /\ manage[s].pc = "select" /\ chan[s] # <<>>
    /\ manage' = [manage EXCEPT ![s] = [pc |-> "flush", item |-> {Head(chan[s])}]]
    /\ chan' = [chan EXCEPT ![s] = Tail(@)]
    /\ UNCHANGED <<callVars, serveVars, faults, req, outVars>>

ManageEnds(s) ==
    /\ manage[s].pc = "select"
    /\ s \in cancelled \/ (s \in chanClosed /\ chan[s] = <<>>)
    /\ manage' = [manage EXCEPT ![s].pc = "ended"]
    /\ UNCHANGED <<callVars, serveVars, chan, faults, req, outVars>>

\* Mutant: the goroutine ends after every result.
FlushOnce(s) ==
    /\ manage[s].pc = "flush"
    /\ \E err \in BOOLEAN :
        /\ manage' = [manage EXCEPT ![s] = [pc |-> "ended", item |-> {}]]
        /\ IF err THEN rejected' = rejected \union manage[s].item /\ UNCHANGED consumed
           ELSE consumed' = consumed \union manage[s].item /\ UNCHANGED rejected
    /\ UNCHANGED <<callVars, serveVars, chan, faults, req>>

\* An error of the next consumer ends the goroutine.
Flush(s) ==
    /\ manage[s].pc = "flush"
    /\ \E err \in BOOLEAN :
        /\ manage' = [manage EXCEPT ![s] = [pc |-> IF err THEN "ended" ELSE "select",
                                            item |-> {}]]
        /\ IF err THEN rejected' = rejected \union manage[s].item /\ UNCHANGED consumed
           ELSE consumed' = consumed \union manage[s].item /\ UNCHANGED rejected
    /\ UNCHANGED <<callVars, serveVars, chan, faults, req>>

ManageStep(s) == Receive(s) \/ ManageEnds(s) \/ Flush(s)

-----------------------------------------------------------------------------
CallStep == CloseServer \/ CloseChannel \/ CancelContext \/ StartGoroutines

GoroutineStep ==
    \/ \E s \in Servers : ServeStep(s) \/ ManageStep(s)
    \/ \E q \in Requests : HandlerStep(q)

WriteNext ==
    \/ Start \/ ShutdownReceiver \/ CallStep \/ GoroutineStep
    \/ \E q \in Requests, kind \in Kinds : Arrive(q, kind)

\* Goroutines that can run do, and the next consumer returns.  The goroutines
\* take finitely many steps within the bounds, so fairness for all of them
\* together is fairness for each.
WriteFairness == WF_writeVars(CallStep) /\ WF_writeVars(GoroutineStep)

WriteSpec == WriteInit /\ [][WriteNext]_writeVars /\ WriteFairness

-----------------------------------------------------------------------------
(* Properties                                                              *)

CallStates == {"", "start", "start close", "start channel", "start cancel",
          "shutdown close", "shutdown channel", "shutdown cancel"}
ServeStates ==
    [pc : {"none", "read", "listen", "bound", "serving", "ended"}, of : 0..MaxStarts]
ManageStates ==
    [pc : {"none", "select", "flush", "ended"}, item : SUBSET Requests]
HandlerStates == {"idle", "refuse", "report", "send"} \union Kinds \union Over
RequestStates ==
    [pc : HandlerStates, of : 0..MaxStarts, faults : {0, 1}, reported : Nat, floor : Nat]

WriteTypeOK ==
    /\ call \in CallStates
    /\ server \in 0..MaxStarts /\ starts \in 0..MaxStarts
    /\ closed \subseteq Servers /\ chanClosed \subseteq closed
    /\ cancelled \subseteq Servers
    /\ serve \in [Servers -> ServeStates] /\ manage \in [Servers -> ManageStates]
    /\ chan \in [Servers -> Seq(Requests)] /\ faults \in [Servers -> Nat]
    /\ req \in [Requests -> RequestStates]
    /\ consumed \subseteq Requests /\ rejected \subseteq Requests
    /\ fatal \in BOOLEAN

\* The counter that a result reports covers the request's own faults and those
\* of every request that was over when this one arrived, also refused ones; and
\* it counts nothing that has not arrived at this server: concurrent handlers
\* lose no update, and a new Start begins at zero.
CountsCover ==
    \A q \in Requests : req[q].pc = "send" =>
        /\ req[q].reported >= req[q].floor + req[q].faults
        /\ req[q].reported <= FaultsOf({p \in Requests : req[p].of = req[q].of})

\* An acknowledged result reaches the next consumer, unless that one has
\* refused a result or the server has been closed.
AcceptedPassedOn ==
    \A q \in Requests :
        req[q].pc = "accepted" ~>
            \/ q \in consumed
            \/ req[q].of \in closed
            \/ \E p \in rejected : req[p].of = req[q].of

\* After Shutdown every goroutine of the server ends, handlers that are blocked
\* because nobody receives any more included.
ShutdownEnds ==
    \A s \in Servers :
        s \in cancelled ~>
            /\ manage[s].pc = "ended"
            /\ \A t \in Servers : serve[t].of = s => serve[t].pc = "ended"
            /\ \A q \in Requests : req[q].of = s => req[q].pc \in Over
=============================================================================
