-------------------------- MODULE RemoteWriteProofs --------------------------
(***************************************************************************)
(* The remote write receiver, for every number of servers, of requests and *)
(* of places in the channel: the counters of its parsers cover what they   *)
(* must, and no result is lost or passed on twice.                         *)
(***************************************************************************)
EXTENDS RemoteWrite, FiniteSetTheorems, TLAPS

-----------------------------------------------------------------------------
(* The servers and the requests of the remote write receiver               *)

\* Start and Shutdown: the receiver has the server made last, which a call
\* closes before it closes its channel.
Lifecycle ==
    /\ server = starts
    /\ call \in {"start", "start close", "start channel", "start cancel"} => starts < MaxStarts
    /\ call \notin {"", "start"} => server # 0
    /\ call \in {"start channel", "shutdown channel"} => server \in closed
    /\ \A s \in Servers :
        /\ serve[s].pc # "none" \/ manage[s].pc # "none" => s <= starts
        /\ serve[s].pc \notin {"none", "read"} => serve[s].of \in Servers
    /\ \A q \in Requests : req[q].pc # "idle" => req[q].of \in Servers

\* There are finitely many requests.
LEMMA RequestsFinite == IsFiniteSet(Requests)
BY FS_Interval, WriteAssumption DEF Requests

\* How many faults a set of requests has is a number.
LEMMA FaultsNumber ==
    ASSUME NEW S \in SUBSET Requests
    PROVE  FaultsOf(S) \in Nat
<1>1. IsFiniteSet({q \in S : req[q].faults = 1})
      BY Zenon, RequestsFinite, FS_Subset
<1> QED BY Zenon, <1>1, FS_CardinalityType DEF FaultsOf

\* The numbers of a request.
LEMMA RequestNumbers ==
    ASSUME WriteTypeOK, NEW q \in Requests
    PROVE  /\ req[q].faults \in {0, 1} /\ req[q].faults \in Nat
           /\ req[q].reported \in Nat /\ req[q].floor \in Nat
<1>1. req[q] \in RequestStates
      BY Zenon DEF WriteTypeOK
<1>2. req[q].faults \in {0, 1}
      BY Zenon, <1>1 DEF RequestStates
<1>3. req[q].reported \in Nat /\ req[q].floor \in Nat
      BY Zenon, <1>1 DEF RequestStates
<1> QED BY <1>2, <1>3

\* The types and the life cycle, step by step.
LEMMA LifecycleStep ==
    ASSUME WriteTypeOK, Lifecycle, [WriteNext]_writeVars
    PROVE  WriteTypeOK' /\ Lifecycle'
<1>0. /\ server # 0 => server \in Servers
      /\ starts < MaxStarts => starts + 1 \in Servers
      /\ Kinds \subseteq HandlerStates /\ Over \subseteq HandlerStates
      /\ "refuse" \in HandlerStates /\ "report" \in HandlerStates /\ "send" \in HandlerStates
      /\ "refused" \in HandlerStates /\ "accepted" \in HandlerStates
      /\ "panicked" \in HandlerStates
      BY WriteAssumption DEF WriteTypeOK, Servers, HandlerStates, Over
<1>1. CASE Start
  <2>1. WriteTypeOK'
        BY Zenon, <1>0, <1>1 DEF Start, WriteTypeOK, Lifecycle, CallStates, serveVars,
           outVars
  <2>2. Lifecycle'
        BY Zenon, <1>1 DEF Start, WriteTypeOK, Lifecycle, CallStates, serveVars
  <2> QED BY Zenon, <2>1, <2>2
<1>2. CASE ShutdownReceiver
  <2>1. WriteTypeOK'
        BY Zenon, <1>0, <1>2 DEF ShutdownReceiver, WriteTypeOK, Lifecycle, CallStates,
           serveVars, outVars
  <2>2. Lifecycle'
        BY Zenon, <1>2 DEF ShutdownReceiver, WriteTypeOK, Lifecycle, CallStates,
           serveVars
  <2> QED BY Zenon, <2>1, <2>2
<1>3. CASE CloseServer
  <2>1. WriteTypeOK'
        BY Zenon, <1>0, <1>3 DEF CloseServer, WriteTypeOK, Lifecycle, CallStates,
           serveVars, outVars
  <2>2. Lifecycle'
        BY Zenon, <1>3 DEF CloseServer, WriteTypeOK, Lifecycle, CallStates, serveVars
  <2> QED BY Zenon, <2>1, <2>2
<1>4. CASE CloseChannel
  <2>1. WriteTypeOK'
        BY Zenon, <1>0, <1>4 DEF CloseChannel, WriteTypeOK, Lifecycle, CallStates,
           serveVars, outVars
  <2>2. Lifecycle'
        BY Zenon, <1>4 DEF CloseChannel, WriteTypeOK, Lifecycle, CallStates, serveVars
  <2> QED BY Zenon, <2>1, <2>2
<1>5. CASE CancelContext
  <2>1. WriteTypeOK'
        BY Zenon, <1>0, <1>5 DEF CancelContext, WriteTypeOK, Lifecycle, CallStates,
           serveVars, outVars
  <2>2. Lifecycle'
        BY Zenon, <1>5 DEF CancelContext, WriteTypeOK, Lifecycle, CallStates, serveVars
  <2> QED BY Zenon, <2>1, <2>2
<1>6. CASE StartGoroutines
  <2>1. /\ call = "start" /\ call' = "" /\ starts' = starts + 1 /\ server' = starts + 1
        /\ UNCHANGED <<closed, chanClosed, cancelled, chan, faults, req, outVars, fatal>>
        BY <1>6, Zenon DEF StartGoroutines
  <2>2. starts < MaxStarts
        BY Zenon, <2>1 DEF Lifecycle
  <2>3. starts + 1 \in Servers /\ starts + 1 \in 0..MaxStarts
        BY <2>2, WriteAssumption DEF WriteTypeOK, Servers
  <2>4. serve' \in [Servers -> ServeStates] /\ manage' \in [Servers -> ManageStates]
        BY ZenonT(30), <1>6, <2>3 DEF StartGoroutines, WriteTypeOK, ServeStates,
           ManageStates
  <2>5. WriteTypeOK'
        BY Zenon, <2>1, <2>3, <2>4 DEF WriteTypeOK, CallStates, outVars
  <2>6. ASSUME NEW s \in Servers
        PROVE  /\ serve'[s].pc = IF s = starts + 1 THEN "read" ELSE serve[s].pc
               /\ serve'[s].of = serve[s].of
               /\ s # starts + 1 => manage'[s].pc = manage[s].pc
        BY ZenonT(30), <1>6, <2>3 DEF StartGoroutines, WriteTypeOK, ServeStates,
           ManageStates
  <2>7. ASSUME NEW s \in Servers
        PROVE  /\ serve'[s].pc # "none" \/ manage'[s].pc # "none" => s <= starts + 1
               /\ serve'[s].pc \notin {"none", "read"} => serve'[s].of \in Servers
    <3>1. s \in Nat /\ starts \in Nat
          BY WriteAssumption DEF WriteTypeOK, Servers
    <3>2. /\ serve[s].pc # "none" \/ manage[s].pc # "none" => s <= starts
          /\ serve[s].pc \notin {"none", "read"} => serve[s].of \in Servers
          BY Zenon DEF Lifecycle
    <3> QED BY <2>6, <3>1, <3>2
  <2>8. Lifecycle'
        BY Zenon, <2>1, <2>7 DEF Lifecycle
  <2> QED BY Zenon, <2>5, <2>8
<1>7. ASSUME NEW s \in Servers, ReadServer(s)
      PROVE  WriteTypeOK' /\ Lifecycle'
  <2>1. serve' \in [Servers -> ServeStates] /\ fatal' \in BOOLEAN
        BY Zenon, <1>7 DEF ReadServer, WriteTypeOK, ServeStates
  <2>2. UNCHANGED <<callVars, manage, chan, faults, req, outVars>>
        BY <1>7, Zenon DEF ReadServer
  <2>3. WriteTypeOK'
        BY Zenon, <2>1, <2>2 DEF WriteTypeOK, callVars, outVars
  <2>4. ASSUME NEW t \in Servers
        PROVE  /\ serve'[t].pc = IF t = s THEN "listen" ELSE serve[t].pc
               /\ serve'[t].of = IF t = s THEN server ELSE serve[t].of
        BY Zenon, <1>7 DEF ReadServer, WriteTypeOK, ServeStates
  <2>0. serve[s].pc = "read"
        BY <1>7, Zenon DEF ReadServer
  <2>a. server \in Servers
    <3>1. s <= starts /\ server = starts
          BY Zenon, <2>0 DEF Lifecycle
    <3> QED BY <3>1, WriteAssumption DEF WriteTypeOK, Servers
  <2>5. ASSUME NEW t \in Servers
        PROVE  /\ serve'[t].pc # "none" => t <= starts
               /\ serve'[t].pc \notin {"none", "read"} => serve'[t].of \in Servers
        BY Zenon, <2>0, <2>a, <2>4 DEF Lifecycle
  <2>6. Lifecycle'
        BY Zenon, <2>2, <2>5 DEF Lifecycle, callVars
  <2> QED BY Zenon, <2>3, <2>6
<1>8. ASSUME NEW s \in Servers, Listen(s)
      PROVE  WriteTypeOK' /\ Lifecycle'
  <2>1. serve' \in [Servers -> ServeStates] /\ fatal' \in BOOLEAN
    <3>1. PICK pc \in {"ended", "bound"} : serve' = [serve EXCEPT ![s].pc = pc]
          BY <1>8, Zenon DEF Listen
    <3>2. fatal' \in BOOLEAN
          BY <1>8, Zenon DEF Listen
    <3> QED BY Zenon, <3>1, <3>2 DEF WriteTypeOK, ServeStates
  <2>2. UNCHANGED <<callVars, manage, chan, faults, req, outVars>>
        BY <1>8, Zenon DEF Listen
  <2>3. WriteTypeOK'
        BY Zenon, <2>1, <2>2 DEF WriteTypeOK, callVars, outVars
  <2>4. ASSUME NEW t \in Servers
        PROVE  /\ serve'[t].of = serve[t].of /\ (t # s => serve'[t].pc = serve[t].pc)
               /\ serve[s].pc = "listen"
        BY <1>8 DEF Listen, WriteTypeOK, ServeStates
  <2>5. ASSUME NEW t \in Servers
        PROVE  /\ serve'[t].pc # "none" => t <= starts
               /\ serve'[t].pc \notin {"none", "read"} => serve'[t].of \in Servers
        BY Zenon, <2>4 DEF Lifecycle
  <2>6. Lifecycle'
        BY Zenon, <2>2, <2>5 DEF Lifecycle, callVars
  <2> QED BY Zenon, <2>3, <2>6
<1>9. ASSUME NEW s \in Servers, Serve(s)
      PROVE  WriteTypeOK' /\ Lifecycle'
  <2>1. serve' \in [Servers -> ServeStates] /\ fatal' \in BOOLEAN
        BY ZenonT(30), <1>9 DEF Serve, WriteTypeOK, ServeStates
  <2>2. UNCHANGED <<callVars, manage, chan, faults, req, outVars>>
        BY <1>9, Zenon DEF Serve
  <2>3. WriteTypeOK'
        BY Zenon, <2>1, <2>2 DEF WriteTypeOK, callVars, outVars
  <2>4. ASSUME NEW t \in Servers
        PROVE  /\ serve'[t].of = serve[t].of /\ (t # s => serve'[t].pc = serve[t].pc)
               /\ serve[s].pc = "bound"
        BY Zenon, <1>9 DEF Serve, WriteTypeOK, ServeStates
  <2>5. ASSUME NEW t \in Servers
        PROVE  /\ serve'[t].pc # "none" => t <= starts
               /\ serve'[t].pc \notin {"none", "read"} => serve'[t].of \in Servers
        BY Zenon, <2>4 DEF Lifecycle
  <2>6. Lifecycle'
        BY Zenon, <2>2, <2>5 DEF Lifecycle, callVars
  <2> QED BY Zenon, <2>3, <2>6
<1>10. ASSUME NEW s \in Servers, ServeEnds(s)
      PROVE  WriteTypeOK' /\ Lifecycle'
  <2>1. serve' \in [Servers -> ServeStates] /\ fatal' \in BOOLEAN
        BY Zenon, <1>10 DEF ServeEnds, WriteTypeOK, ServeStates
  <2>2. UNCHANGED <<callVars, manage, chan, faults, req, outVars>>
        BY <1>10, Zenon DEF ServeEnds
  <2>3. WriteTypeOK'
        BY Zenon, <2>1, <2>2 DEF WriteTypeOK, callVars, outVars
  <2>4. ASSUME NEW t \in Servers
        PROVE  /\ serve'[t].of = serve[t].of /\ (t # s => serve'[t].pc = serve[t].pc)
               /\ serve[s].pc = "serving"
        BY Zenon, <1>10 DEF ServeEnds, WriteTypeOK, ServeStates
  <2>5. ASSUME NEW t \in Servers
        PROVE  /\ serve'[t].pc # "none" => t <= starts
               /\ serve'[t].pc \notin {"none", "read"} => serve'[t].of \in Servers
        BY Zenon, <2>4 DEF Lifecycle
  <2>6. Lifecycle'
        BY Zenon, <2>2, <2>5 DEF Lifecycle, callVars
  <2> QED BY Zenon, <2>3, <2>6
<1>11. ASSUME NEW s \in Servers, Receive(s)
       PROVE  WriteTypeOK' /\ Lifecycle'
  <2>1. manage' \in [Servers -> ManageStates] /\ chan' \in [Servers -> Seq(Requests)]
        BY <1>11 DEF Receive, WriteTypeOK, ManageStates
  <2>2. consumed' \subseteq Requests /\ rejected' \subseteq Requests
        BY Zenon, <1>11 DEF Receive, WriteTypeOK, ManageStates, outVars
  <2>3. manage[s].pc = "select" /\ UNCHANGED <<callVars, serveVars, faults, req>>
        BY <1>11, Zenon DEF Receive
  <2>4. WriteTypeOK'
        BY Zenon, <2>1, <2>2, <2>3 DEF WriteTypeOK, callVars, serveVars
  <2>5. ASSUME NEW t \in Servers
        PROVE  t # s => manage'[t].pc = manage[t].pc
        BY Zenon, <1>11 DEF Receive, WriteTypeOK, ManageStates
  <2>6. Lifecycle'
        BY Zenon, <2>3, <2>5 DEF Lifecycle, callVars, serveVars
  <2> QED BY Zenon, <2>4, <2>6
<1>12. ASSUME NEW s \in Servers, ManageEnds(s)
       PROVE  WriteTypeOK' /\ Lifecycle'
  <2>1. manage' \in [Servers -> ManageStates] /\ chan' \in [Servers -> Seq(Requests)]
        BY ZenonT(30), <1>12 DEF ManageEnds, WriteTypeOK, ManageStates
  <2>2. consumed' \subseteq Requests /\ rejected' \subseteq Requests
        BY Zenon, <1>12 DEF ManageEnds, WriteTypeOK, ManageStates, outVars
  <2>3. manage[s].pc = "select" /\ UNCHANGED <<callVars, serveVars, faults, req>>
        BY <1>12, Zenon DEF ManageEnds
  <2>4. WriteTypeOK'
        BY Zenon, <2>1, <2>2, <2>3 DEF WriteTypeOK, callVars, serveVars
  <2>5. ASSUME NEW t \in Servers
        PROVE  t # s => manage'[t].pc = manage[t].pc
        BY Zenon, <1>12 DEF ManageEnds, WriteTypeOK, ManageStates
  <2>6. Lifecycle'
        BY Zenon, <2>3, <2>5 DEF Lifecycle, callVars, serveVars
  <2> QED BY Zenon, <2>4, <2>6
<1>13. ASSUME NEW s \in Servers, Flush(s)
       PROVE  WriteTypeOK' /\ Lifecycle'
  <2>1. manage' \in [Servers -> ManageStates] /\ chan' \in [Servers -> Seq(Requests)]
        BY <1>13 DEF Flush, WriteTypeOK, ManageStates
  <2>2. consumed' \subseteq Requests /\ rejected' \subseteq Requests
        BY Zenon, <1>13 DEF Flush, WriteTypeOK, ManageStates, outVars
  <2>3. manage[s].pc = "flush" /\ UNCHANGED <<callVars, serveVars, faults, req>>
        BY <1>13, Zenon DEF Flush
  <2>4. WriteTypeOK'
        BY Zenon, <2>1, <2>2, <2>3 DEF WriteTypeOK, callVars, serveVars
  <2>5. ASSUME NEW t \in Servers
        PROVE  t # s => manage'[t].pc = manage[t].pc
        BY Zenon, <1>13 DEF Flush, WriteTypeOK, ManageStates
  <2>6. Lifecycle'
        BY Zenon, <2>3, <2>5 DEF Lifecycle, callVars, serveVars
  <2> QED BY Zenon, <2>4, <2>6
<1>14. ASSUME NEW q \in Requests, Count(q)
       PROVE  WriteTypeOK' /\ Lifecycle'
  <2> USE <1>14
  <2>0. req' \in [Requests -> RequestStates]
        BY ZenonT(30), <1>0 DEF Count, WriteTypeOK, RequestStates
  <2>1. faults' \in [Servers -> Nat]
    <3>1. faults' = [faults EXCEPT ![req[q].of] = @ + req[q].faults]
          BY Zenon DEF Count
    <3>2. req[q].faults \in Nat
          BY Zenon, RequestNumbers
    <3>3. ASSUME NEW s \in Servers
          PROVE  faults[s] + req[q].faults \in Nat
          BY <3>2 DEF WriteTypeOK
    <3> QED BY Zenon, <3>1, <3>3 DEF WriteTypeOK
  <2>2. ASSUME NEW p \in Requests
        PROVE  req'[p].of = req[p].of /\ (req'[p].pc # "idle" => req[p].pc # "idle")
        BY Zenon DEF Count, WriteTypeOK, RequestStates
  <2>3. chan' = chan
        BY Zenon DEF Count
  <2>4. UNCHANGED <<callVars, serveVars, manage, outVars>>
        BY Zenon DEF Count
  <2>5. WriteTypeOK'
        BY Zenon, <2>0, <2>1, <2>3, <2>4 DEF WriteTypeOK, callVars, serveVars, outVars
  <2>6. Lifecycle'
        BY Zenon, <2>2, <2>4 DEF Lifecycle, callVars, serveVars
  <2> QED BY Zenon, <2>5, <2>6
<1>15. ASSUME NEW q \in Requests, Report(q)
       PROVE  WriteTypeOK' /\ Lifecycle'
  <2> USE <1>15
  <2>0. req[q].of \in Servers
        BY Zenon DEF Report, Lifecycle, WriteTypeOK, RequestStates, Ended
  <2>1. req' \in [Requests -> RequestStates] /\ faults' \in [Servers -> Nat]
        BY Zenon, <1>0, <2>0 DEF Report, WriteTypeOK, RequestStates, Ended
  <2>2. ASSUME NEW p \in Requests
        PROVE  req'[p].of = req[p].of /\ (req'[p].pc # "idle" => req[p].pc # "idle")
        BY Zenon DEF Report, WriteTypeOK, RequestStates, Ended
  <2>3. chan' \in [Servers -> Seq(Requests)]
        BY Zenon DEF Report, WriteTypeOK, RequestStates, Ended
  <2>4. UNCHANGED <<callVars, serveVars, manage, outVars>>
        BY Zenon DEF Report
  <2>5. WriteTypeOK'
        BY Zenon, <2>1, <2>3, <2>4 DEF WriteTypeOK, callVars, serveVars, outVars
  <2>6. Lifecycle'
        BY Zenon, <2>2, <2>4 DEF Lifecycle, callVars, serveVars
  <2> QED BY Zenon, <2>5, <2>6
<1>16. ASSUME NEW q \in Requests, Send(q)
       PROVE  WriteTypeOK' /\ Lifecycle'
  <2> USE <1>16
  <2>0. \E how \in {"accepted", "panicked"} : req' = Ended(q, how)
        BY Zenon DEF Send
  <2>1. req' \in [Requests -> RequestStates] /\ faults' \in [Servers -> Nat]
        BY <1>0, <2>0 DEF Send, WriteTypeOK, RequestStates, Ended
  <2>2. ASSUME NEW p \in Requests
        PROVE  req'[p].of = req[p].of /\ (req'[p].pc # "idle" => req[p].pc # "idle")
        BY <2>0 DEF Send, WriteTypeOK, RequestStates, Ended
  <2>3. chan' \in [Servers -> Seq(Requests)]
    <3>1. chan' = chan \/ chan' = [chan EXCEPT ![req[q].of] = Append(@, q)]
          BY Zenon DEF Send
    <3>2. CASE chan' = chan
          BY Zenon, <3>2 DEF WriteTypeOK
    <3>3. CASE chan' = [chan EXCEPT ![req[q].of] = Append(@, q)]
      <4>1. ASSUME NEW s \in Servers
            PROVE  Append(chan[s], q) \in Seq(Requests)
            BY DEF WriteTypeOK
      <4> QED BY <3>3, <4>1, Zenon DEF WriteTypeOK
    <3> QED BY Zenon, <3>1, <3>2, <3>3
  <2>4. UNCHANGED <<callVars, serveVars, manage, outVars>>
        BY Zenon DEF Send
  <2>5. WriteTypeOK'
        BY Zenon, <2>1, <2>3, <2>4 DEF WriteTypeOK, callVars, serveVars, outVars
  <2>6. Lifecycle'
        BY Zenon, <2>2, <2>4 DEF Lifecycle, callVars, serveVars
  <2> QED BY Zenon, <2>5, <2>6
<1>17. ASSUME NEW q \in Requests, NEW kind \in Kinds, Arrive(q, kind)
       PROVE  WriteTypeOK' /\ Lifecycle'
  <2> USE <1>17
  <2>1. PICK s \in Servers : /\ serve[s].pc = "serving"
                          /\ req' = [req EXCEPT ![q] =
                                [pc |-> kind, of |-> serve[s].of,
                                 faults |-> IF kind = "good" THEN 0 ELSE 1,
                                 reported |-> 0,
                                 floor |-> FaultsOf({p \in Requests : req[p].of = serve[s].of
                                                        /\ req[p].pc \in Over})]]
        BY Zenon DEF Arrive
  <2>2. serve[s].of \in 0..MaxStarts /\ serve[s].of \in Servers
        BY Zenon, <2>1 DEF WriteTypeOK, Lifecycle, ServeStates
  <2>3. FaultsOf({p \in Requests : req[p].of = serve[s].of /\ req[p].pc \in Over}) \in Nat
        BY Zenon, FaultsNumber
  <2>4. req' \in [Requests -> RequestStates]
        BY Zenon, <1>0, <2>1, <2>2, <2>3 DEF WriteTypeOK, RequestStates
  <2>5. UNCHANGED <<callVars, serveVars, manage, chan, faults, outVars>>
        BY Zenon DEF Arrive
  <2>6. WriteTypeOK'
        BY Zenon, <2>4, <2>5 DEF WriteTypeOK, callVars, serveVars, outVars
  <2>7. ASSUME NEW p \in Requests
        PROVE  req'[p].pc # "idle" => req'[p].of \in Servers
        BY Zenon, <2>1, <2>2 DEF WriteTypeOK, Lifecycle, RequestStates
  <2>8. Lifecycle'
        BY Zenon, <2>5, <2>7 DEF Lifecycle, callVars, serveVars
  <2> QED BY Zenon, <2>6, <2>8
<1>18. CASE UNCHANGED writeVars
       BY Zenon, <1>18 DEF writeVars, WriteTypeOK, Lifecycle
<1> QED BY Zenon, <1>1, <1>2, <1>3, <1>4, <1>5, <1>6, <1>7, <1>8, <1>9, <1>10, <1>11,
           <1>12, <1>13,
           <1>14, <1>15, <1>16, <1>17, <1>18
        DEF WriteNext, CallStep, GoroutineStep, ServeStep, ManageStep, HandlerStep

\* The faulty requests that a server's parser has counted.
Counted == {"refuse", "report", "send"} \union Over
FaultyAt(s) == {q \in Requests : req[q].of = s /\ req[q].pc \in Counted /\ req[q].faults = 1}

\* The counters agree with the requests, and cover what a request must report.
CountersAgree == \A s \in Servers : faults[s] = Cardinality(FaultyAt(s))
Covered(q) ==
    /\ req[q].pc \in Kinds => req[q].floor <= faults[req[q].of]
    /\ req[q].pc \in {"refuse", "report"} => req[q].floor + req[q].faults <= faults[req[q].of]
    /\ req[q].pc = "send" => /\ req[q].floor + req[q].faults <= req[q].reported
                             /\ req[q].reported <= faults[req[q].of]
Counters == CountersAgree /\ \A q \in Requests : Covered(q)

\* Those are finitely many.
LEMMA FaultyFinite ==
    ASSUME NEW s
    PROVE  /\ IsFiniteSet(FaultyAt(s))
           /\ \A T \in SUBSET FaultyAt(s) : Cardinality(T) <= Cardinality(FaultyAt(s))
<1>1. IsFiniteSet(FaultyAt(s))
      BY Zenon, RequestsFinite, FS_Subset DEF FaultyAt
<1> QED BY Zenon, <1>1, FS_Subset

\* A request adds its fault to the counter of its server.
LEMMA CountCounts ==
    ASSUME WriteTypeOK, Lifecycle, Counters, NEW q \in Requests, Count(q)
    PROVE  Counters'
<1>1. /\ req[q].pc \in Kinds /\ req[q].of \in Servers
      /\ req[q].faults \in {0, 1} /\ req[q].floor \in Nat
  <2>1. req[q].pc \in Kinds
        BY Zenon DEF Count, Kinds
  <2> QED BY Zenon, <2>1 DEF Kinds, Lifecycle, WriteTypeOK, RequestStates
<1>2. ASSUME NEW p \in Requests
      PROVE  /\ req'[p].of = req[p].of /\ req'[p].faults = req[p].faults
             /\ req'[p].floor = req[p].floor /\ req'[p].reported = req[p].reported
             /\ IF p = q THEN req'[p].pc \in {"refuse", "report"} ELSE req'[p].pc = req[p].pc
      BY Zenon DEF Count, WriteTypeOK, RequestStates
<1>3. ASSUME NEW s \in Servers
      PROVE  faults'[s] = IF s = req[q].of THEN faults[s] + req[q].faults ELSE faults[s]
  <2>1. faults' = [faults EXCEPT ![req[q].of] = @ + req[q].faults]
        BY Zenon DEF Count
  <2> QED BY Zenon, <2>1 DEF WriteTypeOK
<1>4. q \notin FaultyAt(req[q].of)
      BY Zenon, <1>1 DEF FaultyAt, Counted, Kinds, Over
<1>5. ASSUME NEW s \in Servers
      PROVE  FaultyAt(s)' = IF s = req[q].of /\ req[q].faults = 1
                            THEN FaultyAt(s) \union {q} ELSE FaultyAt(s)
      BY <1>1, <1>2 DEF FaultyAt, Counted, Kinds, Over
<1>6. CountersAgree'
  <2>1. ASSUME NEW s \in Servers
        PROVE  faults'[s] = Cardinality(FaultyAt(s)')
    <3>1. faults[s] = Cardinality(FaultyAt(s)) /\ faults[s] \in Nat
          BY Zenon DEF Counters, CountersAgree, WriteTypeOK
    <3>2. CASE s = req[q].of /\ req[q].faults = 1
          BY <1>3, <1>4, <1>5, <3>1, <3>2, FaultyFinite, FS_AddElement
    <3>3. CASE ~(s = req[q].of /\ req[q].faults = 1)
          BY <1>1, <1>3, <1>5, <3>1, <3>3
    <3> QED BY Zenon, <3>2, <3>3
  <2> QED BY Zenon, <2>1 DEF CountersAgree
<1>7. ASSUME NEW p \in Requests
      PROVE  Covered(p)'
  <2>1. Covered(p)
        BY Zenon DEF Counters
  <2>2. req[p].pc # "idle" => /\ faults[req[p].of] \in Nat /\ faults'[req[p].of] \in Nat
                              /\ faults'[req[p].of] >= faults[req[p].of]
    <3>1. SUFFICES ASSUME req[p].of \in Servers
                   PROVE  /\ faults[req[p].of] \in Nat /\ faults'[req[p].of] \in Nat
                          /\ faults'[req[p].of] >= faults[req[p].of]
          BY Zenon DEF Lifecycle
    <3>2. faults[req[p].of] \in Nat
          BY Zenon, <3>1 DEF WriteTypeOK
    <3> QED BY <1>1, <1>3, <3>1, <3>2
  <2>3. req[p].floor \in Nat /\ req[p].faults \in Nat /\ req[p].reported \in Nat
        BY Zenon, RequestNumbers
  <2>4. CASE p = q
    <3>1. req[q].floor <= faults[req[q].of] /\ faults[req[q].of] \in Nat
          BY Zenon, <1>1, <2>1, <2>2, <2>4 DEF Covered, Kinds
    <3>2. faults'[req[q].of] = faults[req[q].of] + req[q].faults
          BY Zenon, <1>1, <1>3
    <3>3. req[q].floor + req[q].faults <= faults'[req[q].of]
          BY <1>1, <3>1, <3>2
    <3> QED BY Zenon, <1>2, <2>4, <3>3 DEF Covered, Kinds
  <2>5. CASE p # q
        BY <1>2, <2>1, <2>2, <2>3, <2>5 DEF Covered, Kinds
  <2> QED BY Zenon, <2>4, <2>5
<1> QED BY Zenon, <1>6, <1>7 DEF Counters

\* A report covers what has been counted, and the others leave the counters.
LEMMA CountersStep ==
    ASSUME WriteTypeOK, Lifecycle, Counters, [WriteNext]_writeVars
    PROVE  Counters'
<1>1. CASE UNCHANGED <<req, faults>>
      BY Zenon, <1>1 DEF Counters, CountersAgree, Covered, FaultyAt
<1>2. ASSUME NEW q \in Requests, Report(q) \/ Send(q)
      PROVE  Counters'
  <2>1. /\ req[q].pc \in {"refuse", "report", "send"} /\ req[q].of \in Servers
        /\ faults' = faults
    <3>1. req[q].pc \in {"refuse", "report", "send"} /\ faults' = faults
          BY <1>2, Zenon DEF Report, Send
    <3> QED BY Zenon, <3>1 DEF Lifecycle
  <2>2. ASSUME NEW p \in Requests
        PROVE  /\ req'[p].of = req[p].of /\ req'[p].faults = req[p].faults
               /\ p # q => req'[p] = req[p]
               /\ p = q => /\ req'[p].pc \in Over \union {"send"}
                           /\ req'[p].pc = "send" =>
                                /\ req[p].pc = "report" /\ req'[p].floor = req[p].floor
                                /\ req'[p].reported = faults[req[p].of]
    <3>1. \/ \E how \in Over : req' = Ended(q, how)
          \/ /\ req[q].pc = "report"
             /\ req' = [req EXCEPT ![q] = [pc |-> "send", of |-> @.of, faults |-> @.faults,
                                       reported |-> faults[@.of], floor |-> @.floor]]
          BY Zenon, <1>2 DEF Report, Send, Over
    <3> QED BY <3>1 DEF Ended, Over, WriteTypeOK, RequestStates
  <2>3. ASSUME NEW s \in Servers
        PROVE  FaultyAt(s)' = FaultyAt(s)
        BY <2>1, <2>2 DEF FaultyAt, Counted
  <2>4. CountersAgree'
        BY Zenon, <2>1, <2>3 DEF Counters, CountersAgree
  <2>5. ASSUME NEW p \in Requests
        PROVE  Covered(p)'
    <3>1. Covered(p)
          BY Zenon DEF Counters
    <3>2. faults[req[q].of] \in Nat
          BY Zenon, <2>1 DEF WriteTypeOK
    <3>3. CASE p = q
          BY <2>1, <2>2, <3>1, <3>2, <3>3, RequestNumbers DEF Covered, Kinds, Over
    <3>4. CASE p # q
          BY Zenon, <2>1, <2>2, <3>1, <3>4 DEF Covered
    <3> QED BY Zenon, <3>3, <3>4
  <2> QED BY Zenon, <2>4, <2>5 DEF Counters
<1>3. ASSUME NEW q \in Requests, NEW kind \in Kinds, Arrive(q, kind)
      PROVE  Counters'
  <2>1. PICK s \in Servers : /\ serve[s].pc = "serving"
                          /\ req' = [req EXCEPT ![q] =
                                [pc |-> kind, of |-> serve[s].of,
                                 faults |-> IF kind = "good" THEN 0 ELSE 1,
                                 reported |-> 0,
                                 floor |-> FaultsOf({p \in Requests : req[p].of = serve[s].of
                                                        /\ req[p].pc \in Over})]]
        BY Zenon, <1>3 DEF Arrive
  <2>2. req[q].pc = "idle" /\ faults' = faults /\ serve[s].of \in Servers
        BY Zenon, <1>3, <2>1 DEF Arrive, Lifecycle
  <2> DEFINE o == serve[s].of
             f == FaultsOf({p \in Requests : req[p].of = o /\ req[p].pc \in Over})
  <2>3. f <= faults[o]
    <3> DEFINE T == {p \in {p \in Requests : req[p].of = o /\ req[p].pc \in Over} :
                        req[p].faults = 1}
    <3>1. T \subseteq FaultyAt(o)
          BY Zenon DEF FaultyAt, Counted
    <3>2. Cardinality(T) <= Cardinality(FaultyAt(o))
          BY Zenon, <3>1, FaultyFinite
    <3>3. faults[o] = Cardinality(FaultyAt(o))
          BY Zenon, <2>2 DEF Counters, CountersAgree
    <3> QED BY Zenon, <3>2, <3>3 DEF FaultsOf
  <2> HIDE DEF f, o
  <2>4. /\ \A p \in Requests : p # q => req'[p] = req[p]
        /\ req'[q].pc = kind /\ req'[q].of = o /\ req'[q].floor = f
        BY Zenon, <2>1 DEF WriteTypeOK, f, o
  <2>5. ASSUME NEW t \in Servers
        PROVE  FaultyAt(t)' = FaultyAt(t)
        BY Zenon, <2>2, <2>4 DEF FaultyAt, Counted, Kinds, Over
  <2>6. CountersAgree'
        BY Zenon, <2>2, <2>5 DEF Counters, CountersAgree
  <2>7. ASSUME NEW p \in Requests
        PROVE  Covered(p)'
    <3>1. Covered(p)
          BY Zenon DEF Counters
    <3>2. CASE p = q
          BY Zenon, <2>2, <2>3, <2>4, <3>2 DEF Covered, Kinds
    <3>3. CASE p # q
          BY Zenon, <2>2, <2>4, <3>1, <3>3 DEF Covered
    <3> QED BY Zenon, <3>2, <3>3
  <2> QED BY Zenon, <2>6, <2>7 DEF Counters
<1>4. \/ UNCHANGED <<req, faults>>
      \/ \E q \in Requests : Count(q) \/ Report(q) \/ Send(q)
      \/ \E q \in Requests, kind \in Kinds : Arrive(q, kind)
      BY Zenon DEF WriteNext, CallStep, GoroutineStep, ServeStep, ManageStep,
         HandlerStep,
             writeVars, Start, ShutdownReceiver, CloseServer, CloseChannel, CancelContext,
             StartGoroutines, ReadServer, Listen, Serve, ServeEnds, Receive, ManageEnds, Flush
<1> QED BY Zenon, <1>1, <1>2, <1>3, <1>4, CountCounts

-----------------------------------------------------------------------------
(* The results of the remote write receiver                                *)

Elements(c) == {c[i] : i \in 1..Len(c)}
Distinct(c) == \A i, j \in 1..Len(c) : c[i] = c[j] => i = j

\* What Append and Tail do to a sequence without repetitions.
LEMMA ElementsAppend ==
    ASSUME NEW S, NEW c \in Seq(S), NEW x \in S
    PROVE  /\ Elements(Append(c, x)) = Elements(c) \union {x}
           /\ Distinct(c) /\ x \notin Elements(c) => Distinct(Append(c, x))
           /\ Append(c, x) \in Seq(S) /\ Len(Append(c, x)) = Len(c) + 1 /\ Len(c) \in Nat
<1>1. /\ Append(c, x) \in Seq(S) /\ Len(Append(c, x)) = Len(c) + 1 /\ Len(c) \in Nat
      /\ \A i \in 1..Len(c) : Append(c, x)[i] = c[i]
      /\ Append(c, x)[Len(c) + 1] = x
      OBVIOUS
<1>2. Elements(Append(c, x)) = Elements(c) \union {x}
      BY <1>1 DEF Elements
<1>3. ASSUME Distinct(c), x \notin Elements(c)
      PROVE  Distinct(Append(c, x))
      BY <1>1, <1>3 DEF Distinct, Elements
<1> QED BY Zenon, <1>1, <1>2, <1>3

\* Tail takes away one element.
LEMMA ElementsTail ==
    ASSUME NEW S, NEW c \in Seq(S), c # <<>>
    PROVE  /\ Head(c) \in S /\ Tail(c) \in Seq(S) /\ Len(Tail(c)) <= Len(c)
           /\ Elements(c) = Elements(Tail(c)) \union {Head(c)}
           /\ Distinct(c) => Distinct(Tail(c)) /\ Head(c) \notin Elements(Tail(c))
<1>1. /\ Len(c) \in Nat /\ Len(c) >= 1 /\ Head(c) = c[1] /\ Len(Tail(c)) = Len(c) - 1
      /\ \A i \in 1..(Len(c) - 1) : Tail(c)[i] = c[i + 1]
      /\ Head(c) \in S /\ Tail(c) \in Seq(S)
      OBVIOUS
<1>2. Elements(c) = Elements(Tail(c)) \union {Head(c)}
  <2>1. ASSUME NEW i \in 1..Len(c)
        PROVE  c[i] \in Elements(Tail(c)) \union {Head(c)}
    <3>1. CASE i = 1
          BY Zenon, <1>1, <3>1
    <3>2. CASE i # 1
      <4>1. i - 1 \in 1..Len(Tail(c)) /\ Tail(c)[i - 1] = c[i]
            BY <1>1, <3>2
      <4> QED BY Zenon, <4>1 DEF Elements
    <3> QED BY Zenon, <3>1, <3>2
  <2>2. ASSUME NEW i \in 1..Len(Tail(c))
        PROVE  Tail(c)[i] \in Elements(c)
        BY <1>1 DEF Elements
  <2>3. Head(c) \in Elements(c)
        BY <1>1 DEF Elements
  <2> QED BY Zenon, <2>1, <2>2, <2>3 DEF Elements
<1>3. ASSUME Distinct(c)
      PROVE  Distinct(Tail(c)) /\ Head(c) \notin Elements(Tail(c))
      BY <1>1, <1>3 DEF Distinct, Elements
<1> QED BY <1>1, <1>2, <1>3

\* A result that has been sent to the channel and not been passed on.
Held(q, s) == req[q].pc = "accepted" /\ req[q].of = s /\ q \notin consumed \union rejected

\* A server's channel has each of its results once, and none of them is the one
\* that manageServerLifecycle passes on.
Line(s) ==
    /\ Len(chan[s]) <= BufferSize /\ Distinct(chan[s])
    /\ \A q \in Elements(chan[s]) \union manage[s].item : Held(q, s)
    /\ Elements(chan[s]) \intersect manage[s].item = {}
    /\ manage[s].item # {} => manage[s].pc = "flush"

PassedOnce ==
    /\ consumed \intersect rejected = {}
    /\ \A q \in consumed \union rejected : req[q].pc = "accepted"

\* Where the result of a request is that was answered with success.
Kept(q) ==
    req[q].pc = "accepted" =>
        q \in consumed \union rejected
                \union manage[req[q].of].item \union Elements(chan[req[q].of])
NoneLost == \A q \in Requests : Kept(q)

Results == (\A s \in Servers : Line(s)) /\ PassedOnce /\ NoneLost

\* The types of what a server holds.
LEMMA LineTypes ==
    ASSUME WriteTypeOK, NEW s \in Servers
    PROVE  /\ chan[s] \in Seq(Requests) /\ Elements(chan[s]) \subseteq Requests
           /\ manage[s].item \subseteq Requests
<1>1. chan[s] \in Seq(Requests) /\ manage[s] \in ManageStates
      BY Zenon DEF WriteTypeOK
<1> QED BY <1>1 DEF Elements, ManageStates

\* A handler's send adds its result to the channel, or panics.
LEMMA SendKeeps ==
    ASSUME WriteTypeOK, Lifecycle, Results, NEW q \in Requests, Send(q)
    PROVE  Results'
<1>0. PICK s : s = req[q].of
      BY Zenon
<1>1. /\ req[q].pc = "send" /\ s \in Servers /\ UNCHANGED <<manage, consumed, rejected>>
      /\ \/ req' = Ended(q, "panicked") /\ chan' = chan
         \/ /\ req' = Ended(q, "accepted") /\ Len(chan[s]) < BufferSize
            /\ chan' = [chan EXCEPT ![s] = Append(@, q)]
      BY Zenon, <1>0 DEF Send, outVars, Lifecycle
<1>2. /\ \A p \in Requests : p # q => req'[p] = req[p]
      /\ req'[q].of = s
      /\ \/ req'[q].pc = "panicked" /\ chan' = chan
         \/ /\ req'[q].pc = "accepted" /\ Len(chan[s]) < BufferSize
            /\ chan'[s] = Append(chan[s], q) /\ \A t \in Servers \ {s} : chan'[t] = chan[t]
      BY <1>0, <1>1 DEF Ended, WriteTypeOK, RequestStates
<1>3. /\ q \notin consumed \union rejected
      /\ \A t \in Servers : q \notin Elements(chan[t]) \union manage[t].item
      BY Zenon, <1>1 DEF Results, PassedOnce, Line, Held
<1>4. consumed \subseteq Requests /\ rejected \subseteq Requests
      BY Zenon DEF WriteTypeOK
<1>5. ASSUME NEW t \in Servers, chan'[t] = chan[t]
      PROVE  Line(t)'
      BY <1>1, <1>2, <1>3, <1>5, LineTypes DEF Results, Line, Held
<1>6. PassedOnce'
      BY <1>1, <1>2, <1>3, <1>4 DEF Results, PassedOnce
<1>7. CASE req'[q].pc = "panicked"
  <2>1. chan' = chan
        BY Zenon, <1>2, <1>7
  <2>2. \A t \in Servers : Line(t)'
        BY Zenon, <1>5, <2>1
  <2>3. NoneLost'
        BY Zenon, <1>1, <1>2, <1>7, <2>1 DEF Results, NoneLost, Kept
  <2> QED BY Zenon, <1>6, <2>2, <2>3 DEF Results
<1>8. CASE req'[q].pc = "accepted"
  <2>1. /\ chan'[s] = Append(chan[s], q) /\ Len(chan[s]) < BufferSize
        /\ \A t \in Servers \ {s} : chan'[t] = chan[t]
        BY Zenon, <1>2, <1>8
  <2>2. /\ Elements(chan'[s]) = Elements(chan[s]) \union {q} /\ Distinct(chan'[s])
        /\ Len(chan'[s]) <= BufferSize
    <3>1. chan[s] \in Seq(Requests) /\ Distinct(chan[s])
          BY Zenon, <1>1, LineTypes DEF Results, Line
    <3>2. Len(chan'[s]) = Len(chan[s]) + 1 /\ Len(chan[s]) \in Nat
          BY <2>1, <3>1, ElementsAppend
    <3>3. \A n \in Nat : n < BufferSize => n + 1 <= BufferSize
          BY WriteAssumption
    <3>4. Len(chan'[s]) <= BufferSize
          BY Zenon, <2>1, <3>2, <3>3
    <3> QED BY <1>1, <1>3, <2>1, <3>1, <3>4, ElementsAppend
  <2>3. Line(s)'
        BY <1>1, <1>2, <1>3, <1>8, <2>2, LineTypes DEF Results, Line, Held
  <2>4. \A t \in Servers : Line(t)'
        BY Zenon, <1>5, <2>1, <2>3
  <2>5. ASSUME NEW p \in Requests
        PROVE  Kept(p)'
    <3>1. CASE p = q
          BY Zenon, <1>2, <2>2, <3>1 DEF Kept
    <3>2. CASE p # q
      <4>1. Kept(p) /\ req'[p] = req[p] /\ (req[p].pc = "accepted" => req[p].of \in Servers)
            BY Zenon, <1>2, <3>2 DEF Results, NoneLost, Lifecycle
      <4> QED BY Zenon, <1>1, <2>1, <2>2, <4>1 DEF Kept
    <3> QED BY Zenon, <3>1, <3>2
  <2> QED BY Zenon, <1>6, <2>4, <2>5 DEF Results, NoneLost
<1> QED BY Zenon, <1>2, <1>7, <1>8

\* The goroutine takes a result from the channel and passes it on.
LEMMA ManageKeeps ==
    ASSUME WriteTypeOK, Lifecycle, Results, NEW s \in Servers, Receive(s) \/ Flush(s)
    PROVE  Results'
<1>1. CASE Receive(s)
  <2>1. /\ manage[s].pc = "select" /\ chan[s] # <<>>
        /\ UNCHANGED <<req, consumed, rejected>>
        BY <1>1, Zenon DEF Receive, outVars
  <2>2. /\ manage'[s].pc = "flush" /\ manage'[s].item = {Head(chan[s])}
        /\ chan'[s] = Tail(chan[s])
        /\ \A t \in Servers \ {s} : manage'[t] = manage[t] /\ chan'[t] = chan[t]
        BY Zenon, <1>1 DEF Receive, WriteTypeOK
  <2>3. /\ Elements(chan[s]) = Elements(chan'[s]) \union {Head(chan[s])}
        /\ Distinct(chan'[s]) /\ Head(chan[s]) \notin Elements(chan'[s])
        /\ Len(chan'[s]) <= BufferSize
    <3>1. chan[s] \in Seq(Requests) /\ Distinct(chan[s]) /\ Len(chan[s]) <= BufferSize
          BY Zenon, LineTypes DEF Results, Line
    <3>2. Len(chan'[s]) <= Len(chan[s]) /\ Len(chan'[s]) \in Nat /\ Len(chan[s]) \in Nat
          BY <2>1, <2>2, <3>1, ElementsTail
    <3>3. Len(chan'[s]) <= BufferSize
          BY <3>1, <3>2, WriteAssumption
    <3> QED BY <2>1, <2>2, <3>1, <3>3, ElementsTail
  <2>4. manage[s].item = {}
        BY Zenon, <2>1 DEF Results, Line
  <2>5. Line(s)'
        BY <2>1, <2>2, <2>3 DEF Results, Line, Held
  <2>6. ASSUME NEW t \in Servers, t # s
        PROVE  Line(t)'
        BY <2>1, <2>2, <2>6 DEF Results, Line, Held
  <2>7. PassedOnce'
        BY Zenon, <2>1 DEF Results, PassedOnce
  <2>8. ASSUME NEW q \in Requests
        PROVE  Kept(q)'
    <3>1. Kept(q) /\ (req[q].pc = "accepted" => req[q].of \in Servers)
          BY Zenon DEF Results, NoneLost, Lifecycle
    <3> QED BY Zenon, <2>1, <2>2, <2>3, <2>4, <3>1 DEF Kept
  <2> QED BY Zenon, <2>5, <2>6, <2>7, <2>8 DEF Results, NoneLost
<1>2. CASE Flush(s)
  <2>1. /\ manage[s].pc = "flush" /\ UNCHANGED <<req, chan>>
        /\ \/ consumed' = consumed \union manage[s].item /\ rejected' = rejected
           \/ rejected' = rejected \union manage[s].item /\ consumed' = consumed
        BY <1>2, Zenon DEF Flush
  <2>2. manage'[s].item = {} /\ \A t \in Servers \ {s} : manage'[t] = manage[t]
        BY <1>2 DEF Flush, WriteTypeOK
  <2>3. consumed' \union rejected' = consumed \union rejected \union manage[s].item
        BY Zenon, <2>1
  <2>4. /\ \A q \in manage[s].item : Held(q, s)
        /\ Elements(chan[s]) \intersect manage[s].item = {}
        BY Zenon DEF Results, Line
  <2>5. Line(s)'
        BY <2>1, <2>2, <2>3, <2>4 DEF Results, Line, Held
  <2>6. ASSUME NEW t \in Servers, t # s
        PROVE  Line(t)'
        BY <2>1, <2>2, <2>3, <2>4, <2>6 DEF Results, Line, Held
  <2>7. PassedOnce'
        BY Zenon, <2>1, <2>3, <2>4 DEF Results, PassedOnce, Held
  <2>8. ASSUME NEW q \in Requests
        PROVE  Kept(q)'
    <3>1. Kept(q) /\ (req[q].pc = "accepted" => req[q].of \in Servers)
          BY Zenon DEF Results, NoneLost, Lifecycle
    <3> QED BY Zenon, <2>1, <2>2, <2>3, <3>1 DEF Kept
  <2> QED BY Zenon, <2>5, <2>6, <2>7, <2>8 DEF Results, NoneLost
<1> QED BY Zenon, <1>1, <1>2

\* A step that neither answers a request nor moves a result keeps the results.
LEMMA OthersKeep ==
    ASSUME WriteTypeOK, Lifecycle, Results, UNCHANGED <<chan, consumed, rejected>>,
           \A s \in Servers : /\ manage'[s].item = manage[s].item
                              /\ manage[s].item # {} => manage'[s].pc = manage[s].pc,
           \A q \in Requests : /\ (req'[q].pc = "accepted") <=> (req[q].pc = "accepted")
                               /\ req[q].pc = "accepted" => req'[q].of = req[q].of
    PROVE  Results'
<1>1. ASSUME NEW s \in Servers
      PROVE  Line(s)'
      BY LineTypes DEF Results, Line, Held
<1>2. PassedOnce'
      BY Zenon DEF Results, PassedOnce, WriteTypeOK
<1>3. ASSUME NEW q \in Requests
      PROVE  Kept(q)'
      BY Zenon DEF Results, NoneLost, Kept, Lifecycle
<1> QED BY Zenon, <1>1, <1>2, <1>3 DEF Results, NoneLost

\* The results, step by step.
LEMMA ResultsStep ==
    ASSUME WriteTypeOK, Lifecycle, Results, [WriteNext]_writeVars
    PROVE  Results'
<1>1. CASE UNCHANGED <<manage, chan, req, consumed, rejected>>
      BY Zenon, <1>1, OthersKeep
<1>2. CASE StartGoroutines
  <2>1. /\ UNCHANGED <<chan, req, consumed, rejected>> /\ call = "start"
        /\ manage' = [manage EXCEPT ![starts + 1].pc = "select"]
        BY <1>2, Zenon DEF StartGoroutines, outVars
  <2>2. ASSUME NEW s \in Servers
        PROVE  /\ manage'[s].item = manage[s].item
               /\ s # starts + 1 => manage'[s].pc = manage[s].pc
        BY Zenon, <2>1 DEF WriteTypeOK, ManageStates
  <2>3. ASSUME NEW s \in Servers, manage[s].item # {}
        PROVE  s # starts + 1
    <3>1. s <= starts
          BY Zenon, <2>3 DEF Results, Line, Lifecycle
    <3> QED BY <3>1, WriteAssumption DEF WriteTypeOK, Servers
  <2> QED BY Zenon, <2>1, <2>2, <2>3, OthersKeep
<1>3. ASSUME NEW s \in Servers, ManageEnds(s)
      PROVE  Results'
  <2>1. /\ UNCHANGED <<chan, req, consumed, rejected>> /\ manage[s].pc = "select"
        BY <1>3, Zenon DEF ManageEnds, outVars
  <2>2. ASSUME NEW t \in Servers
        PROVE  /\ manage'[t].item = manage[t].item
               /\ t # s => manage'[t].pc = manage[t].pc
        BY Zenon, <1>3 DEF ManageEnds, WriteTypeOK, ManageStates
  <2>3. manage[s].item = {}
        BY Zenon, <2>1 DEF Results, Line
  <2> QED BY Zenon, <2>1, <2>2, <2>3, OthersKeep
<1>4. ASSUME NEW q \in Requests, Count(q) \/ Report(q)
      PROVE  Results'
  <2>1. UNCHANGED <<manage, chan, consumed, rejected>>
        BY <1>4, Zenon DEF Count, Report, outVars
  <2>2. ASSUME NEW p \in Requests
        PROVE  /\ (req'[p].pc = "accepted") <=> (req[p].pc = "accepted")
               /\ req[p].pc = "accepted" => req'[p].of = req[p].of
        BY <1>4 DEF Count, Report, Ended, WriteTypeOK, RequestStates
  <2> QED BY Zenon, <2>1, <2>2, OthersKeep
<1>5. ASSUME NEW q \in Requests, NEW kind \in Kinds, Arrive(q, kind)
      PROVE  Results'
  <2>1. req[q].pc = "idle" /\ UNCHANGED <<manage, chan, consumed, rejected>>
        BY Zenon, <1>5 DEF Arrive, outVars
  <2>2. ASSUME NEW p \in Requests
        PROVE  /\ (req'[p].pc = "accepted") <=> (req[p].pc = "accepted")
               /\ req[p].pc = "accepted" => req'[p].of = req[p].of
        BY <1>5, <2>1 DEF Arrive, WriteTypeOK, Kinds
  <2> QED BY Zenon, <2>1, <2>2, OthersKeep
<1>6. \/ UNCHANGED <<manage, chan, req, consumed, rejected>> \/ StartGoroutines
      \/ \E s \in Servers : Receive(s) \/ ManageEnds(s) \/ Flush(s)
      \/ \E q \in Requests : Count(q) \/ Report(q) \/ Send(q)
      \/ \E q \in Requests, kind \in Kinds : Arrive(q, kind)
      BY Zenon DEF WriteNext, CallStep, GoroutineStep, ServeStep, ManageStep,
         HandlerStep,
             writeVars, outVars, Start, ShutdownReceiver, CloseServer, CloseChannel,
             CancelContext, ReadServer, Listen, Serve, ServeEnds
<1> QED BY Zenon, <1>1, <1>2, <1>3, <1>4, <1>5, <1>6, SendKeeps, ManageKeeps

-----------------------------------------------------------------------------
\* The invariant: types, life cycle, counters and results.
WriteInv == WriteTypeOK /\ Lifecycle /\ Counters /\ Results

\* The invariant holds before the first Start.
LEMMA WriteInitInv == WriteInit => WriteInv
<1> SUFFICES ASSUME WriteInit
             PROVE  WriteInv
    BY Zenon
<1>1. WriteTypeOK
  <2>1. 0 \in 0..MaxStarts /\ "" \in CallStates /\ "idle" \in HandlerStates
        BY WriteAssumption DEF CallStates, HandlerStates
  <2>2. /\ [pc |-> "none", of |-> 0] \in ServeStates
        /\ [pc |-> "none", item |-> {}] \in ManageStates
        BY Zenon, <2>1 DEF ServeStates, ManageStates
  <2>3. NoRequest \in RequestStates
        BY Zenon, <2>1 DEF RequestStates, NoRequest
  <2>4. <<>> \in Seq(Requests)
        OBVIOUS
  <2>5. /\ serve \in [Servers -> ServeStates] /\ manage \in [Servers -> ManageStates]
        /\ chan \in [Servers -> Seq(Requests)] /\ faults \in [Servers -> Nat]
        /\ req \in [Requests -> RequestStates]
        BY Zenon, <2>2, <2>3, <2>4 DEF WriteInit
  <2> QED BY Zenon, <2>1, <2>5 DEF WriteInit, WriteTypeOK
<1>2. Lifecycle
      BY Zenon DEF WriteInit, Lifecycle, NoRequest
<1>3. Counters
  <2>1. ASSUME NEW s \in Servers
        PROVE  FaultyAt(s) = {}
        BY Zenon DEF WriteInit, FaultyAt, NoRequest, Counted, Over
  <2>2. CountersAgree
        BY <2>1, FS_EmptySet, Zenon DEF WriteInit, CountersAgree
  <2>3. \A q \in Requests : Covered(q)
        BY Zenon DEF WriteInit, Covered, NoRequest, Kinds
  <2> QED BY Zenon, <2>2, <2>3 DEF Counters
<1>4. Results
  <2>1. ASSUME NEW s \in Servers
        PROVE  Line(s)
    <3>1. chan[s] = <<>> /\ manage[s].item = {} /\ Len(chan[s]) = 0
          BY Zenon DEF WriteInit
    <3>2. Elements(chan[s]) = {} /\ Distinct(chan[s])
          BY <3>1 DEF Elements, Distinct
    <3> QED BY <3>1, <3>2, WriteAssumption DEF Line
  <2>2. PassedOnce /\ NoneLost
        BY Zenon DEF WriteInit, PassedOnce, NoneLost, Kept, NoRequest
  <2> QED BY Zenon, <2>1, <2>2 DEF Results
<1> QED BY Zenon, <1>1, <1>2, <1>3, <1>4 DEF WriteInv

\* The inductive invariant of the remote write receiver: the life cycle, the
\* counters and the results.
THEOREM WriteInvariant == WriteSpec => []WriteInv
<1>1. WriteInv /\ [WriteNext]_writeVars => WriteInv'
      BY Zenon, LifecycleStep, CountersStep, ResultsStep DEF WriteInv
<1> QED BY <1>1, WriteInitInv, PTL DEF WriteSpec

\* The types of the remote write receiver's variables.
THEOREM WriteTypes == WriteSpec => []WriteTypeOK
BY WriteInvariant, PTL DEF WriteInv

\* The counter in a result covers the request's own faults and those of the
\* requests that were over before it came, and nothing else but requests of this
\* server: the parser adds before it reads, atomically, also to what is refused.
THEOREM WriteCountsCover == WriteSpec => []CountsCover
<1>1. WriteInv => CountsCover
  <2> SUFFICES ASSUME WriteInv, NEW q \in Requests, req[q].pc = "send"
               PROVE  /\ req[q].reported >= req[q].floor + req[q].faults
                      /\ req[q].reported <= FaultsOf({p \in Requests : req[p].of = req[q].of})
      BY Zenon DEF CountsCover
  <2> DEFINE s == req[q].of
             F == {p \in {p \in Requests : req[p].of = s} : req[p].faults = 1}
  <2>1. /\ req[q].floor + req[q].faults <= req[q].reported
        /\ req[q].reported <= faults[s] /\ s \in Servers
        BY Zenon DEF WriteInv, Counters, Covered, Lifecycle
  <2>2. faults[s] = Cardinality(FaultyAt(s)) /\ faults[s] \in Nat
        BY Zenon, <2>1 DEF WriteInv, Counters, CountersAgree, WriteTypeOK
  <2>3. IsFiniteSet(F) /\ FaultyAt(s) \subseteq F
    <3>1. F \in SUBSET Requests
          BY Zenon
    <3>2. FaultyAt(s) \subseteq F
          BY Zenon DEF FaultyAt
    <3> QED BY Zenon, <3>1, <3>2, RequestsFinite, FS_Subset
  <2>4. Cardinality(FaultyAt(s)) <= Cardinality(F) /\ Cardinality(F) \in Nat
        BY Zenon, <2>3, FS_Subset, FS_CardinalityType
  <2>5. req[q].reported \in Nat /\ req[q].floor \in Nat /\ req[q].faults \in Nat
        BY Zenon, RequestNumbers DEF WriteInv
  <2> QED BY <2>1, <2>2, <2>4, <2>5 DEF FaultsOf
<1> QED BY <1>1, WriteInvariant, PTL

\* A result of a request that was answered with success is in the channel, with
\* the goroutine or with the next consumer, though Shutdown closes the channel
\* and the goroutine may end at any time.
THEOREM WriteNoneLost == WriteSpec => []NoneLost
BY WriteInvariant, PTL DEF WriteInv, Results

\* No result is in the channel twice, or also with the goroutine or the next
\* consumer; the channel keeps its bound; and the consumer does not both accept
\* and refuse a result.
THEOREM WritePassedOnce == WriteSpec => [](PassedOnce /\ \A s \in Servers : Line(s))
BY WriteInvariant, PTL DEF WriteInv, Results
=============================================================================
