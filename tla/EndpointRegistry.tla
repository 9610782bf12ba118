--------------------------- MODULE EndpointRegistry ---------------------------
(***************************************************************************)
(* What the correlation store promises about endpoints, without maps,      *)
(* mutexes or goroutines: per endpoint it knows the last reported event.   *)
(* An endpoint may be asked for before its first event, and only one whose *)
(* last event is its removal is ever forgotten.                            *)
(***************************************************************************)
CONSTANTS Endpoints, Observers, EventStates, NoType

VARIABLE reg   \* reg[e]: the last event of e, NoEvent, or Forgotten

NoEvent == [obs |-> NoType, state |-> ""]
Forgotten == [obs |-> NoType, state |-> "absent"]

Init == reg = [e \in Endpoints |-> Forgotten]

\* An observer reports an event of an endpoint.
Record(e, o, s) == reg' = [reg EXCEPT ![e] = [obs |-> o, state |-> s]]

\* An endpoint is asked for that the registry does not know.
Touch(e) == reg[e] = Forgotten /\ reg' = [reg EXCEPT ![e] = NoEvent]

\* An endpoint that is gone is dropped.
Forget(e) == reg[e].state = "removed" /\ reg' = [reg EXCEPT ![e] = Forgotten]

Next ==
    \E e \in Endpoints :
        \/ \E o \in Observers, s \in EventStates : Record(e, o, s)
        \/ Touch(e)
        \/ Forget(e)

Spec == Init /\ [][Next]_reg
===============================================================================
