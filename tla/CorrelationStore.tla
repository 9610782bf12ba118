-------------------------- MODULE CorrelationStore --------------------------
(***************************************************************************)
(* The correlation store of the discovery receiver                         *)
(* (internal/receiver/discoveryreceiver/correlation.go): a two-level       *)
(* synchronised map endpoint -> receiver -> correlation, written by the    *)
(* observers' notifications (UpdateEndpoint), read and extended by the     *)
(* metric and statement evaluators (GetOrCreate), and pruned by a reaping  *)
(* loop.  Every endpoint and every receiver has a mutex of its own.        *)
(*                                                                         *)
(* An inner map is a pointer in the code: a GetOrCreate that has fetched   *)
(* it keeps using it after the reaper has dropped it from the outer map.   *)
(* Inner maps are therefore numbered per endpoint: maps[e][n] is the n-th  *)
(* inner map made for e, cur[e] the one the outer map holds (0: none).     *)
(***************************************************************************)
EXTENDS Naturals

CONSTANTS Endpoints,  \* endpoint IDs
          Receivers,  \* receiver IDs
          Observers,  \* observer IDs; each has one notifying goroutine
          Getters,    \* goroutines of the evaluators that call GetOrCreate
          NoType,     \* discovery.NoType, the ID that stands for no component
          Nobody,     \* the holder of a free mutex
          MaxMaps,    \* bound: inner maps made per endpoint
          MaxEvents   \* bound: endpoint events in one behaviour

ASSUME StoreAssumption ==
    /\ Endpoints # {} /\ Receivers # {}
    /\ NoType \notin Receivers /\ NoType \notin Observers
    /\ Observers \intersect Getters = {}
    /\ Nobody \notin Observers \union Getters
    /\ MaxMaps \in Nat /\ MaxEvents \in Nat

VARIABLES cur,       \* cur[e]: the inner map the outer map holds for e, or 0
          made,      \* made[e]: inner maps made for e so far
          maps,      \* maps[e][n][k]: the correlation under key k
          epLock,    \* holder of each endpoint's mutex
          recLock,   \* holder of each receiver's mutex
          up,        \* up[o]: the UpdateEndpoint call of observer o
          get,       \* get[g]: the GetOrCreate call of goroutine g
          reaper,    \* the reaping loop
          sentinel,  \* items in the channel that ends the loop
          events,    \* endpoint events so far
          last       \* history: the last completed UpdateEndpoint of e

vars == <<cur, made, maps, epLock, recLock, up, get, reaper, sentinel, events, last>>

-----------------------------------------------------------------------------
EndpointStates == {"added", "changed", "removed"}

Keys == Receivers \union {NoType}

\* A correlation.  The receiverID field is the key it is stored under; of
\* lastUpdated only whether it lies within the ttl is kept.
Correlations == [obs: Observers \union {NoType},
                 state: EndpointStates \union {"", "absent"},
                 age: {"fresh", "old"}]

\* No correlation is stored under the key.
Absent == [obs |-> NoType, state |-> "absent", age |-> "old"]

\* The zero value made before any event of the endpoint was seen.
newCorrelation == [obs |-> NoType, state |-> "", age |-> "old"]

\* The observer and state of a correlation, and the value before any event.
EventOf(c) == [obs |-> c.obs, state |-> c.state]
NoEvent == [obs |-> NoType, state |-> ""]

NoTypeOnly(c) == [k \in Keys |-> IF k = NoType THEN c ELSE Absent]

Present(c) == c.state # "absent"

Stored(e, n) == {k \in Keys : Present(maps[e][n][k])}

AnyEndpoint == CHOOSE e \in Endpoints : TRUE
AnyReceiver == CHOOSE r \in Receivers : TRUE

IdleUpdate == [pc |-> "idle", e |-> AnyEndpoint, state |-> "added",
               n |-> 0, todo |-> {}, seen |-> {}, key |-> NoType]
IdleGet == [pc |-> "idle", e |-> AnyEndpoint, r |-> AnyReceiver, n |-> 0,
            copy |-> Absent]
IdleReap == [pc |-> "new", todo |-> {}, e |-> AnyEndpoint, n |-> 0]

Init ==
    /\ cur = [e \in Endpoints |-> 0]
    /\ made = [e \in Endpoints |-> 0]
    /\ maps = [e \in Endpoints |-> [n \in 1..MaxMaps |-> [k \in Keys |-> Absent]]]
    /\ epLock = [e \in Endpoints |-> Nobody]
    /\ recLock = [r \in Receivers |-> Nobody]
    /\ up = [o \in Observers |-> IdleUpdate]
    /\ get = [g \in Getters |-> IdleGet]
    /\ reaper = IdleReap
    /\ sentinel = 0
    /\ events = 0
    /\ last = [e \in Endpoints |-> NoEvent]

\* LoadOrStore of a new inner map for e that holds only a NoType correlation.
StoreNewMap(e, c) ==
    /\ made[e] < MaxMaps
    /\ made' = [made EXCEPT ![e] = @ + 1]
    /\ cur' = [cur EXCEPT ![e] = made[e] + 1]
    /\ maps' = [maps EXCEPT ![e][made[e] + 1] = NoTypeOnly(c)]

\* The correlation under key k of the n-th map of e becomes c.
Put(e, n, k, c) == maps' = [maps EXCEPT ![e][n][k] = c]

-----------------------------------------------------------------------------
(* UpdateEndpoint: an observer reports an event of an endpoint.            *)

\* The observer's goroutine enters UpdateEndpoint.
UpdateCall(o, e, s) ==
    /\ up[o].pc = "idle" /\ events < MaxEvents
    /\ up' = [up EXCEPT ![o] = [IdleUpdate EXCEPT !.pc = "lock", !.e = e, !.state = s]]
    /\ events' = events + 1
    /\ UNCHANGED <<cur, made, maps, epLock, recLock, get, reaper, sentinel, last>>

\* First event of the endpoint: store the NoType correlation and return.
\* Nobody else can reach the new map before the endpoint's mutex is released.
UpdateNew(o) ==
    LET e == up[o].e IN
    /\ up[o].pc = "lock" /\ epLock[e] = Nobody /\ cur[e] = 0
    /\ StoreNewMap(e, [obs |-> o, state |-> up[o].state, age |-> "fresh"])
    /\ last' = [last EXCEPT ![e] = [obs |-> o, state |-> up[o].state]]
    /\ up' = [up EXCEPT ![o] = IdleUpdate]
    /\ UNCHANGED <<epLock, recLock, get, reaper, sentinel, events>>

\* The endpoint is known: start ranging over the correlations of its map.
UpdateKnown(o) ==
    LET e == up[o].e IN
    /\ up[o].pc = "lock" /\ epLock[e] = Nobody /\ cur[e] # 0
    /\ epLock' = [epLock EXCEPT ![e] = o]
    /\ up' = [up EXCEPT ![o] = [@ EXCEPT !.pc = "range", !.n = cur[e],
                                         !.todo = Stored(e, cur[e]), !.seen = {}]]
    /\ UNCHANGED <<cur, made, maps, recLock, get, reaper, sentinel, events, last>>

\* The range function, in two steps as its assignments are not one: a reader
\* that holds only the receiver's mutex can copy the entry between them.
\* sync.Map.Range visits no key twice, every key there when it began, and
\* may or may not visit one stored since.
RangeObserver(o, k) ==
    LET e == up[o].e IN
    /\ up[o].pc = "range" /\ k \in Stored(e, up[o].n) \ up[o].seen
    /\ Put(e, up[o].n, k, [maps[e][up[o].n][k] EXCEPT !.obs = o])
    /\ up' = [up EXCEPT ![o] = [@ EXCEPT !.pc = "half", !.key = k]]
    /\ UNCHANGED <<cur, made, epLock, recLock, get, reaper, sentinel, events, last>>

RangeState(o) ==
    LET e == up[o].e
        k == up[o].key IN
    /\ up[o].pc = "half"
    /\ Put(e, up[o].n, k, [maps[e][up[o].n][k] EXCEPT !.state = up[o].state, !.age = "fresh"])
    /\ up' = [up EXCEPT ![o] = [@ EXCEPT !.pc = "range", !.seen = up[o].seen \union {k}]]
    /\ UNCHANGED <<cur, made, epLock, recLock, get, reaper, sentinel, events, last>>

\* Every entry is visited: release the endpoint's mutex and return.
UpdateReturn(o) ==
    LET e == up[o].e IN
    /\ up[o].pc = "range" /\ up[o].todo \subseteq up[o].seen
    /\ epLock' = [epLock EXCEPT ![e] = Nobody]
    /\ last' = [last EXCEPT ![e] = [obs |-> o, state |-> up[o].state]]
    /\ up' = [up EXCEPT ![o] = IdleUpdate]
    /\ UNCHANGED <<cur, made, maps, recLock, get, reaper, sentinel, events>>

UpdateEndpoint(o) ==
    \/ \E e \in Endpoints, s \in EndpointStates : UpdateCall(o, e, s)
    \/ UpdateNew(o)
    \/ UpdateKnown(o)
    \/ \E k \in Keys : RangeObserver(o, k)
    \/ RangeState(o)
    \/ UpdateReturn(o)

-----------------------------------------------------------------------------
(* GetOrCreate: an evaluator looks up the correlation of a receiver.       *)

GetCall(g, r, e) ==
    /\ get[g].pc = "idle"
    /\ get' = [get EXCEPT ![g] = [IdleGet EXCEPT !.pc = "lock", !.e = e, !.r = r]]
    /\ UNCHANGED <<cur, made, maps, epLock, recLock, up, reaper, sentinel, events, last>>

\* Take the endpoint's mutex and fetch its inner map, making one with the
\* zero correlation when no event of the endpoint has been seen.
GetMap(g) ==
    LET e == get[g].e IN
    /\ get[g].pc = "lock" /\ epLock[e] = Nobody
    /\ epLock' = [epLock EXCEPT ![e] = g]
    /\ \/ cur[e] # 0 /\ UNCHANGED <<cur, made, maps>>
       \/ cur[e] = 0 /\ StoreNewMap(e, newCorrelation)
    /\ get' = [get EXCEPT ![g] = [@ EXCEPT !.pc = "receiver", !.n = cur'[e]]]
    /\ UNCHANGED <<recLock, up, reaper, sentinel, events, last>>

\* Take the receiver's mutex, then release the endpoint's.
GetLockReceiver(g) ==
    /\ get[g].pc = "receiver" /\ recLock[get[g].r] = Nobody
    /\ recLock' = [recLock EXCEPT ![get[g].r] = g]
    /\ epLock' = [epLock EXCEPT ![get[g].e] = Nobody]
    /\ get' = [get EXCEPT ![g] = [@ EXCEPT !.pc = "load"]]
    /\ UNCHANGED <<cur, made, maps, up, reaper, sentinel, events, last>>

\* Mutant: the receiver's mutex is not released on the early return.
GetExistingLeaks(g) ==
    LET c == get[g] IN
    /\ c.pc = "load" /\ Present(maps[c.e][c.n][c.r])
    /\ get' = [get EXCEPT ![g] = IdleGet]
    /\ UNCHANGED <<cur, made, maps, epLock, recLock, up, reaper, sentinel, events, last>>

\* The receiver has a correlation: return a copy of it.
GetExisting(g) ==
    LET c == get[g] IN
    /\ c.pc = "load" /\ Present(maps[c.e][c.n][c.r])
    /\ recLock' = [recLock EXCEPT ![c.r] = Nobody]
    /\ get' = [get EXCEPT ![g] = IdleGet]
    /\ UNCHANGED <<cur, made, maps, epLock, up, reaper, sentinel, events, last>>

\* Mutant: an existing correlation is copied from the NoType one again.
GetCopyAlways(g) ==
    LET c == get[g] IN
    /\ c.pc = "load"
    /\ get' = [get EXCEPT ![g] = [@ EXCEPT !.pc = "store", !.copy = maps[c.e][c.n][NoType]]]
    /\ UNCHANGED <<cur, made, maps, epLock, recLock, up, reaper, sentinel, events, last>>

\* It has none: copy the NoType correlation ...
GetCopy(g) ==
    LET c == get[g] IN
    /\ c.pc = "load" /\ ~Present(maps[c.e][c.n][c.r])
    /\ get' = [get EXCEPT ![g] = [@ EXCEPT !.pc = "store", !.copy = maps[c.e][c.n][NoType]]]
    /\ UNCHANGED <<cur, made, maps, epLock, recLock, up, reaper, sentinel, events, last>>

\* ... and store the copy under the receiver.
GetStore(g) ==
    LET c == get[g] IN
    /\ c.pc = "store"
    /\ Put(c.e, c.n, c.r, c.copy)
    /\ recLock' = [recLock EXCEPT ![c.r] = Nobody]
    /\ get' = [get EXCEPT ![g] = IdleGet]
    /\ UNCHANGED <<cur, made, epLock, up, reaper, sentinel, events, last>>

GetOrCreate(g) ==
    \/ \E r \in Receivers, e \in Endpoints : GetCall(g, r, e)
    \/ GetMap(g)
    \/ GetLockReceiver(g)
    \/ GetExisting(g)
    \/ GetCopy(g)
    \/ GetStore(g)

-----------------------------------------------------------------------------
(* The reaping loop, and the passing of time it watches.                   *)

Start ==
    /\ reaper.pc = "new"
    /\ reaper' = [reaper EXCEPT !.pc = "select"]
    /\ UNCHANGED <<cur, made, maps, epLock, recLock, up, get, sentinel, events, last>>

\* Stop puts its item in the buffered channel and does not wait for the loop.
Stop ==
    /\ reaper.pc \notin {"new", "ended"} /\ sentinel = 0
    /\ sentinel' = 1
    /\ UNCHANGED <<cur, made, maps, epLock, recLock, up, get, reaper, events, last>>

\* The loop's select takes the sentinel and the loop ends ...
ReapExit ==
    /\ reaper.pc = "select" /\ sentinel = 1
    /\ sentinel' = 0
    /\ reaper' = [IdleReap EXCEPT !.pc = "ended"]
    /\ UNCHANGED <<cur, made, maps, epLock, recLock, up, get, events, last>>

\* ... or it takes a tick, and a sweep over the endpoints begins.
ReapTick ==
    /\ reaper.pc = "select"
    /\ reaper' = [IdleReap EXCEPT !.pc = "range", !.todo = {e \in Endpoints : cur[e] # 0}]
    /\ UNCHANGED <<cur, made, maps, epLock, recLock, up, get, sentinel, events, last>>

\* Range hands the reaper an endpoint and its map; it has yet to take the mutex.
ReapVisit(e) ==
    /\ reaper.pc = "range" /\ e \in reaper.todo
    /\ reaper' = [reaper EXCEPT !.pc = "lock", !.todo = @ \ {e}, !.e = e, !.n = cur[e]]
    /\ UNCHANGED <<cur, made, maps, epLock, recLock, up, get, sentinel, events, last>>

\* Mutant: the endpoint's mutex is not taken.
ReapUnlocked ==
    LET e == reaper.e
        c == maps[e][reaper.n][NoType] IN
    /\ reaper.pc = "lock"
    /\ cur' = IF c.state = "removed" /\ c.age = "old" THEN [cur EXCEPT ![e] = 0] ELSE cur
    /\ reaper' = [reaper EXCEPT !.pc = "range"]
    /\ UNCHANGED <<made, maps, epLock, recLock, up, get, sentinel, events, last>>

\* Mutant: any endpoint past the ttl is dropped.
ReapAnyState ==
    LET e == reaper.e IN
    /\ reaper.pc = "lock" /\ epLock[e] = Nobody
    /\ cur' = IF maps[e][reaper.n][NoType].age = "old" THEN [cur EXCEPT ![e] = 0] ELSE cur
    /\ reaper' = [reaper EXCEPT !.pc = "range"]
    /\ UNCHANGED <<made, maps, epLock, recLock, up, get, sentinel, events, last>>

\* Mutant: the comparison with the ttl is the wrong way round.
ReapFreshOnly ==
    LET e == reaper.e
        c == maps[e][reaper.n][NoType] IN
    /\ reaper.pc = "lock" /\ epLock[e] = Nobody
    /\ cur' = IF c.state = "removed" /\ c.age = "fresh" THEN [cur EXCEPT ![e] = 0] ELSE cur
    /\ reaper' = [reaper EXCEPT !.pc = "range"]
    /\ UNCHANGED <<made, maps, epLock, recLock, up, get, sentinel, events, last>>

\* Holding the mutex, drop the endpoint when it is removed and past the ttl.
ReapEndpoint ==
    LET e == reaper.e
        c == maps[e][reaper.n][NoType] IN
    /\ reaper.pc = "lock" /\ epLock[e] = Nobody
    /\ cur' = IF c.state = "removed" /\ c.age = "old" THEN [cur EXCEPT ![e] = 0] ELSE cur
    /\ reaper' = [reaper EXCEPT !.pc = "range"]
    /\ UNCHANGED <<made, maps, epLock, recLock, up, get, sentinel, events, last>>

ReapDone ==
    /\ reaper.pc = "range" /\ reaper.todo = {}
    /\ reaper' = [IdleReap EXCEPT !.pc = "select"]
    /\ UNCHANGED <<cur, made, maps, epLock, recLock, up, get, sentinel, events, last>>

reap ==
    \/ ReapTick
    \/ \E e \in Endpoints : ReapVisit(e)
    \/ ReapEndpoint
    \/ ReapDone

\* The ttl of the endpoint's last update runs out.
Expire(e) ==
    /\ cur[e] # 0 /\ maps[e][cur[e]][NoType].age = "fresh"
    /\ Put(e, cur[e], NoType, [maps[e][cur[e]][NoType] EXCEPT !.age = "old"])
    /\ UNCHANGED <<cur, made, epLock, recLock, up, get, reaper, sentinel, events, last>>

-----------------------------------------------------------------------------
Next ==
    \/ \E o \in Observers : UpdateEndpoint(o)
    \/ \E g \in Getters : GetOrCreate(g)
    \/ Start \/ Stop \/ ReapExit
    \/ reap
    \/ \E e \in Endpoints : Expire(e)

Spec == Init /\ [][Next]_vars

\* Goroutines that can run do run; a Go mutex hands itself over to a goroutine
\* that has waited too long, hence strong fairness where the reaping loop takes
\* the endpoint's mutex and where a receiver's is taken with an endpoint's held;
\* the ticker keeps ticking and the clock keeps running.  A call that has not
\* begun to hold anything need not go on.
Fairness ==
    /\ \A o \in Observers :
          /\ WF_vars(\E k \in Keys : RangeObserver(o, k))
          /\ WF_vars(RangeState(o)) /\ WF_vars(UpdateReturn(o))
    /\ \A g \in Getters :
          /\ SF_vars(GetLockReceiver(g))
          /\ WF_vars(GetExisting(g)) /\ WF_vars(GetCopy(g)) /\ WF_vars(GetStore(g))
    /\ WF_vars(Start) /\ WF_vars(ReapTick) /\ WF_vars(\E e \in Endpoints : ReapVisit(e))
    /\ SF_vars(ReapEndpoint) /\ WF_vars(ReapDone)
    /\ \A e \in Endpoints : WF_vars(Expire(e))

FairSpec == Spec /\ Fairness

-----------------------------------------------------------------------------
(* Properties.                                                             *)

Updates == [pc: {"idle", "lock", "range", "half"}, e: Endpoints,
            state: EndpointStates, n: 0..MaxMaps,
            todo: SUBSET Keys, seen: SUBSET Keys, key: Keys]
Gets == [pc: {"idle", "lock", "receiver", "load", "store"}, e: Endpoints,
         r: Receivers, n: 0..MaxMaps, copy: Correlations]
Reaps == [pc: {"new", "select", "range", "lock", "ended"}, todo: SUBSET Endpoints,
          e: Endpoints, n: 0..MaxMaps]
Events == [obs: Observers \union {NoType}, state: EndpointStates \union {""}]

TypeOK ==
    /\ cur \in [Endpoints -> 0..MaxMaps]
    /\ made \in [Endpoints -> 0..MaxMaps]
    /\ maps \in [Endpoints -> [1..MaxMaps -> [Keys -> Correlations]]]
    /\ epLock \in [Endpoints -> Observers \union Getters \union {Nobody}]
    /\ recLock \in [Receivers -> Getters \union {Nobody}]
    /\ up \in [Observers -> Updates]
    /\ get \in [Getters -> Gets]
    /\ reaper \in Reaps
    /\ sentinel \in 0..1
    /\ events \in 0..MaxEvents
    /\ last \in [Endpoints -> Events]

NoTypeOf(e) == maps[e][cur[e]][NoType]

\* Between two UpdateEndpoint calls the store holds the last reported event of
\* every endpoint, and only an endpoint whose last event is its removal may be
\* gone or be back to the zero correlation, whatever the reaper and concurrent
\* GetOrCreate calls do (correlation.go:99-152, 195-209).
LastEventKept ==
    \A e \in Endpoints :
        epLock[e] \notin Observers =>
            \/ cur[e] # 0 /\ EventOf(NoTypeOf(e)) = last[e]
            \/ cur[e] = 0 /\ (last[e] = NoEvent \/ last[e].state = "removed")
            \/ cur[e] # 0 /\ last[e].state = "removed" /\ NoTypeOf(e) = newCorrelation

\* While UpdateEndpoint ranges over an endpoint's correlations, the ones it has
\* visited keep the event it wrote: no concurrent GetOrCreate puts an older copy
\* back (correlation.go:114-122 against 137-150).
RangeWritesStick ==
    \A o \in Observers :
        up[o].pc \in {"range", "half"} =>
            \A k \in up[o].seen :
                EventOf(maps[up[o].e][up[o].n][k]) = [obs |-> o, state |-> up[o].state]

\* A correlation, once stored, is never dropped from its map, and its event
\* changes only by an UpdateEndpoint that holds the endpoint's mutex: two
\* GetOrCreate calls for one receiver never store twice (correlation.go:137-150).
CorrelationStoredOnce ==
    [][\A e \in Endpoints : \A n \in 1..made[e] : \A k \in Keys :
          Present(maps[e][n][k]) /\ EventOf(maps'[e][n][k]) # EventOf(maps[e][n][k])
              => Present(maps'[e][n][k]) /\ epLock[e] \in Observers]_vars

\* The endpoint events as the abstract registry sees them: an update counts
\* from the moment it starts to write the NoType correlation.
Writing(e) ==
    LET o == epLock[e] IN o \in Observers /\ up[o].pc = "half" /\ up[o].key = NoType

RegistryView ==
    [e \in Endpoints |->
        IF cur[e] = 0 THEN EventOf(Absent)
        ELSE IF Writing(e) THEN [obs |-> epLock[e], state |-> up[epLock[e]].state]
        ELSE EventOf(NoTypeOf(e))]

Registry == INSTANCE EndpointRegistry WITH EventStates <- EndpointStates, reg <- RegistryView

\* The store implements the registry: seen through the NoType correlations it
\* records events, answers for unknown endpoints with the zero correlation and
\* forgets nothing but removed endpoints (correlation.go:99-152, 195-209).
ImplementsRegistry == Registry!Spec

\* A removed endpoint the reaping loop can see leaves the store, unless another
\* event of it arrives or the loop is stopped (correlation.go:175-209).
RemovedIsReaped ==
    \A e \in Endpoints :
        cur[e] # 0 /\ NoTypeOf(e).state = "removed"
            ~> \/ cur[e] = 0
               \/ NoTypeOf(e).state # "removed"
               \/ sentinel = 1 \/ reaper.pc = "ended"

\* The mutexes are released again and again, although GetOrCreate takes the
\* second one while it holds the first: none is kept for ever, whoever else wants it
\* (correlation.go:128-138).
MutexesReleased ==
    /\ \A e \in Endpoints : []<>(epLock[e] = Nobody)
    /\ \A r \in Receivers : []<>(recLock[r] = Nobody)

-----------------------------------------------------------------------------
(* The strengthening that makes LastEventKept and RangeWritesStick inductive. *)

\* Who holds a mutex is where its critical section is, and conversely.
LocksHeld ==
    /\ \A e \in Endpoints, o \in Observers :
          epLock[e] = o <=> up[o].pc \in {"range", "half"} /\ up[o].e = e
    /\ \A e \in Endpoints, g \in Getters :
          epLock[e] = g <=> get[g].pc = "receiver" /\ get[g].e = e
    /\ \A r \in Receivers, g \in Getters :
          recLock[r] = g <=> get[g].pc \in {"load", "store"} /\ get[g].r = r

\* Every map that was made holds a NoType correlation, and the maps that calls
\* and the reaper hold on to were made; the ones held under the endpoint's
\* mutex, and the reaper's, are the current ones.
MapsMade ==
    /\ \A e \in Endpoints :
          cur[e] <= made[e] /\ \A n \in 1..made[e] : Present(maps[e][n][NoType])
    /\ \A o \in Observers :
          up[o].pc \in {"range", "half"} => up[o].n = cur[up[o].e] /\ cur[up[o].e] # 0
    /\ \A g \in Getters :
          get[g].pc \in {"receiver", "load", "store"} => get[g].n \in 1..made[get[g].e]
    /\ reaper.pc \in {"range", "lock"} => \A e \in reaper.todo : cur[e] # 0
    /\ reaper.pc = "lock" => /\ reaper.n = cur[reaper.e] /\ cur[reaper.e] # 0
                             /\ reaper.e \notin reaper.todo

\* A range began with the NoType correlation and has visited stored keys only.
RangeSound ==
    \A o \in Observers :
        up[o].pc \in {"range", "half"} =>
            /\ NoType \in up[o].todo
            /\ up[o].seen \subseteq Stored(up[o].e, up[o].n)
            /\ up[o].pc = "half" =>
                  /\ up[o].key \in Stored(up[o].e, up[o].n) \ up[o].seen
                  /\ maps[up[o].e][up[o].n][up[o].key].obs = o

\* Nothing is stored yet where a GetOrCreate is about to store its copy.
StoreSound ==
    \A g \in Getters :
        get[g].pc = "store" => /\ Present(get[g].copy)
                               /\ ~Present(maps[get[g].e][get[g].n][get[g].r])

IndInv ==
    TypeOK /\ LocksHeld /\ MapsMade /\ RangeSound /\ StoreSound
    /\ RangeWritesStick /\ LastEventKept

=============================================================================
