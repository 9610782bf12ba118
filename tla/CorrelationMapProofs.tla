------------------------- MODULE CorrelationMapProofs -------------------------
(***************************************************************************)
(* The correlation store: types, mutexes, what a step does to the maps, and *)
(* that every step of a call keeps the maps and the calls that hold on to   *)
(* them consistent, for every set of endpoints, receivers, observers and    *)
(* goroutines.                                                              *)
(***************************************************************************)
EXTENDS CorrelationStore, TLAPS

\* The endpoint and the receiver of idle calls are some.
LEMMA AnyInSet == AnyEndpoint \in Endpoints /\ AnyReceiver \in Receivers
BY Zenon, StoreAssumption DEF AnyEndpoint, AnyReceiver

\* The idle values have the types of the calls.
LEMMA IdleTypes == IdleUpdate \in Updates /\ IdleGet \in Gets /\ IdleReap \in Reaps
<1>1. IdleUpdate \in Updates
      BY AnyInSet, StoreAssumption DEF IdleUpdate, Updates, EndpointStates, Keys
<1>2. IdleGet \in Gets
      BY AnyInSet, StoreAssumption DEF IdleGet, Gets, Absent, Correlations
<1>3. IdleReap \in Reaps
      BY AnyInSet, StoreAssumption DEF IdleReap, Reaps
<1> QED BY Zenon, <1>1, <1>2, <1>3

\* The initial states satisfy the inductive invariant.
LEMMA InitInd == Init => IndInv
<1> SUFFICES ASSUME Init PROVE IndInv
    BY Zenon
<1>1. TypeOK
  <2>1. Absent \in Correlations /\ NoEvent \in Events
        BY Zenon DEF Absent, Correlations, NoEvent, Events
  <2> QED BY <2>1, IdleTypes, StoreAssumption DEF TypeOK, Init
<1>2. LocksHeld
      BY Zenon, StoreAssumption DEF LocksHeld, Init, IdleUpdate, IdleGet
<1>3. MapsMade
      BY DEF MapsMade, Init, IdleUpdate, IdleGet, IdleReap
<1>4. RangeSound /\ StoreSound /\ RangeWritesStick
      BY Zenon DEF RangeSound, StoreSound, RangeWritesStick, Init, IdleUpdate, IdleGet
<1>5. LastEventKept
      BY Zenon DEF LastEventKept, Init
<1> QED BY Zenon, <1>1, <1>2, <1>3, <1>4, <1>5 DEF IndInv

-----------------------------------------------------------------------------
(* Type correctness.                                                       *)

\* A new map for an endpoint keeps the types of the maps.
LEMMA StoreNewMapType ==
    ASSUME TypeOK, NEW e \in Endpoints, NEW c \in Correlations, StoreNewMap(e, c)
    PROVE  /\ cur' \in [Endpoints -> 0..MaxMaps]
           /\ made' \in [Endpoints -> 0..MaxMaps]
           /\ maps' \in [Endpoints -> [1..MaxMaps -> [Keys -> Correlations]]]
<1>1. made[e] + 1 \in 1..MaxMaps /\ made[e] + 1 \in 0..MaxMaps
      BY StoreAssumption DEF TypeOK, StoreNewMap
<1>2. NoTypeOnly(c) \in [Keys -> Correlations]
      BY Zenon DEF NoTypeOnly, Absent, Correlations
<1> QED BY Zenon, <1>1, <1>2 DEF TypeOK, StoreNewMap

\* Every entry of every inner map has the type of correlations.
LEMMA EntryType ==
    ASSUME TypeOK, NEW e \in Endpoints, NEW n \in 1..MaxMaps, NEW k \in Keys
    PROVE  maps[e][n][k] \in Correlations
<1>1. maps[e] \in [1..MaxMaps -> [Keys -> Correlations]]
      BY Zenon DEF TypeOK
<1>2. maps[e][n] \in [Keys -> Correlations]
      BY Zenon, <1>1
<1> QED BY Zenon, <1>2

\* A correlation of which fields are overwritten keeps its type.
LEMMA FieldTypes ==
    ASSUME NEW c \in Correlations
    PROVE  /\ \A o \in Observers : [c EXCEPT !.obs = o] \in Correlations
           /\ [c EXCEPT !.age = "old"] \in Correlations
           /\ \A s \in EndpointStates :
                 [c EXCEPT !.state = s, !.age = "fresh"] \in Correlations
BY Zenon DEF Correlations

\* So does replacing one correlation.
LEMMA PutType ==
    ASSUME TypeOK, NEW e \in Endpoints, NEW n \in 1..MaxMaps, NEW k \in Keys,
           NEW c \in Correlations, Put(e, n, k, c)
    PROVE  maps' \in [Endpoints -> [1..MaxMaps -> [Keys -> Correlations]]]
BY Zenon DEF TypeOK, Put

\* The steps of UpdateEndpoint keep the types.
LEMMA UpdateType ==
    ASSUME TypeOK, MapsMade, NEW o \in Observers, UpdateEndpoint(o) PROVE TypeOK'
<1>0. up[o] \in Updates
      BY Zenon DEF TypeOK
<1>1. ASSUME NEW e \in Endpoints, NEW s \in EndpointStates, UpdateCall(o, e, s) PROVE TypeOK'
  <2>1. [IdleUpdate EXCEPT !.pc = "lock", !.e = e, !.state = s] \in Updates
        BY Zenon, IdleTypes DEF Updates
  <2>2. events' \in 0..MaxEvents
        BY <1>1, StoreAssumption DEF TypeOK, UpdateCall
  <2> QED BY Zenon, <1>1, <2>1, <2>2 DEF TypeOK, UpdateCall
<1>2. CASE UpdateNew(o)
  <2>1. /\ up[o].e \in Endpoints
        /\ [obs |-> o, state |-> up[o].state, age |-> "fresh"] \in Correlations
        /\ [obs |-> o, state |-> up[o].state] \in Events
        BY Zenon, <1>0 DEF Updates, Correlations, Events
  <2> QED BY SMTT(30), <1>2, <2>1, IdleTypes, StoreNewMapType DEF TypeOK, UpdateNew
<1>3. CASE UpdateKnown(o)
  <2> DEFINE e == up[o].e
  <2>1. e \in Endpoints /\ cur[e] \in 0..MaxMaps
        BY Zenon, <1>0 DEF TypeOK, Updates
  <2>2. [up[o] EXCEPT !.pc = "range", !.n = cur[e], !.todo = Stored(e, cur[e]),
                            !.seen = {}] \in Updates
        BY ZenonT(30), <1>0, <2>1 DEF Updates, Stored
  <2> QED BY Zenon, <1>3, <2>1, <2>2 DEF TypeOK, UpdateKnown
<1>4. ASSUME NEW k \in Keys, RangeObserver(o, k) PROVE TypeOK'
  <2> DEFINE e == up[o].e
             n == up[o].n
  <2>1. e \in Endpoints /\ n \in 1..MaxMaps
    <3>1. e \in Endpoints /\ n \in 0..MaxMaps
          BY Zenon, <1>0 DEF Updates
    <3>2. n # 0
          BY Zenon, <1>4 DEF RangeObserver, MapsMade
    <3> QED BY <3>1, <3>2, StoreAssumption
  <2>2. [up[o] EXCEPT !.pc = "half", !.key = k] \in Updates
        BY ZenonT(30), <1>0 DEF Updates
  <2>3. [maps[e][n][k] EXCEPT !.obs = o] \in Correlations
        BY Zenon, <2>1, EntryType, FieldTypes
  <2>4. maps' \in [Endpoints -> [1..MaxMaps -> [Keys -> Correlations]]]
        BY Zenon, <1>4, <2>1, <2>3, PutType DEF RangeObserver
  <2> QED BY Zenon, <1>4, <2>2, <2>4 DEF TypeOK, RangeObserver
<1>5. CASE RangeState(o)
  <2> DEFINE e == up[o].e
             n == up[o].n
             k == up[o].key
  <2>1. e \in Endpoints /\ n \in 1..MaxMaps /\ k \in Keys
        BY SMTT(60), <1>0, <1>5, StoreAssumption DEF Updates, RangeState, MapsMade
  <2>2. [up[o] EXCEPT !.pc = "range", !.seen = up[o].seen \union {k}] \in Updates
        BY ZenonT(30), <1>0 DEF Updates
  <2>3. maps[e][n][k] \in Correlations /\ up[o].state \in EndpointStates
        BY Zenon, <1>0, <2>1, EntryType DEF Updates
  <2>4. [maps[e][n][k] EXCEPT !.state = up[o].state, !.age = "fresh"] \in Correlations
        BY Zenon, <2>3, FieldTypes
  <2>5. maps' \in [Endpoints -> [1..MaxMaps -> [Keys -> Correlations]]]
        BY Zenon, <1>5, <2>1, <2>4, PutType DEF RangeState
  <2>a. up' = [up EXCEPT ![o] = [up[o] EXCEPT !.pc = "range", !.seen = up[o].seen \union {k}]]
        BY Zenon, <1>5 DEF RangeState
  <2>6. up' \in [Observers -> Updates]
        BY Zenon, <2>a, <2>2 DEF TypeOK
  <2> QED BY Zenon, <1>5, <2>5, <2>6 DEF TypeOK, RangeState
<1>6. CASE UpdateReturn(o)
  <2>1. [obs |-> o, state |-> up[o].state] \in Events /\ up[o].e \in Endpoints
        BY Zenon, <1>0 DEF Updates, Events
  <2> QED BY Zenon, <1>6, <2>1, IdleTypes DEF TypeOK, UpdateReturn
<1> QED BY Zenon, <1>1, <1>2, <1>3, <1>4, <1>5, <1>6 DEF UpdateEndpoint

\* The steps of GetOrCreate keep the types.
LEMMA GetType ==
    ASSUME TypeOK, MapsMade, NEW g \in Getters, GetOrCreate(g) PROVE TypeOK'
<1>0. get[g] \in Gets
      BY Zenon DEF TypeOK
<1>a. get[g].e \in Endpoints /\ get[g].r \in Receivers /\ get[g].r \in Keys
      BY Zenon, <1>0 DEF Gets, Keys
<1>1. ASSUME NEW r \in Receivers, NEW e \in Endpoints, GetCall(g, r, e) PROVE TypeOK'
  <2>1. [IdleGet EXCEPT !.pc = "lock", !.e = e, !.r = r] \in Gets
        BY Zenon, IdleTypes DEF Gets
  <2> QED BY Zenon, <1>1, <2>1 DEF TypeOK, GetCall
<1>2. CASE GetMap(g)
  <2> DEFINE e == get[g].e
  <2>1. newCorrelation \in Correlations
        BY Zenon DEF newCorrelation, Correlations
  <2>2. /\ cur' \in [Endpoints -> 0..MaxMaps]
        /\ made' \in [Endpoints -> 0..MaxMaps]
        /\ maps' \in [Endpoints -> [1..MaxMaps -> [Keys -> Correlations]]]
    <3>1. CASE cur[e] # 0
          BY Zenon, <1>2, <3>1 DEF GetMap, TypeOK
    <3>2. CASE cur[e] = 0
          BY Zenon, <1>2, <1>a, <2>1, <3>2, StoreNewMapType DEF GetMap
    <3> QED BY Zenon, <3>1, <3>2
  <2>3. cur'[e] \in 0..MaxMaps
        BY Zenon, <1>a, <2>2
  <2>4. [get[g] EXCEPT !.pc = "receiver", !.n = cur'[e]] \in Gets
        BY Zenon, <1>0, <2>3 DEF Gets
  <2>5. get' \in [Getters -> Gets]
        BY Zenon, <1>2, <2>4 DEF GetMap, TypeOK
  <2>6. epLock' \in [Endpoints -> Observers \union Getters \union {Nobody}]
        BY Zenon, <1>2, <1>a DEF GetMap, TypeOK
  <2> QED BY Zenon, <1>2, <2>2, <2>5, <2>6 DEF GetMap, TypeOK
<1>3. CASE GetLockReceiver(g)
  <2>1. [get[g] EXCEPT !.pc = "load"] \in Gets
        BY Zenon, <1>0 DEF Gets
  <2> QED BY Zenon, <1>3, <1>a, <2>1 DEF GetLockReceiver, TypeOK
<1>4. CASE GetExisting(g)
      BY Zenon, <1>4, <1>a, IdleTypes DEF GetExisting, TypeOK
<1>5. CASE GetCopy(g)
  <2> DEFINE c == maps[get[g].e][get[g].n][NoType]
  <2>1. get[g].n \in 1..MaxMaps
        BY <1>5, <1>a, StoreAssumption DEF GetCopy, MapsMade, TypeOK
  <2>2. c \in Correlations
        BY Zenon, <1>a, <2>1, EntryType DEF Keys
  <2>3. [get[g] EXCEPT !.pc = "store", !.copy = c] \in Gets
        BY Zenon, <1>0, <2>2 DEF Gets
  <2> QED BY Zenon, <1>5, <2>3 DEF GetCopy, TypeOK
<1>6. CASE GetStore(g)
  <2>1. get[g].n \in 1..MaxMaps
        BY <1>6, <1>a, StoreAssumption DEF GetStore, MapsMade, TypeOK
  <2>2. get[g].copy \in Correlations
        BY Zenon, <1>0 DEF Gets
  <2>3. maps' \in [Endpoints -> [1..MaxMaps -> [Keys -> Correlations]]]
        BY Zenon, <1>6, <1>a, <2>1, <2>2, PutType DEF GetStore
  <2> QED BY Zenon, <1>6, <1>a, <2>3, IdleTypes DEF GetStore, TypeOK
<1> QED BY Zenon, <1>1, <1>2, <1>3, <1>4, <1>5, <1>6 DEF GetOrCreate

\* The steps of the reaping loop, apart from a visit to an endpoint.
LoopStep == Start \/ Stop \/ ReapExit \/ ReapTick \/ ReapDone

\* The steps of the reaper keep the types.
LEMMA ReapType ==
    ASSUME TypeOK, MapsMade,
           LoopStep \/ (\E e \in Endpoints : ReapVisit(e) \/ Expire(e)) \/ ReapEndpoint
    PROVE  TypeOK'
<1>0. reaper \in Reaps
      BY Zenon DEF TypeOK
<1>1. CASE LoopStep
  <2>1. /\ [reaper EXCEPT !.pc = "select"] \in Reaps
        /\ [IdleReap EXCEPT !.pc = "ended"] \in Reaps
        /\ [IdleReap EXCEPT !.pc = "select"] \in Reaps
        BY Zenon, <1>0, IdleTypes DEF Reaps
  <2>2. [IdleReap EXCEPT !.pc = "range", !.todo = {e \in Endpoints : cur[e] # 0}] \in Reaps
        BY Zenon, IdleTypes DEF Reaps
  <2>3. reaper' \in Reaps
        BY Zenon, <1>0, <1>1, <2>1, <2>2 DEF LoopStep, Start, Stop, ReapExit, ReapTick,
           ReapDone
  <2>4. sentinel' \in 0..1
        BY <1>1 DEF LoopStep, Start, Stop, ReapExit, ReapTick, ReapDone, TypeOK
  <2>5. UNCHANGED <<cur, made, maps, epLock, recLock, up, get, events, last>>
        BY Zenon, <1>1 DEF LoopStep, Start, Stop, ReapExit, ReapTick, ReapDone
  <2> QED BY Zenon, <2>3, <2>4, <2>5 DEF TypeOK
<1>2. ASSUME NEW e \in Endpoints, ReapVisit(e) PROVE TypeOK'
  <2>1. cur[e] \in 0..MaxMaps
        BY Zenon DEF TypeOK
  <2>2. [reaper EXCEPT !.pc = "lock", !.todo = @ \ {e}, !.e = e, !.n = cur[e]] \in Reaps
        BY Zenon, <1>0, <2>1 DEF Reaps
  <2> QED BY Zenon, <1>2, <2>2 DEF ReapVisit, TypeOK
<1>3. ASSUME NEW e \in Endpoints, Expire(e) PROVE TypeOK'
  <2>1. cur[e] \in 1..MaxMaps /\ NoType \in Keys
        BY <1>3, StoreAssumption DEF Expire, TypeOK, Keys
  <2>2. [maps[e][cur[e]][NoType] EXCEPT !.age = "old"] \in Correlations
        BY Zenon, <2>1, EntryType, FieldTypes
  <2>3. maps' \in [Endpoints -> [1..MaxMaps -> [Keys -> Correlations]]]
        BY Zenon, <1>3, <2>1, <2>2, PutType DEF Expire
  <2> QED BY Zenon, <1>3, <2>3 DEF Expire, TypeOK
<1>4. CASE ReapEndpoint
  <2>1. [reaper EXCEPT !.pc = "range"] \in Reaps /\ reaper.e \in Endpoints
        BY Zenon, <1>0 DEF Reaps
  <2>2. cur' \in [Endpoints -> 0..MaxMaps]
        BY <1>4, <2>1, StoreAssumption DEF ReapEndpoint, TypeOK
  <2> QED BY Zenon, <1>4, <2>1, <2>2 DEF ReapEndpoint, TypeOK
<1> QED BY Zenon, <1>1, <1>2, <1>3, <1>4

-----------------------------------------------------------------------------
(* Mutexes.                                                                *)

\* A call that is put in its place leaves its mutexes consistent if the mutexes
\* follow its program counter; the other calls are as they were.
LEMMA UpdateLocks ==
    ASSUME TypeOK, LocksHeld, NEW o \in Observers, UpdateEndpoint(o) PROVE LocksHeld'
<1>0. /\ up \in [Observers -> Updates] /\ up[o].e \in Endpoints
      /\ epLock \in [Endpoints -> Observers \union Getters \union {Nobody}]
      BY Zenon DEF TypeOK, Updates
<1>a. /\ get' = get /\ recLock' = recLock
      /\ \A p \in Observers \ {o} : up'[p] = up[p]
      BY Zenon, <1>0 DEF UpdateEndpoint, UpdateCall, UpdateNew, UpdateKnown,
         RangeObserver,
            RangeState, UpdateReturn
<1>1. ASSUME NEW e \in Endpoints, NEW s \in EndpointStates, UpdateCall(o, e, s) PROVE LocksHeld'
  <2>1. epLock' = epLock /\ up[o].pc = "idle" /\ up'[o].pc = "lock"
        BY Zenon, <1>1, <1>0 DEF UpdateCall, IdleUpdate
  <2> QED BY <1>a, <2>1 DEF LocksHeld
<1>2. CASE UpdateNew(o)
  <2>1. epLock' = epLock /\ up[o].pc = "lock" /\ up'[o].pc = "idle"
        BY Zenon, <1>2, <1>0 DEF UpdateNew, IdleUpdate
  <2> QED BY <1>a, <2>1 DEF LocksHeld
<1>3. CASE UpdateKnown(o)
  <2>1. /\ epLock[up[o].e] = Nobody /\ epLock' = [epLock EXCEPT ![up[o].e] = o]
        /\ up[o].pc = "lock" /\ up'[o].pc = "range" /\ up'[o].e = up[o].e
        BY Zenon, <1>3, <1>0 DEF UpdateKnown, Updates
  <2> QED BY <1>0, <1>a, <2>1, StoreAssumption DEF LocksHeld
<1>4. ASSUME NEW k \in Keys, RangeObserver(o, k) PROVE LocksHeld'
  <2>1. /\ epLock' = epLock
        /\ up[o].pc = "range" /\ up'[o].pc = "half" /\ up'[o].e = up[o].e
        BY Zenon, <1>4, <1>0 DEF RangeObserver, Updates
  <2> QED BY <1>a, <2>1 DEF LocksHeld
<1>5. CASE RangeState(o)
  <2>1. /\ epLock' = epLock
        /\ up[o].pc = "half" /\ up'[o].pc = "range" /\ up'[o].e = up[o].e
        BY Zenon, <1>5, <1>0 DEF RangeState, Updates
  <2> QED BY <1>a, <2>1 DEF LocksHeld
<1>6. CASE UpdateReturn(o)
  <2>1. /\ epLock' = [epLock EXCEPT ![up[o].e] = Nobody]
        /\ up[o].pc = "range" /\ up'[o].pc = "idle"
        BY Zenon, <1>6, <1>0 DEF UpdateReturn, IdleUpdate
  <2>2. epLock[up[o].e] = o
        BY Zenon, <1>0, <2>1 DEF LocksHeld
  <2> QED BY <1>0, <1>a, <2>1, <2>2, StoreAssumption DEF LocksHeld
<1> QED BY Zenon, <1>1, <1>2, <1>3, <1>4, <1>5, <1>6 DEF UpdateEndpoint

\* The steps of GetOrCreate take and release mutexes in pairs.
LEMMA GetLocks ==
    ASSUME TypeOK, LocksHeld, NEW g \in Getters, GetOrCreate(g) PROVE LocksHeld'
<1>0. /\ get \in [Getters -> Gets] /\ get[g].e \in Endpoints /\ get[g].r \in Receivers
      /\ epLock \in [Endpoints -> Observers \union Getters \union {Nobody}]
      /\ recLock \in [Receivers -> Getters \union {Nobody}]
      BY Zenon DEF TypeOK, Gets
<1>a. up' = up /\ \A h \in Getters \ {g} : get'[h] = get[h]
      BY Zenon, <1>0 DEF GetOrCreate, GetCall, GetMap, GetLockReceiver, GetExisting,
         GetCopy, GetStore
<1>1. ASSUME NEW r \in Receivers, NEW e \in Endpoints, GetCall(g, r, e) PROVE LocksHeld'
  <2>1. epLock' = epLock /\ recLock' = recLock /\ get[g].pc = "idle" /\ get'[g].pc = "lock"
        BY Zenon, <1>1, <1>0 DEF GetCall, IdleGet
  <2> QED BY <1>a, <2>1 DEF LocksHeld
<1>2. CASE GetMap(g)
  <2>1. /\ epLock[get[g].e] = Nobody /\ epLock' = [epLock EXCEPT ![get[g].e] = g]
        /\ recLock' = recLock
        /\ get[g].pc = "lock" /\ get'[g].pc = "receiver" /\ get'[g].e = get[g].e
        BY Zenon, <1>2, <1>0 DEF GetMap, Gets
  <2> QED BY <1>0, <1>a, <2>1, StoreAssumption DEF LocksHeld
<1>3. CASE GetLockReceiver(g)
  <2>1. /\ epLock' = [epLock EXCEPT ![get[g].e] = Nobody]
        /\ recLock[get[g].r] = Nobody /\ recLock' = [recLock EXCEPT ![get[g].r] = g]
        /\ get[g].pc = "receiver" /\ get'[g].pc = "load"
        /\ get'[g].e = get[g].e /\ get'[g].r = get[g].r
        BY Zenon, <1>3, <1>0 DEF GetLockReceiver, Gets
  <2>2. epLock[get[g].e] = g
        BY <1>0, <2>1 DEF LocksHeld
  <2> QED BY <1>0, <1>a, <2>1, <2>2, StoreAssumption DEF LocksHeld
<1>4. CASE GetExisting(g) \/ GetStore(g)
  <2>1. /\ recLock' = [recLock EXCEPT ![get[g].r] = Nobody] /\ epLock' = epLock
        /\ get[g].pc \in {"load", "store"} /\ get'[g].pc = "idle"
        BY <1>4, <1>0 DEF GetExisting, GetStore, IdleGet
  <2>2. recLock[get[g].r] = g
        BY <1>0, <2>1 DEF LocksHeld
  <2> QED BY <1>0, <1>a, <2>1, <2>2, StoreAssumption DEF LocksHeld
<1>5. CASE GetCopy(g)
  <2>1. /\ recLock' = recLock /\ epLock' = epLock
        /\ get[g].pc = "load" /\ get'[g].pc = "store"
        /\ get'[g].e = get[g].e /\ get'[g].r = get[g].r
        BY Zenon, <1>5, <1>0 DEF GetCopy, Gets
  <2> QED BY <1>a, <2>1 DEF LocksHeld
<1> QED BY Zenon, <1>1, <1>2, <1>3, <1>4, <1>5 DEF GetOrCreate

\* The reaper and the clock touch neither calls nor mutexes.
LEMMA ReapFrame ==
    ASSUME LoopStep \/ (\E e \in Endpoints : ReapVisit(e) \/ Expire(e)) \/ ReapEndpoint
    PROVE  UNCHANGED <<made, epLock, recLock, up, get, events, last>>
BY Zenon DEF LoopStep, Start, Stop, ReapExit, ReapTick, ReapDone, ReapVisit, Expire,
   ReapEndpoint

-----------------------------------------------------------------------------
(* What a step does to the maps.                                           *)

\* What storing an entry does to the inner maps.
LEMMA PutFacts ==
    ASSUME TypeOK, NEW e \in Endpoints, NEW n \in 1..MaxMaps, NEW k \in Keys,
           NEW c \in Correlations, Put(e, n, k, c)
    PROVE  /\ maps'[e][n][k] = c
           /\ \A f \in Endpoints, m \in 1..MaxMaps, j \in Keys :
                 f # e \/ m # n \/ j # k => maps'[f][m][j] = maps[f][m][j]
<1>1. /\ maps \in [Endpoints -> [1..MaxMaps -> [Keys -> Correlations]]]
      /\ maps' = [maps EXCEPT ![e][n][k] = c]
      BY Zenon DEF TypeOK, Put
<1>2. maps[e] \in [1..MaxMaps -> [Keys -> Correlations]]
      BY Zenon, <1>1
<1>3. maps[e][n] \in [Keys -> Correlations]
      BY Zenon, <1>2
<1>4. /\ maps'[e] = [maps[e] EXCEPT ![n][k] = c]
      /\ \A f \in Endpoints : f # e => maps'[f] = maps[f]
      BY Zenon, <1>1
<1>5. /\ maps'[e][n] = [maps[e][n] EXCEPT ![k] = c]
      /\ \A m \in 1..MaxMaps : m # n => maps'[e][m] = maps[e][m]
      BY Zenon, <1>2, <1>4
<1> QED BY ZenonT(60), <1>3, <1>4, <1>5

\* The same, as one fact.
PutEffect(e, n, k, c) ==
    /\ maps'[e][n][k] = c
    /\ \A f \in Endpoints, m \in 1..MaxMaps, j \in Keys :
          f # e \/ m # n \/ j # k => maps'[f][m][j] = maps[f][m][j]

\* The same, named, for the proofs that follow.
LEMMA PutChanges ==
    ASSUME TypeOK, NEW e \in Endpoints, NEW n \in 1..MaxMaps, NEW k \in Keys,
           NEW c \in Correlations, Put(e, n, k, c)
    PROVE  PutEffect(e, n, k, c)
BY PutFacts DEF PutEffect

\* What making an inner map does to the outer and the inner maps.
LEMMA NewMapFacts ==
    ASSUME TypeOK, NEW e \in Endpoints, NEW c \in Correlations, StoreNewMap(e, c)
    PROVE  /\ made[e] + 1 \in 1..MaxMaps
           /\ cur'[e] = made[e] + 1 /\ made'[e] = made[e] + 1
           /\ maps'[e][made[e] + 1][NoType] = c
           /\ \A f \in Endpoints : f # e => cur'[f] = cur[f] /\ made'[f] = made[f]
           /\ \A f \in Endpoints, m \in 1..MaxMaps, j \in Keys :
                 f # e \/ m # made[e] + 1 => maps'[f][m][j] = maps[f][m][j]
<1> DEFINE n == made[e] + 1
<1>1. /\ maps \in [Endpoints -> [1..MaxMaps -> [Keys -> Correlations]]]
      /\ maps' = [maps EXCEPT ![e][n] = NoTypeOnly(c)]
      BY Zenon DEF TypeOK, StoreNewMap
<1>2. n \in 1..MaxMaps
      BY StoreAssumption DEF TypeOK, StoreNewMap
<1>3. maps[e] \in [1..MaxMaps -> [Keys -> Correlations]]
      BY Zenon, <1>1
<1>4. /\ maps'[e] = [maps[e] EXCEPT ![n] = NoTypeOnly(c)]
      /\ \A f \in Endpoints : f # e => maps'[f] = maps[f]
      BY Zenon, <1>1
<1>5. /\ maps'[e][n] = NoTypeOnly(c)
      /\ \A m \in 1..MaxMaps : m # n => maps'[e][m] = maps[e][m]
      BY Zenon, <1>2, <1>3, <1>4
<1>6. NoTypeOnly(c)[NoType] = c
      BY Zenon DEF NoTypeOnly, Keys
<1>7. /\ cur'[e] = n /\ made'[e] = n
      /\ \A f \in Endpoints : f # e => cur'[f] = cur[f] /\ made'[f] = made[f]
      BY Zenon DEF TypeOK, StoreNewMap
<1> QED BY Zenon, <1>2, <1>4, <1>5, <1>6, <1>7

\* The current inner maps are among those made.
LEMMA CurRange ==
    ASSUME TypeOK
    PROVE  /\ NoType \in Keys
           /\ \A f \in Endpoints : /\ cur[f] \in Nat /\ made[f] \in Nat
                                   /\ cur[f] # 0 => cur[f] \in 1..MaxMaps
BY StoreAssumption DEF TypeOK, Keys

\* The maps that calls hold on to exist.
LEMMA InRange ==
    ASSUME TypeOK, MapsMade
    PROVE  /\ \A o \in Observers : up[o].pc \in {"range", "half"} => up[o].n \in 1..MaxMaps
           /\ \A g \in Getters : get[g].pc \in {"receiver", "load", "store"} =>
                 get[g].n \in 1..MaxMaps
<1>1. ASSUME NEW o \in Observers, up[o].pc \in {"range", "half"} PROVE up[o].n \in 1..MaxMaps
  <2>1. up[o].n \in 0..MaxMaps
        BY Zenon DEF TypeOK, Updates
  <2>2. up[o].n # 0
        BY Zenon, <1>1 DEF MapsMade
  <2> QED BY <2>1, <2>2, StoreAssumption
<1>2. ASSUME NEW g \in Getters, get[g].pc \in {"receiver", "load", "store"}
      PROVE  get[g].n \in 1..MaxMaps
  <2>1. get[g].n \in 0..MaxMaps /\ get[g].e \in Endpoints
        BY Zenon DEF TypeOK, Gets
  <2>2. made[get[g].e] \in 0..MaxMaps
        BY Zenon, <2>1 DEF TypeOK
  <2>3. get[g].n \in 1..made[get[g].e]
        BY Zenon, <1>2 DEF MapsMade
  <2> QED BY <2>1, <2>2, <2>3, StoreAssumption
<1> QED BY Zenon, <1>1, <1>2

\* The part of the invariant that is about maps and calls.
MapsInv == MapsMade /\ RangeSound /\ StoreSound /\ RangeWritesStick

\* A step that leaves maps, cur and made alone keeps it for the calls it
\* leaves alone.
LEMMA CallMaps ==
    ASSUME TypeOK, MapsInv, UNCHANGED <<cur, made, maps, get, reaper>>,
           NEW o \in Observers, \A p \in Observers \ {o} : up'[p] = up[p],
           up'[o].pc \in {"range", "half"} =>
               /\ up'[o].n = cur[up'[o].e] /\ cur[up'[o].e] # 0
               /\ NoType \in up'[o].todo
               /\ up'[o].seen \subseteq Stored(up'[o].e, up'[o].n)
               /\ up'[o].pc # "half"
               /\ \A k \in up'[o].seen : EventOf(maps[up'[o].e][up'[o].n][k])
                                            = [obs |-> o, state |-> up'[o].state]
    PROVE  MapsInv'
<1>1. MapsMade'
      BY DEF MapsInv, MapsMade
<1>2. RangeSound'
      BY ZenonT(30) DEF MapsInv, RangeSound, Stored
<1>3. StoreSound'
      BY Zenon DEF MapsInv, StoreSound
<1>4. RangeWritesStick'
      BY Zenon DEF MapsInv, RangeWritesStick
<1> QED BY Zenon, <1>1, <1>2, <1>3, <1>4 DEF MapsInv

\* What a step that makes a new map for e does to the calls.
NewMapCalls(e) ==
    /\ reaper' = reaper
    /\ \A o \in Observers : up'[o].pc \in {"range", "half"} => up'[o] = up[o]
    /\ \A g \in Getters : \/ get'[g] = get[g]
                          \/ /\ get'[g].pc \notin {"load", "store"}
                             /\ get'[g].e = e /\ get'[g].n = cur'[e]

\* A new map for an endpoint that has none disturbs no call in progress.
LEMMA NewMapMaps ==
    ASSUME TypeOK, MapsInv, NEW e \in Endpoints, cur[e] = 0,
           NEW c \in Correlations, Present(c), StoreNewMap(e, c), NewMapCalls(e)
    PROVE  MapsInv'
<1> DEFINE n == made[e] + 1
<1>1. /\ n \in 1..MaxMaps /\ n \notin 1..made[e] /\ n # 0
      /\ cur'[e] = n /\ made'[e] = n /\ maps'[e][n][NoType] = c
      /\ \A f \in Endpoints : f # e => cur'[f] = cur[f] /\ made'[f] = made[f]
      /\ \A f \in Endpoints, m \in 1..MaxMaps, j \in Keys :
            f # e \/ m # n => maps'[f][m][j] = maps[f][m][j]
      /\ NoType \in Keys
  <2>1. made[e] \in Nat
        BY DEF TypeOK
  <2>2. n \notin 1..made[e] /\ n # 0 /\ NoType \in Keys
        BY <2>1 DEF Keys
  <2> QED BY Zenon, <2>2, NewMapFacts
<1>2. /\ \A f \in Endpoints : made[f] \in 0..MaxMaps /\ cur[f] \in 0..MaxMaps
      /\ \A f \in Endpoints : \A m \in 1..made[f] : m \in 1..MaxMaps /\ (f # e \/ m # n)
      BY <1>1, StoreAssumption DEF TypeOK
<1>3. \A o \in Observers : up[o].e \in Endpoints /\ up[o].seen \subseteq Keys
                           /\ up[o].key \in Keys /\ up[o].n \in 0..MaxMaps
      BY Zenon DEF TypeOK, Updates
<1>4. \A g \in Getters : get[g].e \in Endpoints /\ get[g].r \in Keys
      BY Zenon DEF TypeOK, Gets, Keys
<1>5. reaper.todo \subseteq Endpoints /\ reaper.e \in Endpoints
      BY Zenon DEF TypeOK, Reaps
<1>6. MapsMade'
  <2>1. \A f \in Endpoints :
           cur'[f] <= made'[f] /\ \A m \in 1..made'[f] : Present(maps'[f][m][NoType])
    <3> SUFFICES ASSUME NEW f \in Endpoints
                 PROVE  cur'[f] <= made'[f] /\ \A m \in 1..made'[f] : Present(maps'[f][m][NoType])
        BY Zenon
    <3>1. CASE f # e
          BY <3>1, <1>1, <1>2 DEF MapsInv, MapsMade
    <3>2. CASE f = e
      <4>1. \A m \in 1..made'[f] : m \in 1..made[e] \/ m = n
            BY <3>2, <1>1, <1>2
      <4>2. \A m \in 1..made[e] : maps'[e][m][NoType] = maps[e][m][NoType]
            BY <1>1, <1>2
      <4> QED BY <3>2, <4>1, <4>2, <1>1, <1>2 DEF MapsInv, MapsMade
    <3> QED BY Zenon, <3>1, <3>2
  <2>2. \A o \in Observers : up'[o].pc \in {"range", "half"} =>
           up'[o].n = cur'[up'[o].e] /\ cur'[up'[o].e] # 0
        BY <1>1, <1>3 DEF MapsInv, MapsMade, NewMapCalls
  <2>3. \A g \in Getters : get'[g].pc \in {"receiver", "load", "store"} =>
           get'[g].n \in 1..made'[get'[g].e]
    <3> SUFFICES ASSUME NEW g \in Getters, get'[g].pc \in {"receiver", "load", "store"}
                 PROVE  get'[g].n \in 1..made'[get'[g].e]
        BY Zenon
    <3>1. CASE get'[g] = get[g]
          BY <3>1, <1>1, <1>2, <1>4 DEF MapsInv, MapsMade
    <3>2. CASE get'[g].e = e /\ get'[g].n = cur'[e]
          BY <3>2, <1>1
    <3> QED BY Zenon, <3>1, <3>2 DEF NewMapCalls
  <2>4. /\ reaper'.pc \in {"range", "lock"} => \A f \in reaper'.todo : cur'[f] # 0
        /\ reaper'.pc = "lock" => reaper'.n = cur'[reaper'.e] /\ cur'[reaper'.e] # 0
                                  /\ reaper'.e \notin reaper'.todo
        BY <1>1, <1>5 DEF MapsInv, MapsMade, NewMapCalls
  <2> QED BY Zenon, <2>1, <2>2, <2>3, <2>4 DEF MapsMade
<1>7. \A o \in Observers : up'[o].pc \in {"range", "half"} =>
         /\ up[o].e # e /\ up[o].n \in 1..MaxMaps
         /\ \A k \in Keys : maps'[up[o].e][up[o].n][k] = maps[up[o].e][up[o].n][k]
  <2> SUFFICES ASSUME NEW o \in Observers, up'[o].pc \in {"range", "half"}
               PROVE  /\ up[o].e # e /\ up[o].n \in 1..MaxMaps
                      /\ \A k \in Keys : maps'[up[o].e][up[o].n][k] = maps[up[o].e][up[o].n][k]
      BY Zenon
  <2>1. up'[o] = up[o]
        BY Zenon DEF NewMapCalls
  <2>2. up[o].n = cur[up[o].e] /\ cur[up[o].e] # 0
        BY Zenon, <2>1 DEF MapsInv, MapsMade
  <2>3. up[o].e # e /\ up[o].n \in 1..MaxMaps
        BY Zenon, <1>2, <1>3, <2>2, CurRange
  <2> QED BY <1>1, <1>3, <2>3
<1>8. RangeSound' /\ RangeWritesStick'
  <2>1. RangeSound'
    <3> SUFFICES ASSUME NEW p \in Observers, up'[p].pc \in {"range", "half"}
                 PROVE  /\ NoType \in up'[p].todo
                        /\ \A j \in up'[p].seen : j \in Keys /\ Present(maps'[up'[p].e][up'[p].n][j])
                        /\ up'[p].pc = "half" =>
                              /\ up'[p].key \in Keys \ up'[p].seen
                              /\ Present(maps'[up'[p].e][up'[p].n][up'[p].key])
                              /\ maps'[up'[p].e][up'[p].n][up'[p].key].obs = p
        BY ZenonT(30) DEF RangeSound, Stored
    <3>1. up'[p] = up[p]
          BY Zenon DEF NewMapCalls
    <3>2. /\ NoType \in up[p].todo
          /\ \A j \in up[p].seen : j \in Keys /\ Present(maps[up[p].e][up[p].n][j])
          /\ up[p].pc = "half" => /\ up[p].key \in Keys \ up[p].seen
                                  /\ Present(maps[up[p].e][up[p].n][up[p].key])
                                  /\ maps[up[p].e][up[p].n][up[p].key].obs = p
          BY ZenonT(30), <3>1 DEF MapsInv, RangeSound, Stored
    <3>3. \A j \in Keys : maps'[up[p].e][up[p].n][j] = maps[up[p].e][up[p].n][j]
          BY ZenonT(30), <1>7
    <3> QED BY Zenon, <3>1, <3>2, <3>3
  <2>2. RangeWritesStick'
    <3> SUFFICES ASSUME NEW p \in Observers, up'[p].pc \in {"range", "half"},
                        NEW j \in up'[p].seen
                 PROVE  EventOf(maps'[up'[p].e][up'[p].n][j])
                           = [obs |-> p, state |-> up'[p].state]
        BY Zenon DEF RangeWritesStick
    <3>1. up'[p] = up[p] /\ j \in Keys
          BY Zenon, <1>3 DEF NewMapCalls
    <3>2. EventOf(maps[up[p].e][up[p].n][j]) = [obs |-> p, state |-> up[p].state]
          BY Zenon, <3>1 DEF MapsInv, RangeWritesStick
    <3>3. maps'[up[p].e][up[p].n][j] = maps[up[p].e][up[p].n][j]
          BY ZenonT(30), <3>1, <1>7
    <3> QED BY Zenon, <3>1, <3>2, <3>3
  <2> QED BY Zenon, <2>1, <2>2
<1>9. StoreSound'
  <2> SUFFICES ASSUME NEW g \in Getters, get'[g].pc = "store"
               PROVE  /\ Present(get'[g].copy)
                      /\ ~Present(maps'[get'[g].e][get'[g].n][get'[g].r])
      BY Zenon DEF StoreSound
  <2>1. get'[g] = get[g]
        BY Zenon DEF NewMapCalls
  <2>2. get[g].n \in 1..made[get[g].e]
        BY Zenon, <2>1 DEF MapsInv, MapsMade
  <2>3. maps'[get[g].e][get[g].n][get[g].r] = maps[get[g].e][get[g].n][get[g].r]
        BY SMTT(60), <1>1, <1>2, <1>4, <2>2
  <2> QED BY ZenonT(30), <2>1, <2>3 DEF MapsInv, StoreSound
<1> QED BY Zenon, <1>6, <1>8, <1>9 DEF MapsInv

\* Replacing a correlation by one that is present keeps the maps well formed.
LEMMA PutMapsMade ==
    ASSUME TypeOK, MapsMade, NEW e \in Endpoints, NEW n \in 1..MaxMaps, NEW k \in Keys,
           NEW c \in Correlations, Present(c), Put(e, n, k, c),
           UNCHANGED <<cur, made, reaper>>,
           \A o \in Observers : up'[o].pc \in {"range", "half"} =>
               up'[o].n = up[o].n /\ up'[o].e = up[o].e /\ up[o].pc \in {"range", "half"},
           \A g \in Getters : get'[g].pc \in {"receiver", "load", "store"} => get'[g] = get[g]
    PROVE  MapsMade'
<1>1. /\ maps'[e][n][k] = c
      /\ \A f \in Endpoints, m \in 1..MaxMaps, j \in Keys :
            f # e \/ m # n \/ j # k => maps'[f][m][j] = maps[f][m][j]
  <2>1. PutEffect(e, n, k, c)
        BY Zenon, PutChanges
  <2> QED BY Zenon, <2>1 DEF PutEffect
<1>2. \A f \in Endpoints : \A m \in 1..made[f] : m \in 1..MaxMaps
      BY SMTT(30), StoreAssumption DEF TypeOK
<1>3. \A f \in Endpoints : \A m \in 1..made[f] : Present(maps'[f][m][NoType])
      BY SMTT(30), <1>1, <1>2 DEF MapsMade, Keys
<1> QED BY <1>3 DEF MapsMade

\* The range function's write to an entry, either half of it: what holds of the
\* call before it, what the write leaves alone, and the call after it.
RangeBefore(o, e, n, k) ==
    /\ e = up[o].e /\ n = up[o].n /\ up[o].pc \in {"range", "half"}
    /\ Present(maps[e][n][k]) /\ k \notin up[o].seen
RangeFrame(o) ==
    UNCHANGED <<cur, made, get, reaper>> /\ \A p \in Observers \ {o} : up'[p] = up[p]
RangeAfter(o, e, n, k, c) ==
    /\ up'[o].pc \in {"range", "half"} /\ up'[o].e = e /\ up'[o].n = n
    /\ up'[o].todo = up[o].todo /\ up'[o].state = up[o].state
    /\ up'[o].seen \subseteq up[o].seen \union {k}
    /\ k \in up'[o].seen => EventOf(c) = [obs |-> o, state |-> up[o].state]
    /\ up'[o].pc = "half" => up'[o].key = k /\ k \notin up'[o].seen /\ c.obs = o

\* A step of ranging over an inner map keeps MapsInv.
LEMMA RangeMaps ==
    ASSUME TypeOK, LocksHeld, MapsInv, NEW o \in Observers, NEW e \in Endpoints,
           NEW n \in 1..MaxMaps, NEW k \in Keys, NEW c \in Correlations, Present(c),
           Put(e, n, k, c), RangeBefore(o, e, n, k), RangeFrame(o), RangeAfter(o, e, n, k, c)
    PROVE  MapsInv'
<1>1. /\ maps'[e][n][k] = c
      /\ \A f \in Endpoints, m \in 1..MaxMaps, j \in Keys :
            f # e \/ m # n \/ j # k => maps'[f][m][j] = maps[f][m][j]
  <2>1. PutEffect(e, n, k, c)
        BY Zenon, PutChanges
  <2> QED BY Zenon, <2>1 DEF PutEffect
<1>2. \A p \in Observers : up[p].e \in Endpoints /\ up[p].seen \subseteq Keys
                           /\ up[p].key \in Keys /\ up[p].n \in 0..MaxMaps
      BY Zenon DEF TypeOK, Updates
<1>3. \A g \in Getters : get[g].e \in Endpoints /\ get[g].r \in Keys
      BY Zenon DEF TypeOK, Gets, Keys
<1>4. MapsMade'
  <2>1. \A p \in Observers : up'[p].pc \in {"range", "half"} =>
           up'[p].n = up[p].n /\ up'[p].e = up[p].e /\ up[p].pc \in {"range", "half"}
        BY Zenon DEF RangeBefore, RangeFrame, RangeAfter
  <2>2. UNCHANGED <<cur, made, get, reaper>> /\ MapsMade
        BY Zenon DEF RangeFrame, MapsInv
  <2> QED BY Zenon, <2>1, <2>2, PutMapsMade
<1>5. \A p \in Observers \ {o} : up[p].pc \in {"range", "half"} =>
         \A j \in Keys : maps'[up[p].e][up[p].n][j] = maps[up[p].e][up[p].n][j]
  <2> SUFFICES ASSUME NEW p \in Observers \ {o}, up[p].pc \in {"range", "half"}, NEW j \in Keys
               PROVE  maps'[up[p].e][up[p].n][j] = maps[up[p].e][up[p].n][j]
      BY Zenon
  <2>1. up[p].e # e
        BY DEF LocksHeld, RangeBefore
  <2>2. up[p].n \in 1..MaxMaps
        BY Zenon, InRange DEF MapsInv
  <2> QED BY <1>1, <1>2, <2>1, <2>2
<1>6. \A j \in Keys : Present(maps[e][n][j]) => Present(maps'[e][n][j])
      BY Zenon, <1>1
<1>7. RangeSound'
  <2> SUFFICES ASSUME NEW p \in Observers, up'[p].pc \in {"range", "half"}
               PROVE  /\ NoType \in up'[p].todo
                      /\ \A j \in up'[p].seen : j \in Keys /\ Present(maps'[up'[p].e][up'[p].n][j])
                      /\ up'[p].pc = "half" =>
                            /\ up'[p].key \in Keys \ up'[p].seen
                            /\ Present(maps'[up'[p].e][up'[p].n][up'[p].key])
                            /\ maps'[up'[p].e][up'[p].n][up'[p].key].obs = p
      BY ZenonT(30) DEF RangeSound, Stored
  <2>1. CASE p = o
    <3>1. NoType \in up[o].todo /\ \A j \in up[o].seen : j \in Keys /\ Present(maps[e][n][j])
          BY ZenonT(30) DEF MapsInv, RangeSound, Stored, RangeBefore
    <3>2. NoType \in up'[o].todo /\ up'[o].e = e /\ up'[o].n = n
          BY Zenon, <3>1 DEF RangeAfter
    <3>3. \A j \in up'[o].seen : j \in Keys /\ Present(maps'[e][n][j])
          BY Zenon, <3>1, <1>1, <1>6 DEF RangeAfter
    <3>4. up'[o].pc = "half" => /\ up'[o].key = k /\ k \notin up'[o].seen
                                /\ Present(maps'[e][n][k]) /\ maps'[e][n][k].obs = o
          BY Zenon, <1>1 DEF RangeAfter
    <3> QED BY Zenon, <2>1, <3>2, <3>3, <3>4
  <2>2. CASE p # o
    <3>1. up'[p] = up[p]
          BY Zenon, <2>2 DEF RangeFrame
    <3>2. /\ NoType \in up[p].todo
          /\ \A j \in up[p].seen : j \in Keys /\ Present(maps[up[p].e][up[p].n][j])
          /\ up[p].pc = "half" => /\ up[p].key \in Keys \ up[p].seen
                                  /\ Present(maps[up[p].e][up[p].n][up[p].key])
                                  /\ maps[up[p].e][up[p].n][up[p].key].obs = p
          BY ZenonT(30), <3>1 DEF MapsInv, RangeSound, Stored
    <3>3. \A j \in Keys : maps'[up[p].e][up[p].n][j] = maps[up[p].e][up[p].n][j]
          BY Zenon, <2>2, <3>1, <1>5
    <3>4. \A j \in up[p].seen : j \in Keys /\ Present(maps'[up[p].e][up[p].n][j])
          BY Zenon, <3>2, <3>3
    <3>5. up[p].pc = "half" => /\ up[p].key \in Keys \ up[p].seen
                               /\ Present(maps'[up[p].e][up[p].n][up[p].key])
                               /\ maps'[up[p].e][up[p].n][up[p].key].obs = p
          BY Zenon, <3>2, <3>3
    <3> QED BY Zenon, <3>1, <3>2, <3>4, <3>5
  <2> QED BY Zenon, <2>1, <2>2
<1>8. StoreSound'
  <2>a. get' = get
        BY Zenon DEF RangeFrame
  <2> SUFFICES ASSUME NEW g \in Getters, get[g].pc = "store"
               PROVE  /\ Present(get[g].copy)
                      /\ ~Present(maps'[get[g].e][get[g].n][get[g].r])
      BY Zenon, <2>a DEF StoreSound
  <2>1. get[g].n \in 1..MaxMaps
        BY ZenonT(30), InRange DEF MapsInv
  <2>2. Present(get[g].copy) /\ ~Present(maps[get[g].e][get[g].n][get[g].r])
        BY Zenon DEF MapsInv, StoreSound
  <2>3. get[g].e # e \/ get[g].n # n \/ get[g].r # k
        BY Zenon, <2>2 DEF RangeBefore
  <2>4. maps'[get[g].e][get[g].n][get[g].r] = maps[get[g].e][get[g].n][get[g].r]
        BY Zenon, <1>1, <1>3, <2>1, <2>3
  <2> QED BY ZenonT(30), <2>2, <2>4
<1>9. RangeWritesStick'
  <2> SUFFICES ASSUME NEW p \in Observers, up'[p].pc \in {"range", "half"},
                      NEW j \in up'[p].seen
               PROVE  EventOf(maps'[up'[p].e][up'[p].n][j])
                         = [obs |-> p, state |-> up'[p].state]
      BY Zenon DEF RangeWritesStick
  <2>1. CASE p = o /\ j = k
        BY Zenon, <2>1, <1>1 DEF RangeAfter
  <2>2. CASE p = o /\ j # k
    <3>1. j \in up[o].seen /\ j \in Keys
          BY Zenon, <2>2, <1>2 DEF RangeAfter
    <3>2. maps'[e][n][j] = maps[e][n][j]
          BY Zenon, <2>2, <3>1, <1>1
    <3>3. EventOf(maps[e][n][j]) = [obs |-> o, state |-> up[o].state]
          BY Zenon, <3>1 DEF MapsInv, RangeWritesStick, RangeBefore
    <3> QED BY ZenonT(30), <2>2, <3>2, <3>3 DEF RangeAfter
  <2>3. CASE p # o
    <3>1. up'[p] = up[p] /\ j \in Keys
          BY Zenon, <2>3, <1>2 DEF RangeFrame
    <3>2. EventOf(maps[up[p].e][up[p].n][j]) = [obs |-> p, state |-> up[p].state]
          BY Zenon, <3>1 DEF MapsInv, RangeWritesStick
    <3>3. maps'[up[p].e][up[p].n][j] = maps[up[p].e][up[p].n][j]
          BY Zenon, <2>3, <3>1, <1>5
    <3> QED BY ZenonT(30), <3>1, <3>2, <3>3
  <2> QED BY ZenonT(30), <2>1, <2>2, <2>3
<1> QED BY Zenon, <1>4, <1>7, <1>8, <1>9 DEF MapsInv

\* The steps of UpdateEndpoint keep MapsInv.
LEMMA UpdateMaps ==
    ASSUME TypeOK, LocksHeld, MapsInv, NEW o \in Observers, UpdateEndpoint(o) PROVE MapsInv'
<1>0. /\ up \in [Observers -> Updates] /\ up[o] \in Updates /\ up[o].e \in Endpoints
      /\ up[o].state \in EndpointStates
      BY Zenon DEF TypeOK, Updates
<1>a. \A p \in Observers \ {o} : up'[p] = up[p]
      BY Zenon, <1>0 DEF UpdateEndpoint, UpdateCall, UpdateNew, UpdateKnown,
         RangeObserver,
            RangeState, UpdateReturn
<1>1. ASSUME NEW e \in Endpoints, NEW s \in EndpointStates, UpdateCall(o, e, s) PROVE MapsInv'
  <2>1. up'[o].pc = "lock"
        BY Zenon, <1>1, <1>0 DEF UpdateCall, IdleUpdate
  <2> QED BY Zenon, <1>1, <1>a, <2>1, CallMaps DEF UpdateCall
<1>2. CASE UpdateNew(o)
  <2> DEFINE c == [obs |-> o, state |-> up[o].state, age |-> "fresh"]
  <2>1. c \in Correlations /\ Present(c)
        BY Zenon, <1>0 DEF Correlations, Present, EndpointStates
  <2>2. up'[o].pc = "idle"
        BY Zenon, <1>2, <1>0 DEF UpdateNew, IdleUpdate
  <2>3. StoreNewMap(up[o].e, c) /\ cur[up[o].e] = 0 /\ UNCHANGED <<get, reaper>>
        BY Zenon, <1>2 DEF UpdateNew
  <2>4. \A p \in Observers : up'[p].pc \in {"range", "half"} => up'[p] = up[p]
        BY Zenon, <1>a, <2>2
  <2> HIDE DEF c
  <2>5. NewMapCalls(up[o].e)
        BY Zenon, <2>3, <2>4 DEF NewMapCalls
  <2> QED BY Zenon, <1>0, <2>1, <2>3, <2>5, NewMapMaps
<1>3. CASE UpdateKnown(o)
  <2> DEFINE e == up[o].e
  <2>1. /\ up'[o] = [up[o] EXCEPT !.pc = "range", !.n = cur[e], !.todo = Stored(e, cur[e]),
                            !.seen = {}]
        /\ cur[e] # 0 /\ cur[e] \in 1..MaxMaps /\ UNCHANGED <<cur, made, maps, get, reaper>>
        BY <1>3, <1>0, StoreAssumption DEF UpdateKnown, TypeOK
  <2>2. up'[o].pc = "range" /\ up'[o].n = cur[e] /\ up'[o].todo = Stored(e, cur[e])
        /\ up'[o].e = e /\ up'[o].seen = {}
        BY Zenon, <1>0, <2>1 DEF Updates
  <2>3. NoType \in Stored(e, cur[e])
    <3>1. cur[e] \in 1..made[e]
          BY <1>0, <2>1 DEF MapsInv, MapsMade, TypeOK
    <3> QED BY Zenon, <1>0, <3>1 DEF MapsInv, MapsMade, Stored, Keys
  <2> QED BY Zenon, <1>a, <2>1, <2>2, <2>3, CallMaps
<1>4. ASSUME NEW k \in Keys, RangeObserver(o, k) PROVE MapsInv'
  <2> DEFINE e == up[o].e
             n == up[o].n
             c == [maps[e][n][k] EXCEPT !.obs = o]
  <2>1. /\ up[o].pc = "range" /\ k \in Stored(e, n) /\ k \notin up[o].seen
        /\ Put(e, n, k, c) /\ UNCHANGED <<cur, made, get, reaper>>
        /\ up'[o] = [up[o] EXCEPT !.pc = "half", !.key = k]
        BY Zenon, <1>4, <1>0 DEF RangeObserver
  <2>2. n \in 1..MaxMaps
        BY SMTT(60), <1>0, <2>1, StoreAssumption DEF MapsInv, MapsMade, TypeOK
  <2>3. maps[e][n][k] \in Correlations /\ Present(maps[e][n][k])
        BY Zenon, <1>0, <2>1, <2>2, EntryType DEF Stored
  <2>4. c \in Correlations /\ Present(c) /\ c.obs = o
    <3>1. c.state = maps[e][n][k].state /\ c.obs = o
          BY Zenon, <2>3 DEF Correlations
    <3> QED BY Zenon, <2>3, <3>1, FieldTypes DEF Present
  <2>5. /\ up'[o].pc = "half" /\ up'[o].key = k /\ up'[o].n = n /\ up'[o].e = e
        /\ up'[o].todo = up[o].todo /\ up'[o].seen = up[o].seen /\ up'[o].state = up[o].state
        BY Zenon, <1>0, <2>1 DEF Updates
  <2> HIDE DEF c
  <2>6. RangeFrame(o)
        BY Zenon, <1>a, <2>1 DEF RangeFrame
  <2>7. RangeBefore(o, e, n, k)
        BY Zenon, <2>1, <2>3 DEF RangeBefore
  <2>8. RangeAfter(o, e, n, k, c)
        BY Zenon, <2>1, <2>4, <2>5 DEF RangeAfter
  <2> QED BY Zenon, <1>0, <2>1, <2>2, <2>4, <2>6, <2>7, <2>8, RangeMaps
<1>5. CASE RangeState(o)
  <2> DEFINE e == up[o].e
             n == up[o].n
             k == up[o].key
             c == [maps[e][n][k] EXCEPT !.state = up[o].state, !.age = "fresh"]
  <2>1. /\ up[o].pc = "half" /\ Put(e, n, k, c) /\ UNCHANGED <<cur, made, get, reaper>>
        /\ up'[o] = [up[o] EXCEPT !.pc = "range", !.seen = up[o].seen \union {k}]
        BY Zenon, <1>5, <1>0 DEF RangeState
  <2>2. n \in 1..MaxMaps
        BY Zenon, <2>1, InRange DEF MapsInv
  <2>a. /\ k \in Keys /\ k \notin up[o].seen
        /\ Present(maps[e][n][k]) /\ maps[e][n][k].obs = o
        BY Zenon, <2>1 DEF MapsInv, RangeSound, Stored
  <2>3. maps[e][n][k] \in Correlations
        BY Zenon, <1>0, <2>2, <2>a, EntryType
  <2>4. c \in Correlations
        BY Zenon, <1>0, <2>3, FieldTypes
  <2>5. c.state = up[o].state /\ c.obs = o
        BY Zenon, <2>3, <2>a DEF Correlations
  <2>6. Present(c)
        BY SMTT(30), <1>0, <2>5 DEF Present, EndpointStates
  <2>7. EventOf(c) = [obs |-> o, state |-> up[o].state]
        BY Zenon, <2>5 DEF EventOf
  <2>8. /\ up'[o].pc = "range" /\ up'[o].n = n /\ up'[o].e = e
        /\ up'[o].todo = up[o].todo /\ up'[o].state = up[o].state
        /\ up'[o].seen = up[o].seen \union {k}
        BY Zenon, <1>0, <2>1 DEF Updates
  <2> HIDE DEF c
  <2>9. RangeFrame(o)
        BY Zenon, <1>a, <2>1 DEF RangeFrame
  <2>10. RangeBefore(o, e, n, k)
         BY ZenonT(30), <2>1, <2>a DEF RangeBefore
  <2>11. RangeAfter(o, e, n, k, c)
         BY Zenon, <2>7, <2>8 DEF RangeAfter
  <2> QED BY ZenonT(30), <1>0, <2>1, <2>2, <2>a, <2>4, <2>6, <2>9, <2>10, <2>11,
             RangeMaps
<1>6. CASE UpdateReturn(o)
  <2>1. up'[o].pc = "idle"
        BY Zenon, <1>6, <1>0 DEF UpdateReturn, IdleUpdate
  <2> QED BY ZenonT(30), <1>6, <1>a, <2>1, CallMaps DEF UpdateReturn
<1> QED BY Zenon, <1>1, <1>2, <1>3, <1>4, <1>5, <1>6 DEF UpdateEndpoint

\* The steps of GetOrCreate keep MapsInv.
LEMMA GetMaps ==
    ASSUME TypeOK, LocksHeld, MapsInv, NEW g \in Getters, GetOrCreate(g) PROVE MapsInv'
<1>0. /\ get \in [Getters -> Gets] /\ get[g] \in Gets /\ get[g].e \in Endpoints
      /\ get[g].r \in Receivers /\ get[g].r \in Keys /\ NoType \in Keys
      BY Zenon DEF TypeOK, Gets, Keys
<1>a. UNCHANGED <<up, reaper>> /\ \A h \in Getters \ {g} : get'[h] = get[h]
      BY Zenon, <1>0 DEF GetOrCreate, GetCall, GetMap, GetLockReceiver, GetExisting,
         GetCopy, GetStore
<1>b. ASSUME UNCHANGED <<cur, made, maps>>,
             get'[g].pc \in {"receiver", "load", "store"} =>
                 get'[g].n \in 1..made[get'[g].e],
             get'[g].pc = "store" => /\ Present(get'[g].copy)
                                     /\ ~Present(maps[get'[g].e][get'[g].n][get'[g].r])
      PROVE  MapsInv'
  <2>1. MapsMade'
        BY Zenon, <1>a, <1>b DEF MapsInv, MapsMade
  <2>2. RangeSound' /\ RangeWritesStick'
        BY Zenon, <1>a, <1>b DEF MapsInv, RangeSound, RangeWritesStick, Stored
  <2>3. StoreSound'
        BY Zenon, <1>a, <1>b DEF MapsInv, StoreSound
  <2> QED BY Zenon, <2>1, <2>2, <2>3 DEF MapsInv
<1>1. ASSUME NEW r \in Receivers, NEW e \in Endpoints, GetCall(g, r, e) PROVE MapsInv'
  <2>1. get'[g].pc = "lock"
        BY Zenon, <1>1, <1>0 DEF GetCall, IdleGet
  <2> QED BY Zenon, <1>1, <1>b, <2>1 DEF GetCall
<1>2. CASE GetMap(g)
  <2> DEFINE e == get[g].e
  <2>1. get'[g].pc = "receiver" /\ get'[g].e = e /\ get'[g].n = cur'[e]
        BY Zenon, <1>2, <1>0 DEF GetMap, Gets
  <2>2. CASE cur[e] # 0
    <3>1. UNCHANGED <<cur, made, maps>>
          BY Zenon, <1>2, <2>2 DEF GetMap
    <3>2. cur[e] \in 1..made[e]
          BY <1>0, <2>2 DEF MapsInv, MapsMade, TypeOK
    <3> QED BY Zenon, <1>b, <2>1, <3>1, <3>2
  <2>3. CASE cur[e] = 0
    <3>1. StoreNewMap(e, newCorrelation)
          BY Zenon, <1>2, <2>3 DEF GetMap
    <3>2. newCorrelation \in Correlations /\ Present(newCorrelation)
          BY Zenon DEF newCorrelation, Correlations, Present
    <3>3. NewMapCalls(get[g].e)
          BY Zenon, <1>a, <2>1, <3>1, <3>2 DEF NewMapCalls
    <3> QED BY Zenon, <1>0, <2>3, <3>1, <3>2, <3>3, NewMapMaps
  <2> QED BY Zenon, <2>2, <2>3
<1>3. CASE GetLockReceiver(g)
  <2>1. /\ UNCHANGED <<cur, made, maps>> /\ get[g].pc = "receiver"
        /\ get'[g].pc = "load" /\ get'[g].n = get[g].n /\ get'[g].e = get[g].e
        BY Zenon, <1>3, <1>0 DEF GetLockReceiver, Gets
  <2> QED BY Zenon, <1>b, <2>1 DEF MapsInv, MapsMade
<1>4. CASE GetExisting(g)
  <2>1. UNCHANGED <<cur, made, maps>> /\ get'[g].pc = "idle"
        BY Zenon, <1>4, <1>0 DEF GetExisting, IdleGet
  <2> QED BY Zenon, <1>b, <2>1
<1>5. CASE GetCopy(g)
  <2> DEFINE c == maps[get[g].e][get[g].n][NoType]
  <2>1. /\ UNCHANGED <<cur, made, maps>> /\ get[g].pc = "load"
        /\ ~Present(maps[get[g].e][get[g].n][get[g].r])
        /\ get'[g] = [get[g] EXCEPT !.pc = "store", !.copy = c]
        BY Zenon, <1>5, <1>0 DEF GetCopy
  <2>2. /\ get'[g].pc = "store" /\ get'[g].n = get[g].n /\ get'[g].e = get[g].e
        /\ get'[g].r = get[g].r /\ get'[g].copy = c
        BY Zenon, <1>0, <2>1 DEF Gets
  <2>3. get[g].n \in 1..made[get[g].e]
        BY Zenon, <2>1 DEF MapsInv, MapsMade
  <2>4. Present(c)
        BY Zenon, <1>0, <2>3 DEF MapsInv, MapsMade
  <2> HIDE DEF c
  <2> QED BY Zenon, <1>b, <2>1, <2>2, <2>3, <2>4
<1>6. CASE GetStore(g)
  <2> DEFINE e == get[g].e
             n == get[g].n
             k == get[g].r
             c == get[g].copy
  <2>1. /\ get[g].pc = "store" /\ Put(e, n, k, c) /\ UNCHANGED <<cur, made>>
        /\ get'[g].pc = "idle"
        BY Zenon, <1>6, <1>0 DEF GetStore, IdleGet
  <2>2. /\ n \in 1..MaxMaps /\ c \in Correlations
        /\ Present(c) /\ ~Present(maps[e][n][k])
    <3>1. n \in 1..MaxMaps
          BY Zenon, <2>1, InRange DEF MapsInv
    <3>2. c \in Correlations
          BY SMTT(30), <1>0 DEF Gets
    <3> QED BY Zenon, <2>1, <3>1, <3>2 DEF MapsInv, StoreSound
  <2>3. /\ maps'[e][n][k] = c
        /\ \A f \in Endpoints, m \in 1..MaxMaps, j \in Keys :
              f # e \/ m # n \/ j # k => maps'[f][m][j] = maps[f][m][j]
    <3>1. PutEffect(e, n, k, c)
          BY Zenon, <1>0, <2>1, <2>2, PutChanges
    <3> QED BY Zenon, <3>1 DEF PutEffect
  <2>4. MapsMade'
        BY Zenon, <1>0, <1>a, <2>1, <2>2, PutMapsMade DEF MapsInv
  <2>5. \A p \in Observers : up[p].pc \in {"range", "half"} =>
           /\ up[p].e \in Endpoints /\ up[p].n \in 1..MaxMaps
           /\ NoType \in up[p].todo
           /\ \A j \in up[p].seen : j \in Keys /\ Present(maps[up[p].e][up[p].n][j])
           /\ up[p].pc = "half" => /\ up[p].key \in Keys \ up[p].seen
                                   /\ Present(maps[up[p].e][up[p].n][up[p].key])
                                   /\ maps[up[p].e][up[p].n][up[p].key].obs = p
    <3>1. \A p \in Observers : up[p].e \in Endpoints
          BY Zenon DEF TypeOK, Updates
    <3> QED BY Zenon, <3>1, InRange DEF MapsInv, RangeSound, Stored
  <2>6. \A p \in Observers : up[p].pc \in {"range", "half"} =>
           \A j \in Keys : Present(maps[up[p].e][up[p].n][j]) =>
              maps'[up[p].e][up[p].n][j] = maps[up[p].e][up[p].n][j]
    <3> SUFFICES ASSUME NEW p \in Observers, up[p].pc \in {"range", "half"}, NEW j \in Keys,
                        Present(maps[up[p].e][up[p].n][j])
                 PROVE  maps'[up[p].e][up[p].n][j] = maps[up[p].e][up[p].n][j]
        BY ZenonT(30)
    <3>1. up[p].e # e \/ up[p].n # n \/ j # k
          BY Zenon, <2>2
    <3>2. up[p].e \in Endpoints /\ up[p].n \in 1..MaxMaps
          BY Zenon, <2>5
    <3> QED BY Zenon, <2>3, <3>1, <3>2
  <2>7. RangeSound'
    <3> SUFFICES ASSUME NEW p \in Observers, up[p].pc \in {"range", "half"}
                 PROVE  /\ NoType \in up[p].todo
                        /\ \A j \in up[p].seen : j \in Keys /\ Present(maps'[up[p].e][up[p].n][j])
                        /\ up[p].pc = "half" =>
                              /\ up[p].key \in Keys \ up[p].seen
                              /\ Present(maps'[up[p].e][up[p].n][up[p].key])
                              /\ maps'[up[p].e][up[p].n][up[p].key].obs = p
        BY Zenon, <1>a DEF RangeSound, Stored
    <3>1. ASSUME NEW j \in up[p].seen
          PROVE  j \in Keys /\ Present(maps'[up[p].e][up[p].n][j])
      <4>1. j \in Keys /\ Present(maps[up[p].e][up[p].n][j])
            BY Zenon, <2>5
      <4>2. maps'[up[p].e][up[p].n][j] = maps[up[p].e][up[p].n][j]
            BY Zenon, <4>1, <2>6
      <4> QED BY Zenon, <4>1, <4>2
    <3>2. ASSUME up[p].pc = "half"
          PROVE  /\ up[p].key \in Keys \ up[p].seen
                 /\ Present(maps'[up[p].e][up[p].n][up[p].key])
                 /\ maps'[up[p].e][up[p].n][up[p].key].obs = p
      <4>1. /\ up[p].key \in Keys \ up[p].seen
            /\ Present(maps[up[p].e][up[p].n][up[p].key])
            /\ maps[up[p].e][up[p].n][up[p].key].obs = p
            BY Zenon, <3>2, <2>5
      <4>2. maps'[up[p].e][up[p].n][up[p].key] = maps[up[p].e][up[p].n][up[p].key]
            BY ZenonT(30), <4>1, <2>6
      <4> QED BY Zenon, <4>1, <4>2
    <3> QED BY Zenon, <2>5, <3>1, <3>2
  <2>8. RangeWritesStick'
    <3> SUFFICES ASSUME NEW p \in Observers, up[p].pc \in {"range", "half"}, NEW j \in up[p].seen
                 PROVE  EventOf(maps'[up[p].e][up[p].n][j]) = [obs |-> p, state |-> up[p].state]
        BY Zenon, <1>a DEF RangeWritesStick
    <3>1. maps'[up[p].e][up[p].n][j] = maps[up[p].e][up[p].n][j]
          BY Zenon, <2>5, <2>6
    <3>2. EventOf(maps[up[p].e][up[p].n][j]) = [obs |-> p, state |-> up[p].state]
          BY Zenon DEF MapsInv, RangeWritesStick
    <3> QED BY Zenon, <3>1, <3>2
  <2>9. StoreSound'
    <3> SUFFICES ASSUME NEW h \in Getters, get'[h].pc = "store"
                 PROVE  /\ Present(get'[h].copy)
                        /\ ~Present(maps'[get'[h].e][get'[h].n][get'[h].r])
        BY Zenon DEF StoreSound
    <3>1. h # g /\ get'[h] = get[h] /\ get[h].e \in Endpoints /\ get[h].r \in Receivers
          BY Zenon, <1>a, <2>1 DEF TypeOK, Gets
    <3>2. get[h].r # k
          BY <1>0, <2>1, <3>1 DEF LocksHeld
    <3>3. get[h].n \in 1..MaxMaps
          BY Zenon, <3>1, InRange DEF MapsInv
    <3>4. maps'[get[h].e][get[h].n][get[h].r] = maps[get[h].e][get[h].n][get[h].r]
          BY Zenon, <2>3, <3>1, <3>2, <3>3 DEF Keys
    <3> QED BY ZenonT(30), <3>1, <3>4 DEF MapsInv, StoreSound
  <2> QED BY Zenon, <2>4, <2>7, <2>8, <2>9 DEF MapsInv
<1> QED BY Zenon, <1>1, <1>2, <1>3, <1>4, <1>5, <1>6 DEF GetOrCreate
====
