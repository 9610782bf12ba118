------------------------ MODULE CorrelationStoreProofs ------------------------
(***************************************************************************)
(* The correlation store: the inductive invariant, no reported event is     *)
(* lost, the store implements the endpoint registry, and every correlation  *)
(* is stored once.                                                          *)
(***************************************************************************)
EXTENDS CorrelationMapProofs

\* The steps of the reaper keep MapsInv.
LEMMA ReapMaps ==
    ASSUME TypeOK, LocksHeld, MapsInv,
           LoopStep \/ (\E e \in Endpoints : ReapVisit(e) \/ Expire(e)) \/ ReapEndpoint
    PROVE  MapsInv'
<1>0. UNCHANGED <<made, epLock, recLock, up, get, events, last>>
      BY Zenon, ReapFrame
<1>a. reaper \in Reaps /\ reaper.e \in Endpoints /\ reaper.todo \subseteq Endpoints
      BY Zenon DEF TypeOK, Reaps
<1>b. ASSUME UNCHANGED <<cur, maps>>,
             reaper'.pc \in {"range", "lock"} => \A e \in reaper'.todo : cur[e] # 0,
             reaper'.pc = "lock" => reaper'.n = cur[reaper'.e] /\ cur[reaper'.e] # 0
                                    /\ reaper'.e \notin reaper'.todo
      PROVE  MapsInv'
  <2>1. MapsMade'
        BY Zenon, <1>0, <1>b DEF MapsInv, MapsMade
  <2>2. RangeSound' /\ RangeWritesStick'
        BY Zenon, <1>0, <1>b DEF MapsInv, RangeSound, RangeWritesStick, Stored
  <2>3. StoreSound'
        BY Zenon, <1>0, <1>b DEF MapsInv, StoreSound
  <2> QED BY Zenon, <2>1, <2>2, <2>3 DEF MapsInv
<1>1. CASE Start \/ Stop \/ ReapExit \/ ReapDone
  <2>1. UNCHANGED <<cur, maps>> /\ (reaper' = reaper \/ reaper'.pc \in {"select", "ended"})
        BY Zenon, <1>1, <1>a, IdleTypes DEF Start, Stop, ReapExit, ReapDone, Reaps
  <2> QED BY Zenon, <1>b, <2>1 DEF MapsInv, MapsMade
<1>2. CASE ReapTick
  <2>1. UNCHANGED <<cur, maps>> /\ reaper'.pc = "range"
        /\ reaper'.todo = {e \in Endpoints : cur[e] # 0}
        BY Zenon, <1>2, IdleTypes DEF ReapTick, Reaps
  <2> QED BY Zenon, <1>b, <2>1
<1>3. ASSUME NEW e \in Endpoints, ReapVisit(e) PROVE MapsInv'
  <2>1. /\ UNCHANGED <<cur, maps>> /\ reaper.pc = "range" /\ e \in reaper.todo
        /\ reaper'.pc = "lock" /\ reaper'.e = e /\ reaper'.n = cur[e]
        /\ reaper'.todo = reaper.todo \ {e}
        BY ZenonT(30), <1>3, <1>a DEF ReapVisit, Reaps
  <2>2. \A f \in reaper.todo : cur[f] # 0
        BY Zenon, <2>1 DEF MapsInv, MapsMade
  <2> QED BY Zenon, <1>b, <2>1, <2>2
<1>4. ASSUME NEW e \in Endpoints, Expire(e) PROVE MapsInv'
  <2> DEFINE n == cur[e]
             c == [maps[e][n][NoType] EXCEPT !.age = "old"]
  <2>1. Put(e, n, NoType, c) /\ n # 0 /\ UNCHANGED <<cur, reaper>> /\ NoType \in Keys
        BY Zenon, <1>4 DEF Expire, Keys
  <2>2. n \in 1..MaxMaps /\ n \in 1..made[e]
        BY <2>1, StoreAssumption DEF TypeOK, MapsInv, MapsMade
  <2>3. maps[e][n][NoType] \in Correlations /\ Present(maps[e][n][NoType])
        BY Zenon, <2>1, <2>2, EntryType DEF MapsInv, MapsMade
  <2>4. c \in Correlations /\ c.state = maps[e][n][NoType].state /\ c.obs = maps[e][n][NoType].obs
        BY Zenon, <2>3, FieldTypes DEF Correlations
  <2>5. Present(c) /\ EventOf(c) = EventOf(maps[e][n][NoType])
        BY Zenon, <2>3, <2>4 DEF Present, EventOf
  <2> HIDE DEF c
  <2>6. /\ maps'[e][n][NoType] = c
        /\ \A f \in Endpoints, m \in 1..MaxMaps, j \in Keys :
              f # e \/ m # n \/ j # NoType => maps'[f][m][j] = maps[f][m][j]
        BY <2>1, <2>2, <2>4, PutFacts
  <2>7. MapsMade'
        BY Zenon, <1>0, <2>1, <2>2, <2>4, <2>5, PutMapsMade DEF MapsInv
  <2>8. \A f \in Endpoints, m \in 1..MaxMaps, j \in Keys :
           /\ Present(maps[f][m][j]) => Present(maps'[f][m][j])
           /\ maps'[f][m][j].obs = maps[f][m][j].obs
           /\ EventOf(maps'[f][m][j]) = EventOf(maps[f][m][j])
        BY <2>2, <2>4, <2>5, <2>6
  <2>9. \A p \in Observers : up[p].pc \in {"range", "half"} =>
           up[p].e \in Endpoints /\ up[p].n \in 1..MaxMaps /\ up[p].seen \subseteq Keys
    <3>1. \A p \in Observers : up[p].e \in Endpoints /\ up[p].seen \subseteq Keys
          BY Zenon DEF TypeOK, Updates
    <3> QED BY Zenon, <3>1, InRange DEF MapsInv
  <2>10. RangeSound'
    <3> SUFFICES ASSUME NEW p \in Observers, up[p].pc \in {"range", "half"}
                 PROVE  /\ NoType \in up[p].todo
                        /\ \A j \in up[p].seen : j \in Keys /\ Present(maps'[up[p].e][up[p].n][j])
                        /\ up[p].pc = "half" =>
                              /\ up[p].key \in Keys \ up[p].seen
                              /\ Present(maps'[up[p].e][up[p].n][up[p].key])
                              /\ maps'[up[p].e][up[p].n][up[p].key].obs = p
        BY Zenon, <1>0 DEF RangeSound, Stored
    <3>1. /\ NoType \in up[p].todo
          /\ \A j \in up[p].seen : j \in Keys /\ Present(maps[up[p].e][up[p].n][j])
          /\ up[p].pc = "half" => /\ up[p].key \in Keys \ up[p].seen
                                  /\ Present(maps[up[p].e][up[p].n][up[p].key])
                                  /\ maps[up[p].e][up[p].n][up[p].key].obs = p
          BY Zenon DEF MapsInv, RangeSound, Stored
    <3>2. \A j \in up[p].seen : Present(maps'[up[p].e][up[p].n][j])
          BY Zenon, <2>8, <2>9, <3>1
    <3>3. up[p].pc = "half" => /\ Present(maps'[up[p].e][up[p].n][up[p].key])
                               /\ maps'[up[p].e][up[p].n][up[p].key].obs = p
          BY Zenon, <2>8, <2>9, <3>1
    <3> QED BY Zenon, <3>1, <3>2, <3>3
  <2>11. RangeWritesStick'
    <3> SUFFICES ASSUME NEW p \in Observers, up[p].pc \in {"range", "half"}, NEW j \in up[p].seen
                 PROVE  EventOf(maps'[up[p].e][up[p].n][j]) = [obs |-> p, state |-> up[p].state]
        BY Zenon, <1>0 DEF RangeWritesStick
    <3>1. EventOf(maps[up[p].e][up[p].n][j]) = [obs |-> p, state |-> up[p].state]
          BY Zenon DEF MapsInv, RangeWritesStick
    <3> QED BY ZenonT(30), <2>8, <2>9, <3>1
  <2>12. StoreSound'
    <3> SUFFICES ASSUME NEW h \in Getters, get[h].pc = "store"
                 PROVE  /\ Present(get[h].copy)
                        /\ ~Present(maps'[get[h].e][get[h].n][get[h].r])
        BY ZenonT(30), <1>0 DEF StoreSound
    <3>1. get[h].e \in Endpoints /\ get[h].r \in Keys /\ get[h].r # NoType
          BY StoreAssumption DEF TypeOK, Gets, Keys
    <3>2. get[h].n \in 1..MaxMaps
          BY Zenon, InRange DEF MapsInv
    <3>3. maps'[get[h].e][get[h].n][get[h].r] = maps[get[h].e][get[h].n][get[h].r]
          BY Zenon, <2>6, <3>1, <3>2
    <3> QED BY Zenon, <3>3 DEF MapsInv, StoreSound
  <2> QED BY Zenon, <2>7, <2>10, <2>11, <2>12 DEF MapsInv
<1>5. CASE ReapEndpoint
  <2>1. /\ reaper.pc = "lock" /\ epLock[reaper.e] = Nobody /\ maps' = maps
        /\ reaper'.pc = "range" /\ reaper'.todo = reaper.todo
        /\ \A f \in Endpoints \ {reaper.e} : cur'[f] = cur[f]
        /\ cur'[reaper.e] = cur[reaper.e] \/ cur'[reaper.e] = 0
        BY Zenon, <1>5, <1>a DEF ReapEndpoint, Reaps, TypeOK
  <2>2. /\ reaper.e \notin reaper.todo /\ cur[reaper.e] # 0
        /\ \A f \in reaper.todo : cur[f] # 0
        BY Zenon, <2>1 DEF MapsInv, MapsMade
  <2>3. \A o \in Observers : up[o].pc \in {"range", "half"} =>
           up[o].e \in Endpoints /\ up[o].e # reaper.e
        BY <1>a, <2>1, StoreAssumption DEF LocksHeld, TypeOK, Updates
  <2>4. MapsMade'
    <3>1. \A f \in Endpoints : cur'[f] <= made[f]
      <4>1. \A f \in Endpoints : cur[f] <= made[f]
            BY Zenon DEF MapsInv, MapsMade
      <4>2. \A f \in Endpoints : cur'[f] = cur[f] \/ cur'[f] = 0
            BY Zenon, <2>1
      <4>3. \A f \in Endpoints : made[f] \in 0..MaxMaps
            BY Zenon DEF TypeOK
      <4> QED BY <4>1, <4>2, <4>3, StoreAssumption
    <3>2. \A f \in Endpoints : \A n \in 1..made[f] : Present(maps[f][n][NoType])
          BY Zenon DEF MapsInv, MapsMade
    <3>3. \A o \in Observers : up[o].pc \in {"range", "half"} =>
             up[o].n = cur'[up[o].e] /\ cur'[up[o].e] # 0
          BY ZenonT(30), <2>1, <2>3 DEF MapsInv, MapsMade
    <3>4. \A f \in reaper'.todo : cur'[f] # 0
          BY Zenon, <1>a, <2>1, <2>2
    <3>5. \A g \in Getters : get[g].pc \in {"receiver", "load", "store"} =>
             get[g].n \in 1..made[get[g].e]
          BY Zenon DEF MapsInv, MapsMade
    <3> QED BY Zenon, <1>0, <2>1, <3>1, <3>2, <3>3, <3>4, <3>5 DEF MapsMade
  <2>5. RangeSound' /\ RangeWritesStick'
        BY Zenon, <1>0, <2>1 DEF MapsInv, RangeSound, RangeWritesStick, Stored
  <2>6. StoreSound'
        BY Zenon, <1>0, <2>1 DEF MapsInv, StoreSound
  <2> QED BY Zenon, <2>4, <2>5, <2>6 DEF MapsInv
<1> QED BY Zenon, <1>1, <1>2, <1>3, <1>4, <1>5 DEF LoopStep

-----------------------------------------------------------------------------
(* The last event is kept.                                                 *)

\* The steps of UpdateEndpoint keep the last event.
LEMMA UpdateKeeps ==
    ASSUME IndInv, TypeOK', NEW o \in Observers, UpdateEndpoint(o) PROVE LastEventKept'
<1>0. /\ TypeOK /\ LocksHeld /\ MapsInv /\ LastEventKept
      /\ up \in [Observers -> Updates] /\ up[o] \in Updates /\ up[o].e \in Endpoints
      BY Zenon DEF IndInv, MapsInv, TypeOK, Updates
<1>1. ASSUME NEW e \in Endpoints, NEW s \in EndpointStates, UpdateCall(o, e, s) PROVE LastEventKept'
      BY Zenon, <1>0, <1>1 DEF UpdateCall, LastEventKept, NoTypeOf
<1>2. CASE UpdateNew(o)
  <2> DEFINE e == up[o].e
             c == [obs |-> o, state |-> up[o].state, age |-> "fresh"]
  <2>1. c \in Correlations /\ EventOf(c) = [obs |-> o, state |-> up[o].state]
        BY ZenonT(30), <1>0 DEF Correlations, EventOf, Updates
  <2>2. StoreNewMap(e, c) /\ epLock' = epLock /\ cur[e] = 0
        BY Zenon, <1>2 DEF UpdateNew
  <2>3. /\ last'[e] = [obs |-> o, state |-> up[o].state]
        /\ \A f \in Endpoints : f # e => last'[f] = last[f]
        BY Zenon, <1>0, <1>2 DEF UpdateNew, TypeOK
  <2> HIDE DEF c
  <2>4. /\ cur'[e] = made[e] + 1 /\ made[e] + 1 \in 1..MaxMaps /\ maps'[e][made[e] + 1][NoType] = c
        /\ \A f \in Endpoints : f # e => cur'[f] = cur[f]
        /\ \A f \in Endpoints, m \in 1..MaxMaps, j \in Keys :
              f # e \/ m # made[e] + 1 => maps'[f][m][j] = maps[f][m][j]
        BY Zenon, <1>0, <2>1, <2>2, NewMapFacts
  <2> SUFFICES ASSUME NEW f \in Endpoints, epLock[f] \notin Observers
               PROVE \/ cur'[f] # 0 /\ EventOf(maps'[f][cur'[f]][NoType]) = last'[f]
                     \/ cur'[f] = 0 /\ (last'[f] = NoEvent \/ last'[f].state = "removed")
                     \/ /\ cur'[f] # 0 /\ last'[f].state = "removed"
                        /\ maps'[f][cur'[f]][NoType] = newCorrelation
      BY Zenon, <2>2 DEF LastEventKept, NoTypeOf
  <2>5. CASE f = e
        BY <2>5, <2>1, <2>3, <2>4
  <2>6. CASE f # e
    <3>1. cur'[f] = cur[f] /\ last'[f] = last[f]
          BY Zenon, <2>6, <2>3, <2>4
    <3>2. cur[f] # 0 => maps'[f][cur[f]][NoType] = maps[f][cur[f]][NoType]
          BY Zenon, <2>6, <2>4, <1>0, CurRange
    <3> QED BY Zenon, <1>0, <3>1, <3>2 DEF LastEventKept, NoTypeOf
  <2> QED BY Zenon, <2>5, <2>6
<1>3. CASE UpdateKnown(o)
  <2>1. /\ UNCHANGED <<cur, maps, last>>
        /\ epLock' = [epLock EXCEPT ![up[o].e] = o]
        BY Zenon, <1>3 DEF UpdateKnown
  <2> QED BY Zenon, <1>0, <2>1 DEF LastEventKept, NoTypeOf, TypeOK
<1>4. ASSUME NEW k \in Keys, NEW c \in Correlations, up[o].pc \in {"range", "half"},
             Put(up[o].e, up[o].n, k, c), UNCHANGED <<cur, epLock, last>>
      PROVE  LastEventKept'
  <2> DEFINE e == up[o].e
             n == up[o].n
  <2>1. n \in 1..MaxMaps
        BY Zenon, <1>0, <1>4, InRange DEF MapsInv
  <2>2. \A f \in Endpoints, m \in 1..MaxMaps : f # e => maps'[f][m][NoType] = maps[f][m][NoType]
    <3>1. \A f \in Endpoints, m \in 1..MaxMaps, j \in Keys :
             f # e \/ m # n \/ j # k => maps'[f][m][j] = maps[f][m][j]
      <4>1. PutEffect(e, n, k, c)
            BY Zenon, <1>0, <1>4, <2>1, PutChanges
      <4> QED BY Zenon, <4>1 DEF PutEffect
    <3> QED BY Zenon, <1>0, <3>1, CurRange
  <2>3. epLock[e] \in Observers
        BY <1>0, <1>4 DEF LocksHeld
  <2> SUFFICES ASSUME NEW f \in Endpoints, epLock[f] \notin Observers
               PROVE \/ cur[f] # 0 /\ EventOf(maps'[f][cur[f]][NoType]) = last[f]
                     \/ cur[f] = 0 /\ (last[f] = NoEvent \/ last[f].state = "removed")
                     \/ /\ cur[f] # 0 /\ last[f].state = "removed"
                        /\ maps'[f][cur[f]][NoType] = newCorrelation
      BY Zenon, <1>4 DEF LastEventKept, NoTypeOf
  <2>4. cur[f] # 0 => maps'[f][cur[f]][NoType] = maps[f][cur[f]][NoType]
        BY Zenon, <2>2, <2>3, <1>0, CurRange
  <2> QED BY ZenonT(30), <1>0, <2>4 DEF LastEventKept, NoTypeOf
<1>5. ASSUME NEW k \in Keys, RangeObserver(o, k) PROVE LastEventKept'
  <2> DEFINE c == [maps[up[o].e][up[o].n][k] EXCEPT !.obs = o]
  <2>1. c \in Correlations
    <3>1. up[o].n \in 1..MaxMaps
          BY Zenon, <1>0, <1>5, InRange DEF MapsInv, RangeObserver
    <3>2. maps[up[o].e][up[o].n][k] \in Correlations
          BY Zenon, <1>0, <3>1, EntryType
    <3> QED BY Zenon, <3>2, FieldTypes
  <2>2. Put(up[o].e, up[o].n, k, c) /\ UNCHANGED <<cur, epLock, last>> /\ up[o].pc = "range"
        BY ZenonT(30), <1>5 DEF RangeObserver
  <2> HIDE DEF c
  <2> QED BY Zenon, <1>4, <2>1, <2>2
<1>6. CASE RangeState(o)
  <2> DEFINE k == up[o].key
             c == [maps[up[o].e][up[o].n][k] EXCEPT !.state = up[o].state, !.age = "fresh"]
  <2>1. k \in Keys /\ up[o].state \in EndpointStates
        BY Zenon, <1>0 DEF Updates
  <2>2. c \in Correlations
    <3>1. up[o].n \in 1..MaxMaps
          BY Zenon, <1>0, <1>6, InRange DEF MapsInv, RangeState
    <3>2. maps[up[o].e][up[o].n][k] \in Correlations
          BY Zenon, <1>0, <2>1, <3>1, EntryType
    <3> QED BY Zenon, <2>1, <3>2, FieldTypes
  <2>3. Put(up[o].e, up[o].n, k, c) /\ UNCHANGED <<cur, epLock, last>> /\ up[o].pc = "half"
        BY Zenon, <1>6 DEF RangeState
  <2> HIDE DEF c
  <2> QED BY Zenon, <1>4, <2>1, <2>2, <2>3
<1>7. CASE UpdateReturn(o)
  <2> DEFINE e == up[o].e
             n == up[o].n
  <2>1. /\ up[o].pc = "range" /\ up[o].todo \subseteq up[o].seen /\ UNCHANGED <<cur, maps>>
        /\ epLock' = [epLock EXCEPT ![e] = Nobody]
        /\ last'[e] = [obs |-> o, state |-> up[o].state]
        /\ \A f \in Endpoints : f # e => last'[f] = last[f]
        BY Zenon, <1>0, <1>7 DEF UpdateReturn, TypeOK
  <2>2. n = cur[e] /\ cur[e] # 0 /\ NoType \in up[o].seen
        BY Zenon, <1>0, <2>1 DEF MapsInv, MapsMade, RangeSound
  <2>3. EventOf(maps[e][cur[e]][NoType]) = [obs |-> o, state |-> up[o].state]
        BY ZenonT(30), <1>0, <2>1, <2>2 DEF MapsInv, RangeWritesStick
  <2> SUFFICES ASSUME NEW f \in Endpoints, epLock'[f] \notin Observers
               PROVE \/ cur[f] # 0 /\ EventOf(maps[f][cur[f]][NoType]) = last'[f]
                     \/ cur[f] = 0 /\ (last'[f] = NoEvent \/ last'[f].state = "removed")
                     \/ /\ cur[f] # 0 /\ last'[f].state = "removed"
                        /\ maps[f][cur[f]][NoType] = newCorrelation
      BY Zenon, <2>1 DEF LastEventKept, NoTypeOf
  <2>4. CASE f = e
        BY Zenon, <2>4, <2>1, <2>2, <2>3
  <2>5. CASE f # e
        BY ZenonT(30), <2>5, <2>1, <1>0 DEF LastEventKept, NoTypeOf, TypeOK
  <2> QED BY Zenon, <2>4, <2>5
<1> QED BY Zenon, <1>1, <1>2, <1>3, <1>5, <1>6, <1>7 DEF UpdateEndpoint

\* The steps of GetOrCreate keep the last event.
LEMMA GetKeeps ==
    ASSUME IndInv, TypeOK', NEW g \in Getters, GetOrCreate(g) PROVE LastEventKept'
<1>0. /\ TypeOK /\ LocksHeld /\ MapsInv /\ LastEventKept
      /\ get[g] \in Gets /\ get[g].e \in Endpoints /\ get[g].r \in Receivers
      /\ epLock \in [Endpoints -> Observers \union Getters \union {Nobody}]
      /\ g \notin Observers /\ Nobody \notin Observers
      BY Zenon, StoreAssumption DEF IndInv, MapsInv, TypeOK, Gets
<1>1. ASSUME UNCHANGED <<cur, maps, last>>,
             \A f \in Endpoints : epLock'[f] \notin Observers => epLock[f] \notin Observers
      PROVE  LastEventKept'
      BY Zenon, <1>0, <1>1 DEF LastEventKept, NoTypeOf
<1>2. CASE \E r \in Receivers, e \in Endpoints : GetCall(g, r, e)
      BY Zenon, <1>1, <1>2 DEF GetCall
<1>3. CASE GetMap(g)
  <2> DEFINE e == get[g].e
  <2>1. /\ epLock[e] = Nobody /\ last' = last
        /\ \A f \in Endpoints : epLock'[f] \notin Observers => epLock[f] \notin Observers
        BY Zenon, <1>0, <1>3 DEF GetMap
  <2>2. CASE cur[e] # 0
        BY Zenon, <1>1, <1>3, <2>1, <2>2 DEF GetMap
  <2>3. CASE cur[e] = 0
    <3>1. StoreNewMap(e, newCorrelation)
          BY Zenon, <1>3, <2>3 DEF GetMap
    <3>2. newCorrelation \in Correlations /\ EventOf(newCorrelation) = NoEvent
          BY Zenon DEF newCorrelation, Correlations, EventOf, NoEvent
    <3>3. /\ cur'[e] = made[e] + 1 /\ made[e] + 1 \in 1..MaxMaps
          /\ maps'[e][made[e] + 1][NoType] = newCorrelation
          /\ \A f \in Endpoints : f # e => cur'[f] = cur[f]
          /\ \A f \in Endpoints, m \in 1..MaxMaps, j \in Keys :
                f # e \/ m # made[e] + 1 => maps'[f][m][j] = maps[f][m][j]
          BY Zenon, <1>0, <3>1, <3>2, NewMapFacts
    <3>4. last[e] = NoEvent \/ last[e].state = "removed"
          BY ZenonT(30), <1>0, <2>1, <2>3 DEF LastEventKept
    <3> SUFFICES ASSUME NEW f \in Endpoints, epLock[f] \notin Observers
                 PROVE \/ cur'[f] # 0 /\ EventOf(maps'[f][cur'[f]][NoType]) = last[f]
                       \/ cur'[f] = 0 /\ (last[f] = NoEvent \/ last[f].state = "removed")
                       \/ /\ cur'[f] # 0 /\ last[f].state = "removed"
                          /\ maps'[f][cur'[f]][NoType] = newCorrelation
        BY Zenon, <2>1 DEF LastEventKept, NoTypeOf
    <3>5. CASE f = e
          BY Zenon, <3>5, <3>2, <3>3, <3>4
    <3>6. CASE f # e
      <4>1. cur[f] # 0 => maps'[f][cur[f]][NoType] = maps[f][cur[f]][NoType]
            BY Zenon, <3>3, <3>6, <1>0, CurRange
      <4> QED BY SMTT(60), <1>0, <3>3, <3>6, <4>1 DEF LastEventKept, NoTypeOf
    <3> QED BY Zenon, <3>5, <3>6
  <2> QED BY Zenon, <2>2, <2>3
<1>4. CASE GetLockReceiver(g)
  <2>1. epLock[get[g].e] = g
        BY <1>0, <1>4 DEF LocksHeld, GetLockReceiver
  <2> QED BY Zenon, <1>0, <1>1, <1>4, <2>1 DEF GetLockReceiver
<1>5. CASE GetExisting(g) \/ GetCopy(g)
      BY Zenon, <1>1, <1>5 DEF GetExisting, GetCopy
<1>6. CASE GetStore(g)
  <2>1. /\ Put(get[g].e, get[g].n, get[g].r, get[g].copy) /\ UNCHANGED <<cur, epLock, last>>
        /\ get[g].pc = "store"
        BY Zenon, <1>6 DEF GetStore
  <2>2. get[g].n \in 1..MaxMaps /\ get[g].copy \in Correlations
        BY ZenonT(30), <1>0, <2>1, InRange DEF MapsInv, Gets
  <2>3. \A f \in Endpoints, m \in 1..MaxMaps : maps'[f][m][NoType] = maps[f][m][NoType]
        BY <1>0, <2>1, <2>2, PutFacts, StoreAssumption DEF Keys
  <2> SUFFICES ASSUME NEW f \in Endpoints, epLock[f] \notin Observers
               PROVE \/ cur[f] # 0 /\ EventOf(maps'[f][cur[f]][NoType]) = last[f]
                     \/ cur[f] = 0 /\ (last[f] = NoEvent \/ last[f].state = "removed")
                     \/ /\ cur[f] # 0 /\ last[f].state = "removed"
                        /\ maps'[f][cur[f]][NoType] = newCorrelation
      BY Zenon, <2>1 DEF LastEventKept, NoTypeOf
  <2>4. cur[f] # 0 => maps'[f][cur[f]][NoType] = maps[f][cur[f]][NoType]
        BY Zenon, <2>3, <1>0, CurRange
  <2> QED BY Zenon, <1>0, <2>4 DEF LastEventKept, NoTypeOf
<1> QED BY Zenon, <1>2, <1>3, <1>4, <1>5, <1>6 DEF GetOrCreate

\* The steps of the reaper keep the last event.
LEMMA ReapKeeps ==
    ASSUME IndInv, LoopStep \/ (\E e \in Endpoints : ReapVisit(e) \/ Expire(e)) \/ ReapEndpoint
    PROVE  LastEventKept'
<1>0. /\ TypeOK /\ LocksHeld /\ MapsInv /\ LastEventKept /\ reaper.e \in Endpoints
      /\ UNCHANGED <<epLock, last>> /\ Nobody \notin Observers
      BY Zenon, ReapFrame, StoreAssumption DEF IndInv, MapsInv, TypeOK, Reaps
<1>1. ASSUME UNCHANGED <<cur, maps>> PROVE LastEventKept'
      BY Zenon, <1>0, <1>1 DEF LastEventKept, NoTypeOf
<1>2. CASE LoopStep \/ \E e \in Endpoints : ReapVisit(e)
      BY Zenon, <1>1, <1>2 DEF LoopStep, Start, Stop, ReapExit, ReapTick, ReapDone,
         ReapVisit
<1>3. ASSUME NEW e \in Endpoints, Expire(e) PROVE LastEventKept'
  <2> DEFINE n == cur[e]
             c == [maps[e][n][NoType] EXCEPT !.age = "old"]
  <2>1. /\ Put(e, n, NoType, c) /\ n # 0 /\ cur' = cur
        /\ maps[e][n][NoType].age = "fresh" /\ NoType \in Keys
        BY Zenon, <1>3 DEF Expire, Keys
  <2>2. n \in 1..MaxMaps
        BY <1>0, <2>1, StoreAssumption DEF TypeOK
  <2>3. maps[e][n][NoType] \in Correlations
        BY Zenon, <1>0, <2>1, <2>2, EntryType
  <2>4. c \in Correlations /\ c.state = maps[e][n][NoType].state /\ c.obs = maps[e][n][NoType].obs
        BY Zenon, <2>3, FieldTypes DEF Correlations
  <2>5. EventOf(c) = EventOf(maps[e][n][NoType]) /\ maps[e][n][NoType] # newCorrelation
    <3>1. EventOf(c) = EventOf(maps[e][n][NoType])
          BY Zenon, <2>4 DEF EventOf
    <3>2. newCorrelation.age # "fresh"
          BY Zenon DEF newCorrelation
    <3> QED BY Zenon, <2>1, <3>1, <3>2
  <2> HIDE DEF c
  <2>6. /\ maps'[e][n][NoType] = c
        /\ \A f \in Endpoints, m \in 1..MaxMaps, j \in Keys :
              f # e \/ m # n \/ j # NoType => maps'[f][m][j] = maps[f][m][j]
        BY <1>0, <2>1, <2>2, <2>4, PutFacts
  <2> SUFFICES ASSUME NEW f \in Endpoints, epLock[f] \notin Observers
               PROVE \/ cur[f] # 0 /\ EventOf(maps'[f][cur[f]][NoType]) = last[f]
                     \/ cur[f] = 0 /\ (last[f] = NoEvent \/ last[f].state = "removed")
                     \/ /\ cur[f] # 0 /\ last[f].state = "removed"
                        /\ maps'[f][cur[f]][NoType] = newCorrelation
      BY Zenon, <1>0, <2>1 DEF LastEventKept, NoTypeOf
  <2>7. CASE f = e
        BY Zenon, <2>7, <1>0, <2>1, <2>5, <2>6 DEF LastEventKept, NoTypeOf
  <2>8. CASE f # e
    <3>1. cur[f] # 0 => maps'[f][cur[f]][NoType] = maps[f][cur[f]][NoType]
          BY <2>6, <2>8, <1>0, <2>1, StoreAssumption DEF TypeOK
    <3> QED BY Zenon, <1>0, <3>1 DEF LastEventKept, NoTypeOf
  <2> QED BY ZenonT(30), <2>7, <2>8
<1>4. CASE ReapEndpoint
  <2> DEFINE e == reaper.e
  <2>1. /\ reaper.pc = "lock" /\ epLock[e] = Nobody /\ maps' = maps
        /\ cur' = cur \/ /\ maps[e][reaper.n][NoType].state = "removed"
                         /\ cur' = [cur EXCEPT ![e] = 0]
        BY Zenon, <1>4 DEF ReapEndpoint
  <2>2. CASE cur' = cur
        BY Zenon, <1>1, <2>1, <2>2
  <2>3. CASE /\ maps[e][reaper.n][NoType].state = "removed"
             /\ cur' = [cur EXCEPT ![e] = 0]
    <3>1. reaper.n = cur[e] /\ cur[e] # 0
          BY Zenon, <1>0, <2>1 DEF MapsInv, MapsMade
    <3>2. last[e].state = "removed"
      <4>1. newCorrelation.state # "removed"
            BY Zenon DEF newCorrelation
      <4>2. EventOf(maps[e][cur[e]][NoType]).state = "removed"
            BY ZenonT(30), <2>3, <3>1 DEF EventOf
      <4> QED BY Zenon, <1>0, <2>1, <2>3, <3>1, <4>1, <4>2 DEF LastEventKept, NoTypeOf
    <3>3. cur'[e] = 0 /\ \A f \in Endpoints : f # e => cur'[f] = cur[f]
          BY Zenon, <1>0, <2>3 DEF TypeOK
    <3> QED BY Zenon, <1>0, <2>1, <3>2, <3>3 DEF LastEventKept, NoTypeOf
  <2> QED BY Zenon, <2>1, <2>2, <2>3
<1> QED BY Zenon, <1>2, <1>3, <1>4

-----------------------------------------------------------------------------
(* The theorems.                                                           *)

\* Every step keeps the inductive invariant.
LEMMA NextInd == IndInv /\ [Next]_vars => IndInv'
<1> SUFFICES ASSUME IndInv, [Next]_vars PROVE IndInv'
    BY Zenon
<1>0. TypeOK /\ LocksHeld /\ MapsMade /\ MapsInv
      BY Zenon DEF IndInv, MapsInv
<1>1. ASSUME NEW o \in Observers, UpdateEndpoint(o) PROVE IndInv'
      BY Zenon, <1>0, <1>1, UpdateType, UpdateLocks, UpdateMaps, UpdateKeeps
         DEF IndInv, MapsInv
<1>2. ASSUME NEW g \in Getters, GetOrCreate(g) PROVE IndInv'
      BY Zenon, <1>0, <1>2, GetType, GetLocks, GetMaps, GetKeeps DEF IndInv, MapsInv
<1>3. ASSUME LoopStep \/ (\E e \in Endpoints : ReapVisit(e) \/ Expire(e)) \/ ReapEndpoint
      PROVE  IndInv'
  <2>1. TypeOK' /\ MapsInv' /\ LastEventKept'
        BY Zenon, <1>0, <1>3, ReapType, ReapMaps, ReapKeeps
  <2>2. LocksHeld'
        BY <1>0, <1>3, ReapFrame DEF LocksHeld
  <2> QED BY Zenon, <2>1, <2>2 DEF IndInv, MapsInv
<1>4. CASE UNCHANGED vars
  <2>1. TypeOK' /\ LocksHeld'
        BY <1>0, <1>4 DEF vars, TypeOK, LocksHeld
  <2>2. MapsMade' /\ StoreSound'
        BY Zenon, <1>0, <1>4 DEF vars, MapsInv, MapsMade, StoreSound
  <2>3. RangeSound' /\ RangeWritesStick'
        BY ZenonT(30), <1>0, <1>4 DEF vars, MapsInv, RangeSound, RangeWritesStick,
           Stored
  <2>4. LastEventKept'
        BY Zenon, <1>4 DEF vars, IndInv, LastEventKept, NoTypeOf
  <2> QED BY Zenon, <2>1, <2>2, <2>3, <2>4 DEF IndInv
<1>5. CASE Next
      BY Zenon, <1>1, <1>2, <1>3, <1>5 DEF Next, reap, LoopStep
<1> QED BY Zenon, <1>4, <1>5

\* The strengthened invariant holds in every reachable state.
THEOREM Invariance == Spec => []IndInv
BY InitInd, NextInd, PTL DEF Spec

\* Type correctness of the store.
THEOREM StoreTypeOK == Spec => []TypeOK
<1>1. IndInv => TypeOK
      BY Zenon DEF IndInv
<1> QED BY <1>1, Invariance, PTL

\* For any number of endpoints, receivers, observers and goroutines the store
\* holds the last reported event of every endpoint that is not removed, however
\* UpdateEndpoint, GetOrCreate and the reaper interleave.
THEOREM StoreLastEventKept == Spec => []LastEventKept
<1>1. IndInv => LastEventKept
      BY Zenon DEF IndInv
<1> QED BY <1>1, Invariance, PTL

\* What UpdateEndpoint has written to an entry is not undone by a concurrent
\* GetOrCreate before UpdateEndpoint returns.
THEOREM StoreRangeWritesStick == Spec => []RangeWritesStick
<1>1. IndInv => RangeWritesStick
      BY Zenon DEF IndInv
<1> QED BY <1>1, Invariance, PTL

\* What the registry sees of an endpoint.
View(e) == IF cur[e] = 0 THEN EventOf(Absent)
           ELSE IF Writing(e) THEN [obs |-> epLock[e], state |-> up[epLock[e]].state]
           ELSE EventOf(NoTypeOf(e))

\* A step that changes nothing the registry sees.
LEMMA ViewSame ==
    ASSUME \A e \in Endpoints : View(e)' = View(e)
    PROVE  RegistryView' = RegistryView
BY Zenon DEF RegistryView, View

\* A step that changes what it sees of one endpoint.
LEMMA ViewOne ==
    ASSUME NEW e \in Endpoints, \A f \in Endpoints : f # e => View(f)' = View(f)
    PROVE  RegistryView' = [RegistryView EXCEPT ![e] = View(e)']
BY Zenon DEF RegistryView, View

\* Nobody who is not an observer writes, and an observer writes in its range.
LEMMA NotWriting ==
    ASSUME LocksHeld, NEW e \in Endpoints
    PROVE  /\ epLock[e] \notin Observers => ~Writing(e)
           /\ \A o \in Observers : epLock[e] = o /\ up[o].pc # "half" => ~Writing(e)
BY Zenon DEF Writing

\* The initial states map to those of the registry.
LEMMA InitRegistry == Init => Registry!Init
BY DEF Init, Registry!Init, RegistryView, Registry!Forgotten, EventOf, Absent

\* A step of UpdateEndpoint is one of the registry, or a stutter.
LEMMA UpdateRegistry ==
    ASSUME IndInv, IndInv', NEW o \in Observers, UpdateEndpoint(o)
    PROVE  [Registry!Next]_RegistryView
<1>0. /\ TypeOK /\ LocksHeld /\ MapsInv /\ LocksHeld' /\ MapsInv' /\ TypeOK'
      /\ up \in [Observers -> Updates] /\ up[o] \in Updates /\ up[o].e \in Endpoints
      /\ up[o].state \in EndpointStates /\ Nobody \notin Observers
      /\ epLock \in [Endpoints -> Observers \union Getters \union {Nobody}]
      BY Zenon, StoreAssumption DEF IndInv, MapsInv, TypeOK, Updates
<1>a. \A p \in Observers \ {o} : up'[p] = up[p]
      BY Zenon, <1>0 DEF UpdateEndpoint, UpdateCall, UpdateNew, UpdateKnown,
         RangeObserver,
            RangeState, UpdateReturn
<1>b. \A f \in Endpoints : f # up[o].e => epLock[f] # o
      BY <1>0 DEF LocksHeld
<1>1. ASSUME NEW e \in Endpoints, NEW s \in EndpointStates, UpdateCall(o, e, s)
      PROVE  RegistryView' = RegistryView
  <2>1. UNCHANGED <<cur, maps, epLock>> /\ up[o].pc = "idle"
        BY Zenon, <1>1 DEF UpdateCall
  <2>2. \A f \in Endpoints : epLock[f] # o
        BY <1>0, <2>1 DEF LocksHeld
  <2> QED BY Zenon, <1>a, <2>1, <2>2, ViewSame DEF View, Writing, NoTypeOf
<1>2. ASSUME NEW e \in Endpoints, e = up[o].e, UpdateNew(o)
      PROVE  Registry!Record(e, o, up[o].state)
  <2> DEFINE c == [obs |-> o, state |-> up[o].state, age |-> "fresh"]
  <2>1. c \in Correlations /\ EventOf(c) = [obs |-> o, state |-> up[o].state]
        BY Zenon, <1>0 DEF Correlations, EventOf
  <2>2. /\ StoreNewMap(e, c) /\ epLock' = epLock /\ epLock[e] = Nobody /\ up[o].pc = "lock"
        BY Zenon, <1>2 DEF UpdateNew
  <2> HIDE DEF c
  <2>3. /\ cur'[e] = made[e] + 1 /\ made[e] + 1 \in 1..MaxMaps /\ maps'[e][made[e] + 1][NoType] = c
        /\ \A f \in Endpoints : f # e => cur'[f] = cur[f]
        /\ \A f \in Endpoints, m \in 1..MaxMaps, j \in Keys :
              f # e \/ m # made[e] + 1 => maps'[f][m][j] = maps[f][m][j]
        BY Zenon, <1>0, <2>1, <2>2, NewMapFacts
  <2>4. View(e)' = [obs |-> o, state |-> up[o].state]
        BY <1>0, <2>1, <2>2, <2>3 DEF View, Writing, NoTypeOf
  <2>5. \A f \in Endpoints : f # e => View(f)' = View(f)
    <3> SUFFICES ASSUME NEW f \in Endpoints, f # e PROVE View(f)' = View(f)
        BY Zenon
    <3>1. cur[f] # 0 => maps'[f][cur[f]][NoType] = maps[f][cur[f]][NoType]
          BY <1>0, <2>3, CurRange
    <3>2. Writing(f)' = Writing(f) /\ (Writing(f) => up'[epLock[f]].state = up[epLock[f]].state)
          BY Zenon, <1>2, <1>a, <1>b, <2>2 DEF Writing
    <3> QED BY Zenon, <2>2, <2>3, <3>1, <3>2 DEF View, NoTypeOf
  <2> QED BY Zenon, <1>0, <2>4, <2>5, ViewOne DEF Registry!Record
<1>3. ASSUME NEW e \in Endpoints, e = up[o].e, UpdateKnown(o)
      PROVE  RegistryView' = RegistryView
  <2>1. /\ UNCHANGED <<cur, maps>> /\ epLock[e] = Nobody /\ up'[o].pc = "range"
        /\ epLock' = [epLock EXCEPT ![e] = o]
        BY Zenon, <1>0, <1>3 DEF UpdateKnown, Updates
  <2>2. ~Writing(e) /\ ~Writing(e)'
        BY Zenon, <1>0, <2>1 DEF Writing
  <2>3. \A f \in Endpoints : f # e => View(f)' = View(f)
    <3> SUFFICES ASSUME NEW f \in Endpoints, f # e PROVE View(f)' = View(f)
        BY Zenon
    <3>1. epLock'[f] = epLock[f]
          BY Zenon, <1>0, <2>1
    <3> QED BY Zenon, <1>3, <1>a, <1>b, <2>1, <3>1 DEF View, Writing, NoTypeOf
  <2>4. View(e)' = View(e)
        BY SMTT(30), <2>1, <2>2 DEF View, NoTypeOf
  <2> QED BY Zenon, <2>3, <2>4, ViewSame
\* A write of the range function at another key than NoType, or the second
\* write at NoType, is not seen; the first write at NoType records the event.
<1>4. ASSUME NEW k \in Keys, NEW c \in Correlations,
             NEW e \in Endpoints, e = up[o].e, up[o].pc \in {"range", "half"},
             Put(e, up[o].n, k, c), UNCHANGED <<cur, epLock>>
      PROVE  /\ \A f \in Endpoints : f # e => View(f)' = View(f)
             /\ cur[e] # 0 /\ epLock[e] = o
             /\ maps'[e][cur[e]][k] = c
             /\ k # NoType => NoTypeOf(e)' = NoTypeOf(e)
  <2> DEFINE n == up[o].n
  <2>1. n \in 1..MaxMaps /\ n = cur[e] /\ cur[e] # 0 /\ epLock[e] = o
    <3>1. MapsMade
          BY Zenon, <1>0 DEF MapsInv
    <3>2. n \in 1..MaxMaps
          BY ZenonT(30), <1>0, <1>4, <3>1, InRange
    <3>3. n = cur[e] /\ cur[e] # 0 /\ epLock[e] = o
          BY <1>4, <3>1, <1>0 DEF MapsMade, LocksHeld
    <3> QED BY Zenon, <3>2, <3>3
  <2>2. /\ maps'[e][n][k] = c
        /\ \A f \in Endpoints, m \in 1..MaxMaps, j \in Keys :
              f # e \/ m # n \/ j # k => maps'[f][m][j] = maps[f][m][j]
    <3>1. PutEffect(e, n, k, c)
          BY Zenon, <1>0, <1>4, <2>1, PutChanges
    <3> QED BY Zenon, <3>1 DEF PutEffect
  <2>3. \A f \in Endpoints : f # e => View(f)' = View(f)
    <3> SUFFICES ASSUME NEW f \in Endpoints, f # e PROVE View(f)' = View(f)
        BY Zenon
    <3>1. cur[f] # 0 => maps'[f][cur[f]][NoType] = maps[f][cur[f]][NoType]
          BY <1>0, <2>2, CurRange
    <3>2. Writing(f)' = Writing(f) /\ (Writing(f) => up'[epLock[f]].state = up[epLock[f]].state)
          BY Zenon, <1>a, <1>b, <1>4 DEF Writing
    <3> QED BY Zenon, <1>4, <3>1, <3>2 DEF View, NoTypeOf
  <2>4. k # NoType => maps'[e][n][NoType] = maps[e][n][NoType]
        BY Zenon, <1>0, <2>1, <2>2, CurRange
  <2> QED BY Zenon, <1>4, <2>1, <2>2, <2>3, <2>4 DEF NoTypeOf
<1>5. ASSUME NEW k \in Keys, NEW e \in Endpoints, e = up[o].e, RangeObserver(o, k)
      PROVE  Registry!Record(e, o, up[o].state) \/ RegistryView' = RegistryView
  <2> DEFINE c == [maps[e][up[o].n][k] EXCEPT !.obs = o]
  <2>1. /\ Put(e, up[o].n, k, c) /\ UNCHANGED <<cur, epLock>> /\ up[o].pc = "range"
        /\ up'[o] = [up[o] EXCEPT !.pc = "half", !.key = k]
        BY Zenon, <1>0, <1>5 DEF RangeObserver
  <2>2. up'[o].pc = "half" /\ up'[o].key = k /\ up'[o].state = up[o].state
        BY Zenon, <1>0, <2>1 DEF Updates
  <2>3. c \in Correlations
    <3>1. up[o].n \in 1..MaxMaps
          BY Zenon, <1>0, <2>1, InRange DEF MapsInv
    <3>2. maps[e][up[o].n][k] \in Correlations
          BY Zenon, <1>0, <3>1, EntryType
    <3> QED BY Zenon, <3>2, FieldTypes
  <2> HIDE DEF c
  <2>4. /\ \A f \in Endpoints : f # e => View(f)' = View(f)
        /\ cur[e] # 0 /\ epLock[e] = o
        /\ k # NoType => NoTypeOf(e)' = NoTypeOf(e)
        BY <1>4, <1>5, <2>1, <2>3
  <2>5. CASE k = NoType
    <3>1. View(e)' = [obs |-> o, state |-> up[o].state]
          BY Zenon, <2>1, <2>2, <2>4, <2>5 DEF View, Writing
    <3> QED BY Zenon, <1>0, <2>4, <3>1, ViewOne DEF Registry!Record
  <2>6. CASE k # NoType
    <3>1. ~Writing(e) /\ ~Writing(e)'
          BY Zenon, <2>1, <2>2, <2>4, <2>6 DEF Writing
    <3>2. View(e)' = View(e)
          BY Zenon, <2>1, <2>4, <2>6, <3>1 DEF View
    <3> QED BY Zenon, <2>4, <3>2, ViewSame
  <2> QED BY Zenon, <2>5, <2>6
<1>6. ASSUME NEW e \in Endpoints, e = up[o].e, NEW k \in Keys, k = up[o].key, RangeState(o)
      PROVE  RegistryView' = RegistryView
  <2> DEFINE c == [maps[e][up[o].n][k] EXCEPT !.state = up[o].state, !.age = "fresh"]
  <2>1. /\ Put(e, up[o].n, k, c) /\ UNCHANGED <<cur, epLock>> /\ up[o].pc = "half"
        /\ up'[o] = [up[o] EXCEPT !.pc = "range", !.seen = up[o].seen \union {k}]
        BY Zenon, <1>0, <1>6 DEF RangeState
  <2>2. up'[o].pc = "range" /\ k \in Keys
        BY Zenon, <1>0, <2>1 DEF Updates
  <2>3. maps[e][up[o].n][k] \in Correlations /\ maps[e][up[o].n][k].obs = o
    <3>1. up[o].n \in 1..MaxMaps
          BY Zenon, <1>0, <2>1, InRange DEF MapsInv
    <3>2. maps[e][up[o].n][k] \in Correlations
          BY Zenon, <1>0, <2>2, <3>1, EntryType
    <3> QED BY Zenon, <1>0, <1>6, <2>1, <3>2 DEF MapsInv, RangeSound
  <2>4. c \in Correlations
        BY Zenon, <1>0, <2>3, FieldTypes
  <2>5. EventOf(c) = [obs |-> o, state |-> up[o].state]
    <3>1. c.obs = o /\ c.state = up[o].state
          BY Zenon, <2>3 DEF Correlations
    <3> QED BY Zenon, <3>1 DEF EventOf
  <2> HIDE DEF c
  <2>6. /\ \A f \in Endpoints : f # e => View(f)' = View(f)
        /\ cur[e] # 0 /\ epLock[e] = o /\ maps'[e][cur[e]][k] = c
        /\ k # NoType => NoTypeOf(e)' = NoTypeOf(e)
        BY <1>4, <1>6, <2>1, <2>2, <2>4
  <2>7. ~Writing(e)'
        BY Zenon, <2>1, <2>2, <2>6 DEF Writing
  <2>8. CASE k = NoType
    <3>1. Writing(e)
          BY Zenon, <1>6, <2>1, <2>6, <2>8 DEF Writing
    <3>2. View(e) = [obs |-> o, state |-> up[o].state]
          BY Zenon, <2>6, <3>1 DEF View
    <3>3. View(e)' = [obs |-> o, state |-> up[o].state]
          BY Zenon, <2>1, <2>5, <2>6, <2>7, <2>8 DEF View, NoTypeOf
    <3> QED BY Zenon, <2>6, <3>2, <3>3, ViewSame
  <2>9. CASE k # NoType
    <3>1. ~Writing(e)
          BY Zenon, <1>6, <2>1, <2>6, <2>9 DEF Writing
    <3>2. View(e)' = View(e)
          BY Zenon, <2>1, <2>6, <2>7, <2>9, <3>1 DEF View
    <3> QED BY Zenon, <2>6, <3>2, ViewSame
  <2> QED BY Zenon, <2>8, <2>9
<1>7. ASSUME NEW e \in Endpoints, e = up[o].e, UpdateReturn(o)
      PROVE  RegistryView' = RegistryView
  <2>1. /\ UNCHANGED <<cur, maps>> /\ up[o].pc = "range"
        /\ epLock' = [epLock EXCEPT ![e] = Nobody]
        BY Zenon, <1>7 DEF UpdateReturn
  <2>2. ~Writing(e) /\ ~Writing(e)'
    <3>1. epLock[e] = o /\ epLock'[e] = Nobody
          BY <1>0, <1>7, <2>1 DEF LocksHeld
    <3> QED BY Zenon, <1>0, <2>1, <3>1 DEF Writing
  <2>3. \A f \in Endpoints : f # e => View(f)' = View(f)
    <3> SUFFICES ASSUME NEW f \in Endpoints, f # e PROVE View(f)' = View(f)
        BY Zenon
    <3>1. epLock'[f] = epLock[f]
          BY Zenon, <1>0, <2>1
    <3> QED BY <1>7, <1>a, <1>b, <2>1, <3>1 DEF View, Writing, NoTypeOf
  <2>4. View(e)' = View(e)
        BY Zenon, <2>1, <2>2 DEF View, NoTypeOf
  <2> QED BY Zenon, <2>3, <2>4, ViewSame
<1>8. up[o].key \in Keys
      BY Zenon, <1>0 DEF Updates
<1>9. ASSUME NEW e \in Endpoints, NEW s \in EndpointStates, Registry!Record(e, o, s)
      PROVE  Registry!Next
      BY Zenon, <1>9 DEF Registry!Next
<1>10. CASE UpdateNew(o) \/ \E k \in Keys : RangeObserver(o, k)
       BY Zenon, <1>0, <1>2, <1>5, <1>9, <1>10
<1>11. CASE UpdateKnown(o) \/ RangeState(o) \/ UpdateReturn(o)
       BY Zenon, <1>0, <1>3, <1>6, <1>7, <1>8, <1>11
<1> QED BY Zenon, <1>1, <1>10, <1>11 DEF UpdateEndpoint

\* A step of GetOrCreate is one of the registry, or a stutter.
LEMMA GetRegistry ==
    ASSUME IndInv, NEW g \in Getters, GetOrCreate(g)
    PROVE  [Registry!Next]_RegistryView
<1>0. /\ TypeOK /\ LocksHeld /\ MapsInv
      /\ get[g] \in Gets /\ get[g].e \in Endpoints /\ get[g].r \in Receivers
      /\ get[g].r \in Keys /\ get[g].r # NoType
      /\ epLock \in [Endpoints -> Observers \union Getters \union {Nobody}]
      /\ g \notin Observers /\ Nobody \notin Observers
  <2>1. TypeOK /\ LocksHeld /\ MapsInv
        BY Zenon DEF IndInv, MapsInv
  <2>2. /\ get[g] \in Gets
        /\ epLock \in [Endpoints -> Observers \union Getters \union {Nobody}]
        BY Zenon, <2>1 DEF TypeOK
  <2>3. get[g].e \in Endpoints /\ get[g].r \in Receivers
        BY Zenon, <2>2 DEF Gets
  <2> QED BY Zenon, <2>1, <2>2, <2>3, StoreAssumption DEF Keys
<1>a. up' = up
      BY Zenon DEF GetOrCreate, GetCall, GetMap, GetLockReceiver, GetExisting, GetCopy,
         GetStore
<1>b. ASSUME \A f \in Endpoints : epLock'[f] = epLock[f] \/ /\ epLock[f] \notin Observers
                                                             /\ epLock'[f] \notin Observers
      PROVE  \A f \in Endpoints : /\ Writing(f)' = Writing(f)
                                  /\ Writing(f) => epLock'[f] = epLock[f]
      BY Zenon, <1>a, <1>b DEF Writing
<1>1. ASSUME UNCHANGED cur, \A f \in Endpoints : cur[f] # 0 => NoTypeOf(f)' = NoTypeOf(f),
             \A f \in Endpoints : epLock'[f] = epLock[f] \/ /\ epLock[f] \notin Observers
                                                             /\ epLock'[f] \notin Observers
      PROVE  RegistryView' = RegistryView
  <2>1. \A f \in Endpoints : View(f)' = View(f)
        BY Zenon, <1>a, <1>b, <1>1 DEF View
  <2> QED BY Zenon, <2>1, ViewSame
<1>2. CASE \E r \in Receivers, e \in Endpoints : GetCall(g, r, e)
      BY Zenon, <1>1, <1>2 DEF GetCall, NoTypeOf
<1>3. ASSUME NEW e \in Endpoints, e = get[g].e, GetMap(g)
      PROVE  [Registry!Next]_RegistryView
  <2>1. /\ epLock[e] = Nobody /\ epLock' = [epLock EXCEPT ![e] = g]
        BY Zenon, <1>3 DEF GetMap
  <2>2. \A f \in Endpoints : epLock'[f] = epLock[f] \/ /\ epLock[f] \notin Observers
                                                       /\ epLock'[f] \notin Observers
        BY Zenon, <1>0, <2>1
  <2>3. CASE cur[e] # 0
        BY Zenon, <1>1, <1>3, <2>2, <2>3 DEF GetMap, NoTypeOf
  <2>4. CASE cur[e] = 0
    <3>1. StoreNewMap(e, newCorrelation)
          BY Zenon, <1>3, <2>4 DEF GetMap
    <3>2. newCorrelation \in Correlations /\ EventOf(newCorrelation) = Registry!NoEvent
          BY Zenon DEF newCorrelation, Correlations, EventOf, Registry!NoEvent
    <3>3. /\ cur'[e] = made[e] + 1 /\ made[e] + 1 \in 1..MaxMaps
          /\ maps'[e][made[e] + 1][NoType] = newCorrelation
          /\ \A f \in Endpoints : f # e => cur'[f] = cur[f]
          /\ \A f \in Endpoints, m \in 1..MaxMaps, j \in Keys :
                f # e \/ m # made[e] + 1 => maps'[f][m][j] = maps[f][m][j]
          BY Zenon, <1>0, <3>1, <3>2, NewMapFacts
    <3>4. View(e)' = Registry!NoEvent
      <4>1. ~Writing(e)'
            BY Zenon, <1>0, <2>1 DEF Writing
      <4> QED BY SMTT(60), <3>2, <3>3, <4>1 DEF View, NoTypeOf
    <3>5. RegistryView[e] = Registry!Forgotten
          BY Zenon, <1>0, <2>4 DEF RegistryView, Registry!Forgotten, EventOf, Absent
    <3>6. \A f \in Endpoints : f # e => View(f)' = View(f)
      <4> SUFFICES ASSUME NEW f \in Endpoints, f # e PROVE View(f)' = View(f)
          BY Zenon
      <4>1. cur[f] # 0 => maps'[f][cur[f]][NoType] = maps[f][cur[f]][NoType]
            BY Zenon, <1>0, <3>3, CurRange
      <4> QED BY Zenon, <1>a, <1>b, <2>2, <3>3, <4>1 DEF View, NoTypeOf
    <3>7. Registry!Touch(e)
          BY Zenon, <1>0, <3>4, <3>5, <3>6, ViewOne DEF Registry!Touch
    <3> QED BY Zenon, <1>0, <3>7 DEF Registry!Next
  <2> QED BY Zenon, <2>3, <2>4
<1>4. CASE GetLockReceiver(g)
  <2>1. /\ epLock' = [epLock EXCEPT ![get[g].e] = Nobody] /\ UNCHANGED <<cur, maps>>
        /\ get[g].pc = "receiver"
        BY Zenon, <1>4 DEF GetLockReceiver
  <2>2. epLock[get[g].e] = g
        BY <1>0, <2>1 DEF LocksHeld
  <2>3. \A f \in Endpoints : epLock'[f] = epLock[f] \/ /\ epLock[f] \notin Observers
                                                       /\ epLock'[f] \notin Observers
        BY Zenon, <1>0, <2>1, <2>2
  <2> QED BY Zenon, <1>1, <2>1, <2>3 DEF NoTypeOf
<1>5. CASE GetExisting(g) \/ GetCopy(g)
      BY Zenon, <1>1, <1>5 DEF GetExisting, GetCopy, NoTypeOf
<1>6. CASE GetStore(g)
  <2>1. /\ Put(get[g].e, get[g].n, get[g].r, get[g].copy) /\ UNCHANGED <<cur, epLock>>
        /\ get[g].pc = "store"
        BY Zenon, <1>6 DEF GetStore
  <2>2. get[g].n \in 1..MaxMaps /\ get[g].copy \in Correlations
        BY Zenon, <1>0, <2>1, InRange DEF MapsInv, Gets
  <2>3. \A f \in Endpoints, m \in 1..MaxMaps, j \in Keys :
           f # get[g].e \/ m # get[g].n \/ j # get[g].r => maps'[f][m][j] = maps[f][m][j]
        BY <1>0, <2>1, <2>2, PutFacts
  <2>4. \A f \in Endpoints : cur[f] # 0 => maps'[f][cur[f]][NoType] = maps[f][cur[f]][NoType]
        BY Zenon, <1>0, <2>3, CurRange
  <2> QED BY Zenon, <1>1, <2>1, <2>4 DEF NoTypeOf
<1> QED BY Zenon, <1>0, <1>2, <1>3, <1>4, <1>5, <1>6 DEF GetOrCreate

\* A step of the reaper is one of the registry, or a stutter.
LEMMA ReapRegistry ==
    ASSUME IndInv, LoopStep \/ (\E e \in Endpoints : ReapVisit(e) \/ Expire(e)) \/ ReapEndpoint
    PROVE  [Registry!Next]_RegistryView
<1>0. /\ TypeOK /\ LocksHeld /\ MapsInv /\ reaper.e \in Endpoints
      /\ UNCHANGED <<epLock, up>> /\ Nobody \notin Observers
      BY Zenon, ReapFrame, StoreAssumption DEF IndInv, MapsInv, TypeOK, Reaps
<1>1. ASSUME UNCHANGED cur,
             \A f \in Endpoints : cur[f] # 0 => EventOf(NoTypeOf(f))' = EventOf(NoTypeOf(f))
      PROVE  RegistryView' = RegistryView
  <2>1. \A f \in Endpoints : View(f)' = View(f)
        BY Zenon, <1>0, <1>1 DEF View, Writing
  <2> QED BY Zenon, <2>1, ViewSame
<1>2. CASE LoopStep \/ \E e \in Endpoints : ReapVisit(e)
      BY Zenon, <1>1, <1>2 DEF LoopStep, Start, Stop, ReapExit, ReapTick, ReapDone,
         ReapVisit, NoTypeOf
<1>3. ASSUME NEW e \in Endpoints, Expire(e) PROVE RegistryView' = RegistryView
  <2> DEFINE n == cur[e]
             c == [maps[e][n][NoType] EXCEPT !.age = "old"]
  <2>1. Put(e, n, NoType, c) /\ n # 0 /\ cur' = cur /\ NoType \in Keys
        BY Zenon, <1>3 DEF Expire, Keys
  <2>2. n \in 1..MaxMaps
        BY Zenon, <1>0, <2>1, CurRange
  <2>3. maps[e][n][NoType] \in Correlations
        BY Zenon, <1>0, <2>1, <2>2, EntryType
  <2>4. c \in Correlations /\ c.state = maps[e][n][NoType].state /\ c.obs = maps[e][n][NoType].obs
        BY ZenonT(30), <2>3, FieldTypes DEF Correlations
  <2>5. EventOf(c) = EventOf(maps[e][n][NoType])
        BY Zenon, <2>4 DEF EventOf
  <2> HIDE DEF c
  <2>6. /\ maps'[e][n][NoType] = c
        /\ \A f \in Endpoints, m \in 1..MaxMaps, j \in Keys :
              f # e \/ m # n \/ j # NoType => maps'[f][m][j] = maps[f][m][j]
        BY <1>0, <2>1, <2>2, <2>4, PutFacts
  <2>7. \A f \in Endpoints : cur[f] # 0 =>
           EventOf(maps'[f][cur[f]][NoType]) = EventOf(maps[f][cur[f]][NoType])
    <3> SUFFICES ASSUME NEW f \in Endpoints, cur[f] # 0
                 PROVE  EventOf(maps'[f][cur[f]][NoType]) = EventOf(maps[f][cur[f]][NoType])
        BY Zenon
    <3>1. CASE f = e
          BY Zenon, <3>1, <2>5, <2>6
    <3>2. CASE f # e
      <4>1. maps'[f][cur[f]][NoType] = maps[f][cur[f]][NoType]
            BY SMTT(30), <3>2, <1>0, <2>6, CurRange
      <4> QED BY Zenon, <4>1
    <3> QED BY Zenon, <3>1, <3>2
  <2>8. \A f \in Endpoints : cur[f] # 0 => EventOf(NoTypeOf(f))' = EventOf(NoTypeOf(f))
        BY Zenon, <2>1, <2>7 DEF NoTypeOf, EventOf
  <2> QED BY Zenon, <1>1, <2>1, <2>8
<1>4. ASSUME NEW e \in Endpoints, e = reaper.e, ReapEndpoint
      PROVE  [Registry!Next]_RegistryView
  <2>1. /\ reaper.pc = "lock" /\ epLock[e] = Nobody /\ maps' = maps
        /\ cur' = cur \/ /\ maps[e][reaper.n][NoType].state = "removed"
                         /\ cur' = [cur EXCEPT ![e] = 0]
        BY Zenon, <1>4 DEF ReapEndpoint
  <2>2. CASE cur' = cur
        BY Zenon, <1>1, <2>1, <2>2 DEF NoTypeOf
  <2>3. CASE /\ maps[e][reaper.n][NoType].state = "removed"
             /\ cur' = [cur EXCEPT ![e] = 0]
    <3>1. reaper.n = cur[e] /\ cur[e] # 0
          BY Zenon, <1>0, <1>4, <2>1 DEF MapsInv, MapsMade
    <3>2. RegistryView[e] = EventOf(NoTypeOf(e))
          BY Zenon, <1>0, <2>1, <3>1 DEF RegistryView, Writing
    <3>3. EventOf(NoTypeOf(e)).state = "removed"
          BY Zenon, <2>3, <3>1 DEF EventOf, NoTypeOf
    <3>4. View(e)' = Registry!Forgotten
          BY Zenon, <1>0, <2>3 DEF View, TypeOK, EventOf, Absent, Registry!Forgotten
    <3>5. \A f \in Endpoints : f # e => View(f)' = View(f)
          BY Zenon, <1>0, <2>1, <2>3 DEF View, Writing, NoTypeOf, TypeOK
    <3>6. Registry!Forget(e)
          BY Zenon, <1>0, <3>2, <3>3, <3>4, <3>5, ViewOne DEF Registry!Forget
    <3> QED BY Zenon, <1>0, <3>6 DEF Registry!Next
  <2> QED BY Zenon, <2>1, <2>2, <2>3
<1> QED BY Zenon, <1>0, <1>2, <1>3, <1>4

\* Every step of the store is a step of the registry or leaves it unchanged:
\* events are recorded one at a time, the zero correlation appears only for an
\* endpoint that is not known, and only removed endpoints are forgotten.
THEOREM StoreImplementsRegistry == Spec => ImplementsRegistry
<1>1. IndInv /\ IndInv' /\ [Next]_vars => [Registry!Next]_RegistryView
  <2> SUFFICES ASSUME IndInv, IndInv', [Next]_vars PROVE [Registry!Next]_RegistryView
      BY Zenon
  <2>1. CASE UNCHANGED vars
        BY Zenon, <2>1 DEF vars, RegistryView, Writing, NoTypeOf
  <2>2. CASE Next
        BY Zenon, <2>2, UpdateRegistry, GetRegistry, ReapRegistry DEF Next, reap,
           LoopStep
  <2> QED BY Zenon, <2>1, <2>2
<1> QED BY <1>1, InitRegistry, Invariance, PTL DEF Spec, ImplementsRegistry,
           Registry!Spec

-----------------------------------------------------------------------------
(* Correlations are stored once.                                           *)

\* One entry keeps its event, or changes it under the endpoint's mutex.
EntryKept(e, n, k) ==
    Present(maps[e][n][k]) /\ EventOf(maps'[e][n][k]) # EventOf(maps[e][n][k])
        => Present(maps'[e][n][k]) /\ epLock[e] \in Observers

\* A new map is none of the maps there are.
LEMMA NewMapKept ==
    ASSUME TypeOK, NEW d \in Endpoints, NEW c \in Correlations, StoreNewMap(d, c),
           NEW e \in Endpoints, NEW n \in 1..made[e], NEW k \in Keys
    PROVE  EntryKept(e, n, k)
<1>1. made[e] \in 0..MaxMaps /\ made[d] \in 0..MaxMaps
      BY Zenon DEF TypeOK
<1>2. n \in 1..MaxMaps /\ (d = e => n # made[d] + 1)
      BY <1>1, StoreAssumption
<1>3. maps'[e][n][k] = maps[e][n][k]
      BY <1>2, NewMapFacts
<1> QED BY Zenon, <1>3 DEF EntryKept

\* Replacing a correlation keeps the others.
LEMMA PutKept ==
    ASSUME TypeOK, NEW d \in Endpoints, NEW m \in 1..MaxMaps, NEW j \in Keys,
           NEW c \in Correlations, Put(d, m, j, c), EntryKept(d, m, j),
           NEW e \in Endpoints, NEW n \in 1..made[e], NEW k \in Keys
    PROVE  EntryKept(e, n, k)
<1>1. made[e] \in 0..MaxMaps
      BY Zenon DEF TypeOK
<1>2. n \in 1..MaxMaps
      BY <1>1, StoreAssumption
<1>3. CASE e = d /\ n = m /\ k = j
      BY Zenon, <1>3
<1>4. CASE ~(e = d /\ n = m /\ k = j)
  <2>1. maps'[e][n][k] = maps[e][n][k]
        BY <1>2, <1>4, PutFacts
  <2> QED BY Zenon, <2>1 DEF EntryKept
<1> QED BY Zenon, <1>3, <1>4

\* UpdateEndpoint stores no correlation again and drops none.
LEMMA UpdateKept ==
    ASSUME IndInv, NEW o \in Observers, UpdateEndpoint(o),
           NEW e \in Endpoints, NEW n \in 1..made[e], NEW k \in Keys
    PROVE  EntryKept(e, n, k)
<1>0. /\ TypeOK /\ LocksHeld /\ MapsInv /\ up[o] \in Updates /\ up[o].e \in Endpoints
      /\ up[o].state \in EndpointStates /\ up[o].key \in Keys
      BY Zenon DEF IndInv, MapsInv, TypeOK, Updates
<1>1. ASSUME UNCHANGED maps PROVE EntryKept(e, n, k)
      BY Zenon, <1>1 DEF EntryKept
<1>2. CASE UpdateNew(o)
  <2>1. [obs |-> o, state |-> up[o].state, age |-> "fresh"] \in Correlations
        BY ZenonT(30), <1>0 DEF Correlations
  <2> QED BY Zenon, <1>0, <1>2, <2>1, NewMapKept DEF UpdateNew
<1>3. ASSUME NEW j \in Keys, NEW c \in Correlations, up[o].pc \in {"range", "half"},
             Present(c), Put(up[o].e, up[o].n, j, c)
      PROVE  EntryKept(e, n, k)
  <2>1. up[o].n \in 1..MaxMaps /\ epLock[up[o].e] = o
    <3>1. MapsMade
          BY Zenon, <1>0 DEF MapsInv
    <3>2. up[o].n \in 1..MaxMaps
          BY ZenonT(30), <1>0, <1>3, <3>1, InRange
    <3>3. epLock[up[o].e] = o
          BY <1>3, <1>0 DEF LocksHeld
    <3> QED BY Zenon, <3>2, <3>3
  <2>2. maps'[up[o].e][up[o].n][j] = c
    <3>1. PutEffect(up[o].e, up[o].n, j, c)
          BY Zenon, <1>0, <1>3, <2>1, PutChanges
    <3> QED BY Zenon, <3>1 DEF PutEffect
  <2>3. EntryKept(up[o].e, up[o].n, j)
        BY Zenon, <1>3, <2>1, <2>2 DEF EntryKept
  <2> QED BY ZenonT(30), <1>0, <1>3, <2>1, <2>3, PutKept
<1>4. ASSUME NEW j \in Keys, RangeObserver(o, j) PROVE EntryKept(e, n, k)
  <2> DEFINE b == maps[up[o].e][up[o].n][j]
             c == [b EXCEPT !.obs = o]
  <2>1. /\ up[o].pc = "range" /\ Put(up[o].e, up[o].n, j, c) /\ Present(b)
        BY Zenon, <1>4 DEF RangeObserver, Stored
  <2>2. up[o].n \in 1..MaxMaps
        BY ZenonT(30), <1>0, <2>1, InRange DEF MapsInv
  <2>3. b \in Correlations
        BY Zenon, <1>0, <2>2, EntryType
  <2> HIDE DEF b
  <2>4. c \in Correlations /\ c.state = b.state
        BY Zenon, <2>3 DEF Correlations
  <2>5. Present(c)
        BY Zenon, <2>1, <2>4 DEF Present
  <2> QED BY Zenon, <1>3, <2>1, <2>4, <2>5
<1>5. CASE RangeState(o)
  <2> DEFINE b == maps[up[o].e][up[o].n][up[o].key]
             c == [b EXCEPT !.state = up[o].state, !.age = "fresh"]
  <2>1. /\ up[o].pc = "half" /\ Put(up[o].e, up[o].n, up[o].key, c)
        BY Zenon, <1>5 DEF RangeState
  <2>2. up[o].n \in 1..MaxMaps
        BY ZenonT(30), <1>0, <2>1, InRange DEF MapsInv
  <2>3. b \in Correlations
        BY Zenon, <1>0, <2>2, EntryType
  <2> HIDE DEF b
  <2>4. c \in Correlations /\ c.state = up[o].state
        BY Zenon, <1>0, <2>3 DEF Correlations
  <2>5. Present(c)
        BY Zenon, <1>0, <2>4 DEF Present, EndpointStates
  <2> QED BY Zenon, <1>0, <1>3, <2>1, <2>4, <2>5
<1>6. CASE \/ \E f \in Endpoints, s \in EndpointStates : UpdateCall(o, f, s)
           \/ UpdateKnown(o) \/ UpdateReturn(o)
      BY Zenon, <1>1, <1>6 DEF UpdateCall, UpdateKnown, UpdateReturn
<1> QED BY Zenon, <1>2, <1>4, <1>5, <1>6 DEF UpdateEndpoint

\* GetOrCreate stores no correlation again and drops none.
LEMMA GetKept ==
    ASSUME IndInv, NEW g \in Getters, GetOrCreate(g),
           NEW e \in Endpoints, NEW n \in 1..made[e], NEW k \in Keys
    PROVE  EntryKept(e, n, k)
<1>0. /\ TypeOK /\ MapsMade /\ StoreSound /\ get[g] \in Gets
      BY Zenon DEF IndInv, TypeOK
<1>a. get[g].e \in Endpoints /\ get[g].r \in Keys /\ get[g].copy \in Correlations
      BY Zenon, <1>0 DEF Gets, Keys
<1>1. ASSUME UNCHANGED maps PROVE EntryKept(e, n, k)
      BY Zenon, <1>1 DEF EntryKept
<1>2. CASE GetMap(g)
  <2>1. newCorrelation \in Correlations
        BY Zenon DEF newCorrelation, Correlations
  <2>2. UNCHANGED maps \/ StoreNewMap(get[g].e, newCorrelation)
        BY Zenon, <1>2 DEF GetMap
  <2> QED BY Zenon, <1>0, <1>1, <1>a, <2>1, <2>2, NewMapKept
<1>3. CASE GetStore(g)
  <2>1. get[g].pc = "store" /\ Put(get[g].e, get[g].n, get[g].r, get[g].copy)
        BY Zenon, <1>3 DEF GetStore
  <2>2. get[g].n \in 1..MaxMaps
        BY Zenon, <1>0, <2>1, InRange
  <2>3. EntryKept(get[g].e, get[g].n, get[g].r)
        BY Zenon, <1>0, <2>1 DEF StoreSound, EntryKept
  <2> QED BY Zenon, <1>0, <1>a, <2>1, <2>2, <2>3, PutKept
<1>4. CASE \/ \E r \in Receivers, f \in Endpoints : GetCall(g, r, f)
           \/ GetLockReceiver(g) \/ GetExisting(g) \/ GetCopy(g)
      BY Zenon, <1>1, <1>4 DEF GetCall, GetLockReceiver, GetExisting, GetCopy
<1> QED BY Zenon, <1>2, <1>3, <1>4 DEF GetOrCreate

\* The reaper stores no correlation again and drops none from its map.
LEMMA ReapKept ==
    ASSUME IndInv, LoopStep \/ (\E f \in Endpoints : ReapVisit(f) \/ Expire(f)) \/ ReapEndpoint,
           NEW e \in Endpoints, NEW n \in 1..made[e], NEW k \in Keys
    PROVE  EntryKept(e, n, k)
<1>0. TypeOK
      BY Zenon DEF IndInv
<1>1. ASSUME NEW f \in Endpoints, Expire(f) PROVE EntryKept(e, n, k)
  <2> DEFINE b == maps[f][cur[f]][NoType]
             c == [b EXCEPT !.age = "old"]
  <2>1. cur[f] # 0 /\ Put(f, cur[f], NoType, c)
        BY Zenon, <1>1 DEF Expire
  <2>2. cur[f] \in 1..MaxMaps /\ NoType \in Keys
        BY Zenon, <1>0, <2>1, CurRange
  <2>3. b \in Correlations
        BY Zenon, <1>0, <2>2, EntryType
  <2>4. maps'[f][cur[f]][NoType] = c
    <3>1. c \in Correlations
          BY Zenon, <2>3, FieldTypes
    <3> HIDE DEF c
    <3>2. PutEffect(f, cur[f], NoType, c)
          BY Zenon, <1>0, <1>1, <2>1, <2>2, <3>1, PutChanges
    <3> QED BY Zenon, <3>2 DEF PutEffect
  <2>5. c \in Correlations /\ EventOf(c) = EventOf(b)
    <3> HIDE DEF b
    <3>1. c \in Correlations /\ c.obs = b.obs /\ c.state = b.state
          BY Zenon, <2>3 DEF Correlations
    <3> QED BY Zenon, <3>1 DEF EventOf
  <2>6. EntryKept(f, cur[f], NoType)
        BY Zenon, <2>4, <2>5 DEF EntryKept
  <2> HIDE DEF c
  <2> QED BY ZenonT(30), <1>0, <2>1, <2>2, <2>5, <2>6, PutKept
<1>2. CASE LoopStep \/ (\E f \in Endpoints : ReapVisit(f)) \/ ReapEndpoint
  <2>1. UNCHANGED maps
        BY Zenon, <1>2 DEF LoopStep, Start, Stop, ReapExit, ReapTick, ReapDone,
           ReapVisit, ReapEndpoint
  <2> QED BY Zenon, <2>1 DEF EntryKept
<1> QED BY Zenon, <1>1, <1>2

\* However many goroutines ask for one receiver's correlation, it is stored
\* once, and afterwards only UpdateEndpoint changes its event.
THEOREM StoreCorrelationStoredOnce == Spec => CorrelationStoredOnce
<1>1. IndInv /\ [Next]_vars =>
          [\A e \in Endpoints : \A n \in 1..made[e] : \A k \in Keys : EntryKept(e, n, k)]_vars
  <2> SUFFICES ASSUME IndInv, Next, NEW e \in Endpoints, NEW n \in 1..made[e], NEW k \in Keys
               PROVE  EntryKept(e, n, k)
      BY Zenon
  <2> QED BY Zenon, UpdateKept, GetKept, ReapKept DEF Next, reap, LoopStep
<1> QED BY <1>1, Invariance, PTL DEF Spec, CorrelationStoredOnce, EntryKept
====
