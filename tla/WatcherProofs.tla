---------------------------- MODULE WatcherProofs -----------------------------
(***************************************************************************)
(* What watches something outside the collector: the config sources, the   *)
(* PostgreSQL, Elasticsearch and Docker monitors, for every number of      *)
(* directives, databases, nodes and containers.                            *)
(***************************************************************************)
EXTENDS ConfigSources, PostgresMonitor, ElasticsearchStats, DockerMonitor, FiniteSetTheorems,
        TLAPS

-----------------------------------------------------------------------------
(* The PostgreSQL monitor                                                  *)

PostgresSpec == PostgresInit /\ [][PostgresNext]_postgresVars

\* Query loops belong to SQL monitors that the monitor still holds, which is
\* why Shutdown reaches all of them, and the one for replication is not
\* started twice.
LoopsHeld ==
    /\ \A n \in Databases \union Whole : loops[n] # 0 => n \in monitoredDBs \union whole
    /\ "replication" \in whole => replicating

PostgresInv == PostgresTypeOK /\ LoopsHeld /\ NothingAfterShutdown

\* What a poll starts is new, so that its loop is not running yet.
LEMMA PollStartsNew ==
    ASSUME PostgresInv, NEW answered, NEW rows
    PROVE  /\ NewWhole(answered) \subseteq Enabled \ whole
           /\ \A n \in NewWhole(answered) \union NewDatabases(rows \intersect Matched) :
                 loops[n] = 0
<1>1. NewWhole(answered) \subseteq Enabled \ whole
      BY Zenon DEF PostgresInv, LoopsHeld, NewWhole
<1>2. NewDatabases(rows \intersect Matched) \subseteq Matched \ monitoredDBs
      BY Zenon DEF NewDatabases
<1>3. \A n \in NewWhole(answered) \union NewDatabases(rows \intersect Matched) :
         n \in Databases \union Whole /\ n \notin monitoredDBs \union whole
      BY Zenon, <1>1, <1>2, PostgresAssumption DEF PostgresInv, PostgresTypeOK, Whole
<1> QED BY Zenon, <1>1, <1>3 DEF PostgresInv, LoopsHeld

\* A poll of the databases keeps the invariant.
LEMMA PollInv == PostgresInv /\ Poll => PostgresInv'
<1> SUFFICES ASSUME PostgresInv, Poll PROVE PostgresInv'
    BY Zenon
<1>1. CASE shut
      BY Zenon, <1>1 DEF Poll, nested, postgresServer, PostgresInv, PostgresTypeOK,
         LoopsHeld,
                  NothingAfterShutdown
<1>2. CASE ~shut
  <2>1. PollNested /\ UNCHANGED <<postgresServer, shut>> /\ poll' = "ticker"
        BY Zenon, <1>2 DEF Poll
  <2>2. PICK answered \in Answers, rows \in Rows :
           LET new == NewWhole(answered)
               dbs == rows \intersect Matched
               newDBs == NewDatabases(dbs)
           IN /\ whole' = whole \union new
              /\ replicating' = (replicating \/ "replication" \in Enabled)
              /\ monitoredDBs' = (monitoredDBs \intersect dbs) \union newDBs
              /\ loops' = LoopsStopped(LoopsStarted(new \union newDBs), monitoredDBs \ dbs)
        BY Zenon, <2>1 DEF PollNested
  <2> DEFINE new == NewWhole(answered)
             dbs == rows \intersect Matched
             newDBs == NewDatabases(dbs)
  <2>3. /\ new \subseteq Enabled \ whole /\ newDBs \subseteq Matched
        /\ \A m \in new \union newDBs : loops[m] = 0
        BY Zenon, PollStartsNew DEF NewDatabases
  <2>4. /\ loops \in [Databases \union Whole -> 0..1]
        /\ loops' = [m \in Databases \union Whole |->
                        IF m \in monitoredDBs \ dbs THEN 0
                        ELSE IF m \in new \union newDBs THEN loops[m] + 1 ELSE loops[m]]
        BY Zenon, <2>2 DEF LoopsStopped, LoopsStarted, PostgresInv, PostgresTypeOK
  <2> HIDE DEF new, dbs, newDBs
  <2>5. loops' \in [Databases \union Whole -> 0..1]
        BY <2>3, <2>4
  <2>6. PostgresTypeOK'
    <3>1. monitoredDBs' \subseteq Matched /\ whole' \subseteq Enabled
          BY Zenon, <2>2, <2>3 DEF new, dbs, newDBs, PostgresInv, PostgresTypeOK
    <3>2. replicating' \in BOOLEAN
          BY Zenon, <2>2
    <3> QED BY Zenon, <2>1, <2>5, <3>1, <3>2 DEF postgresServer, PostgresInv,
               PostgresTypeOK
  <2>7. LoopsHeld'
    <3>1. \A m \in Databases \union Whole :
             loops'[m] # 0 => m \in monitoredDBs' \union whole'
          BY Zenon, <2>2, <2>4 DEF new, dbs, newDBs, PostgresInv, LoopsHeld
    <3>2. "replication" \in whole' => replicating'
          BY Zenon, <2>2, <2>3 DEF new, dbs, newDBs, PostgresInv, LoopsHeld
    <3> QED BY Zenon, <3>1, <3>2 DEF LoopsHeld
  <2> QED BY Zenon, <1>2, <2>1, <2>6, <2>7 DEF PostgresInv, NothingAfterShutdown
<1> QED BY Zenon, <1>1, <1>2

\* The inductive invariant of the PostgreSQL monitor.
THEOREM PostgresInvariant == PostgresSpec => []PostgresInv
<1>1. PostgresInit => PostgresInv
  <2> SUFFICES ASSUME PostgresInit PROVE PostgresInv
      BY Zenon
  <2>1. PostgresTypeOK
    <3>1. serverEvents \in 0..MaxServerEvents /\ loops \in [Databases \union Whole -> 0..1]
          BY PostgresAssumption DEF PostgresInit
    <3> QED BY Zenon, <3>1 DEF PostgresInit, PostgresTypeOK
  <2>2. LoopsHeld
        BY Zenon DEF PostgresInit, LoopsHeld
  <2>3. NothingAfterShutdown
        BY Zenon DEF PostgresInit, NothingAfterShutdown
  <2> QED BY Zenon, <2>1, <2>2, <2>3 DEF PostgresInv
<1>2. PostgresInv /\ [PostgresNext]_postgresVars => PostgresInv'
  <2> SUFFICES ASSUME PostgresInv, [PostgresNext]_postgresVars PROVE PostgresInv'
      BY Zenon
  <2> USE DEF PostgresInv, PostgresTypeOK, LoopsHeld, NothingAfterShutdown
  <2>1. CASE ServerChanges
    <3>1. serverEvents' \in 0..MaxServerEvents
          BY <2>1, PostgresAssumption DEF ServerChanges
    <3>2. /\ databases' \subseteq Databases /\ health' \in {"up", "flaky", "down"}
          /\ extension' \in BOOLEAN
          BY Zenon, <2>1 DEF ServerChanges
    <3> QED BY Zenon, <2>1, <3>1, <3>2 DEF ServerChanges, nested
  <2>2. CASE PostgresConfigure
        BY Zenon, <2>2 DEF PostgresConfigure, postgresServer, nested
  <2>3. CASE PollTicks
        BY Zenon, <2>3 DEF PollTicks, postgresServer, nested
  <2>4. CASE Poll
        BY Zenon, <2>4, PollInv
  <2>5. CASE PostgresShutdown
        BY <2>5 DEF PostgresShutdown, LoopsStopped, postgresServer
  <2>6. CASE UNCHANGED postgresVars
        BY Zenon, <2>6 DEF postgresVars
  <2> QED BY Zenon, <2>1, <2>2, <2>3, <2>4, <2>5, <2>6 DEF PostgresNext, PollStep
<1> QED BY <1>1, <1>2, PTL DEF PostgresSpec

\* Once Shutdown has returned no SQL monitor queries the server any more,
\* whatever databases came and went, and though a poll may have been waiting
\* for the mutex meanwhile.
THEOREM PostgresNothingAfterShutdown == PostgresSpec => []NothingAfterShutdown
BY PostgresInvariant, PTL DEF PostgresInv

-----------------------------------------------------------------------------
(* The Elasticsearch monitor                                               *)

EsSpec == EsInit /\ [][EsNext]_esVars

\* One answer named the node and the cluster of these dimensions together.
Paired(answers, d) ==
    \E r \in answers : d.node = r.node /\ d.node # Unset
                       /\ d.name = DefaultName(r) /\ d.name # Unset

\* Fetchers run only after a refresh that succeeded, and no refresh that fails
\* spoils the dimensions of the node.
RefreshSound ==
    /\ refresh.at = "update" =>
          [node |-> refresh.answer.node, name |-> refresh.answer.name] \in reported
    /\ isInitialized => Paired(reported, shared.nodeDims)
    /\ ~isInitialized => \A f \in Fetchers : fetch[f].at = "none"

EsInv == EsTypeOK /\ RefreshSound /\ DimensionsPaired

\* What RefreshInfo makes of an answer.
LEMMA UpdatedDims ==
    ASSUME EsTypeOK, NEW answer \in EsAnswers
    PROVE  /\ Succeeded(answer) =>
                 Updated(answer).nodeDims = [node |-> answer.node, name |-> DefaultName(answer)]
           /\ ~Succeeded(answer) => Updated(answer).nodeDims = shared.nodeDims
<1>1. CASE answer.node = Unset
      BY Zenon, <1>1 DEF Updated, Succeeded
<1>2. CASE answer.node # Unset /\ DefaultName(answer) = Unset
      BY Zenon, <1>2 DEF Updated, Succeeded, EsTypeOK
<1>3. CASE answer.node # Unset /\ DefaultName(answer) # Unset
      BY Zenon, <1>3 DEF Updated, Succeeded
<1> QED BY Zenon, <1>1, <1>2, <1>3

\* What RefreshInfo makes of an answer has its type.
LEMMA UpdatedType ==
    ASSUME EsTypeOK, NEW answer \in EsAnswers
    PROVE  Updated(answer) \in [default : EsNames \union {Unset, Configured}, nodeDims : Dims,
                                isMaster : BOOLEAN]
<1>0. /\ (answer.node = answer.master) \in BOOLEAN
      /\ DefaultName(answer) \in EsNames \union {Unset, Configured}
      /\ answer.node \in EsNodes \union {Unset}
      BY Zenon DEF EsAnswers, DefaultName
<1>1. CASE answer.node = Unset
      BY Zenon, <1>1 DEF Updated, EsTypeOK
<1>2. CASE answer.node # Unset /\ DefaultName(answer) = Unset
      BY Zenon, <1>0, <1>2 DEF Updated, EsTypeOK
<1>3. CASE answer.node # Unset /\ DefaultName(answer) # Unset
  <2>1. [node |-> answer.node, name |-> DefaultName(answer)] \in Dims
        BY Zenon, <1>0 DEF Dims
  <2> QED BY Zenon, <1>0, <1>3, <2>1 DEF Updated
<1> QED BY Zenon, <1>1, <1>2, <1>3

\* A step that leaves the shared dimensions alone, and adds to the answers.
LEMMA PairedKept ==
    ASSUME reported \subseteq reported', NEW d, Paired(reported, d)
    PROVE  Paired(reported', d)
BY Zenon DEF Paired

\* Every step keeps the types of the Elasticsearch monitor.
LEMMA EsTypes == EsTypeOK /\ EsNext => EsTypeOK'
<1> SUFFICES ASSUME EsTypeOK, EsNext PROVE EsTypeOK'
    BY Zenon
<1>1. CASE EsChanges
      BY <1>1, ElasticsearchAssumption DEF EsChanges, EsTypeOK, EsAnswers
<1>2. CASE EsConfigure
      BY Zenon, <1>2 DEF EsConfigure, EsTypeOK
<1>3. CASE EsShutdown
      BY Zenon, <1>3 DEF EsShutdown, EsTypeOK
<1>4. CASE GetInfo
      BY <1>4 DEF GetInfo, EsTypeOK, EsAnswers, NoAnswer
<1>5. CASE RefreshInfo
      BY <1>5, UpdatedType DEF RefreshInfo, EsTypeOK, EsAnswers, NoAnswer
<1>6. CASE RefreshTicks
      BY <1>6 DEF RefreshTicks, EsTypeOK
<1>7. ASSUME NEW f \in Fetchers, FetchRead(f) PROVE EsTypeOK'
      BY <1>7 DEF FetchRead, EsTypeOK, Dims, NoDims
<1>8. ASSUME NEW f \in Fetchers, FetchSend(f) PROVE EsTypeOK'
      BY <1>8 DEF FetchSend, EsTypeOK, Dims, NoDims
<1>9. ASSUME NEW f \in Fetchers, FetchTicks(f) PROVE EsTypeOK'
      BY <1>9 DEF FetchTicks, EsTypeOK
<1> QED BY Zenon, <1>1, <1>2, <1>3, <1>4, <1>5, <1>6, <1>7, <1>8, <1>9 DEF EsNext

\* Every step keeps the dimensions sound.
LEMMA EsStep == EsInv /\ EsNext => RefreshSound' /\ DimensionsPaired'
<1> SUFFICES ASSUME EsInv, EsNext PROVE RefreshSound' /\ DimensionsPaired'
    BY Zenon
<1>0. EsTypeOK /\ RefreshSound /\ "node" \in Fetchers
      BY Zenon DEF EsInv, Fetchers
<1>a. DimensionsPaired = (fetch["node"].at = "get" => Paired(reported, fetch["node"].dims))
      BY Zenon DEF DimensionsPaired, Paired
<1>b. DimensionsPaired' = (fetch'["node"].at = "get" => Paired(reported', fetch'["node"].dims))
      BY Zenon DEF DimensionsPaired, Paired
<1>c. DimensionsPaired
      BY Zenon DEF EsInv
<1>1. ASSUME UNCHANGED <<shared, isInitialized, fetch>>, reported \subseteq reported',
             refresh'.at = "update" =>
                [node |-> refresh'.answer.node, name |-> refresh'.answer.name] \in reported'
      PROVE  RefreshSound' /\ DimensionsPaired'
  <2>1. \A d : Paired(reported, d) => Paired(reported', d)
        BY Zenon, <1>1, PairedKept
  <2>2. RefreshSound'
        BY Zenon, <1>0, <1>1, <2>1 DEF RefreshSound
  <2> QED BY Zenon, <1>1, <1>a, <1>b, <1>c, <2>1, <2>2
<1>2. CASE EsChanges \/ EsConfigure \/ EsShutdown \/ RefreshTicks
      BY <1>0, <1>1, <1>2
         DEF EsChanges, EsConfigure, EsShutdown, RefreshTicks, RefreshSound, EsTypeOK
<1>3. CASE GetInfo
      BY <1>0, <1>1, <1>3 DEF GetInfo, RefreshSound, EsTypeOK, EsAnswers
<1>4. CASE RefreshInfo
  <2> DEFINE a == refresh.answer
  <2>1. /\ a \in EsAnswers /\ shared' = Updated(a) /\ reported' = reported
        /\ isInitialized' = (isInitialized \/ Succeeded(a)) /\ refresh'.at = "ticker"
        /\ [node |-> a.node, name |-> a.name] \in reported
        BY Zenon, <1>0, <1>4 DEF RefreshInfo, RefreshSound, EsTypeOK
  <2>2. \A d : Paired(reported, d) => Paired(reported', d)
        BY Zenon, <2>1, PairedKept
  <2>3. isInitialized' => Paired(reported', shared'.nodeDims)
    <3>1. CASE Succeeded(a)
      <4>1. shared'.nodeDims = [node |-> a.node, name |-> DefaultName(a)]
            BY Zenon, <1>0, <2>1, <3>1, UpdatedDims
      <4> QED BY <2>1, <3>1, <4>1 DEF Succeeded, Paired, DefaultName
    <3>2. CASE ~Succeeded(a)
      <4>1. shared'.nodeDims = shared.nodeDims
            BY Zenon, <1>0, <2>1, <3>2, UpdatedDims
      <4> QED BY Zenon, <1>0, <2>1, <2>2, <3>2, <4>1 DEF RefreshSound
    <3> QED BY Zenon, <3>1, <3>2
  <2>4. CASE ~isInitialized /\ isInitialized'
    <3>1. \A f \in Fetchers : fetch'[f].at = "read"
          BY Zenon, <1>0, <1>4, <2>4 DEF RefreshInfo, EsTypeOK
    <3> QED BY Zenon, <1>0, <1>b, <2>1, <2>3, <2>4, <3>1 DEF RefreshSound
  <2>5. CASE ~(~isInitialized /\ isInitialized')
    <3>1. fetch' = fetch
          BY Zenon, <1>4, <2>5 DEF RefreshInfo
    <3> QED BY Zenon, <1>0, <1>a, <1>b, <1>c, <2>1, <2>2, <2>3, <2>5, <3>1
               DEF RefreshSound
  <2> QED BY Zenon, <2>4, <2>5
\* The fetchers read what the refreshes keep paired.
<1>5. ASSUME NEW f \in Fetchers, FetchRead(f) \/ FetchSend(f) \/ FetchTicks(f)
      PROVE  RefreshSound' /\ DimensionsPaired'
  <2>1. UNCHANGED <<refresh, shared, isInitialized, reported>> /\ fetch[f].at # "none"
        BY Zenon, <1>5 DEF FetchRead, FetchSend, FetchTicks
  <2>2. \A d : Paired(reported, d) => Paired(reported', d)
        BY Zenon, <2>1, PairedKept
  <2>3. isInitialized
        BY Zenon, <1>0, <2>1 DEF RefreshSound
  <2>4. RefreshSound'
        BY Zenon, <1>0, <2>1, <2>2, <2>3 DEF RefreshSound
  <2>5. CASE f # "node" \/ fetch'["node"].at # "get"
    <3>1. f # "node" => fetch'["node"] = fetch["node"]
          BY Zenon, <1>0, <1>5 DEF FetchRead, FetchSend, FetchTicks, EsTypeOK
    <3> QED BY Zenon, <1>a, <1>b, <1>c, <2>2, <2>4, <2>5, <3>1
  <2>6. CASE f = "node" /\ fetch'["node"].at = "get"
    <3>1. fetch'["node"].dims = shared.nodeDims
          BY <1>0, <1>5, <2>6 DEF FetchRead, FetchSend, FetchTicks, EsTypeOK
    <3> QED BY Zenon, <1>0, <1>b, <2>2, <2>3, <2>4, <3>1 DEF RefreshSound
  <2> QED BY Zenon, <2>5, <2>6
<1> QED BY Zenon, <1>2, <1>3, <1>4, <1>5 DEF EsNext

\* The inductive invariant of the Elasticsearch monitor.
THEOREM EsInvariant == EsSpec => []EsInv
<1>1. EsInit => EsInv
  <2> SUFFICES ASSUME EsInit PROVE EsInv
      BY Zenon
  <2>1. EsTypeOK
    <3>1. esEvents \in 0..MaxEsEvents
          BY ElasticsearchAssumption DEF EsInit
    <3>2. es \in EsAnswers /\ NoAnswer \in EsAnswers /\ NoDims \in Dims
          BY Zenon DEF EsInit, EsAnswers, NoAnswer, Dims, NoDims
    <3> QED BY Zenon, <3>1, <3>2 DEF EsInit, EsTypeOK
  <2>2. RefreshSound /\ DimensionsPaired
        BY Zenon DEF EsInit, RefreshSound, DimensionsPaired, Fetchers
  <2> QED BY Zenon, <2>1, <2>2 DEF EsInv
<1>2. EsInv /\ [EsNext]_esVars => EsInv'
  <2>1. EsInv /\ UNCHANGED esVars => EsInv'
        BY DEF esVars, EsInv, EsTypeOK, RefreshSound, Paired, DimensionsPaired,
           DefaultName
  <2> QED BY Zenon, <2>1, EsTypes, EsStep DEF EsInv
<1> QED BY <1>1, <1>2, PTL DEF EsSpec

\* Statistics of the node carry a node and a cluster that one answer named
\* together, whatever is replaced, renamed or fails between requests.
THEOREM EsDimensionsPaired == EsSpec => []DimensionsPaired
BY EsInvariant, PTL DEF EsInv

-----------------------------------------------------------------------------
(* The config sources                                                      *)

\* The directive is resolved in the present configuration.
Done(k) == pc = "running" \/ (pc = "resolve" /\ k < next)

\* The directives are resolved in their order, and a goroutine that has fired
\* has left an event that the next reload takes.
ResolveOrder ==
    /\ pc = "running" => next = 1 /\ half = "no"
    /\ half = "yes" => pc = "resolve" /\ Kind(next) = "include"
    /\ pc = "resolve" => \A g \in Keys : g >= next => watch[g] = "none"
    /\ files # {} => watch[Notify] # "none"
    /\ \A g \in Goroutines : watch[g] = "done" => event = "change"

\* Keys of one secret that are resolved have one version of it.
SecretSoFar ==
    \A k1, k2 \in Keys :
        Done(k1) /\ Done(k2) /\ Kind(k1) \in Vault /\ ItemOf[k1] = ItemOf[k2]
            => seen[k1] = seen[k2]

\* A goroutine of the configuration looks after what a directive was resolved
\* to, or has noticed that it is old: the file's or, for other sources, that of
\* the first directive of the item.  Those of leases only have to be there.
FileCovered(k) ==
    /\ ItemOf[k] \in files /\ watch[Notify] # "none"
    /\ watch[Notify] = "on" => seen[k] = version[ItemOf[k]] \/ k \in missed
ItemCovered(k) ==
    \E g \in Keys : /\ ItemOf[g] = ItemOf[k] /\ watch[g] # "none"
                    /\ watch[g] = "on" /\ Kind(k) \in Noticing => seen[k] = version[ItemOf[k]]
Covered ==
    \A k \in Keys : Done(k) =>
        /\ Kind(k) = "include" => FileCovered(k)
        /\ Kind(k) \notin {"include"} \union Unwatched => ItemCovered(k)

\* A file that is read and not watched yet is as read, or known to have changed.
HalfCovered ==
    half = "yes" => \/ seen[next] = version[ItemOf[next]] \/ next \in missed
                    \/ ItemOf[next] \in files /\ watch[Notify] \notin {"none", "on"}

SourcesInv == TypeOK /\ ResolveOrder /\ SecretSoFar /\ Covered /\ HalfCovered

\* The inductive invariant implies the properties.
LEMMA SourcesImply == SourcesInv => SecretConsistent /\ StaleIsPending
<1> SUFFICES ASSUME SourcesInv PROVE SecretConsistent /\ StaleIsPending
    BY Zenon
<1>1. SecretConsistent
      BY Zenon DEF SourcesInv, SecretSoFar, SecretConsistent, Done
<1>2. StaleIsPending
  <2> SUFFICES ASSUME pc = "running", NEW k \in Keys, ~Unnoticed(k),
                      seen[k] # version[ItemOf[k]]
               PROVE  \/ event = "change"
                      \/ \E g \in Goroutines : watch[g] \in {"changed", "fire", "fire2"}
      BY Zenon DEF StaleIsPending
  <2>1. PICK g \in Goroutines : watch[g] \notin {"none", "on"}
    <3>0. Kind(k) \notin Unwatched /\ k \notin missed
          BY Zenon DEF Unnoticed
    <3>1. CASE Kind(k) = "include"
          BY Zenon, <3>0, <3>1 DEF SourcesInv, Covered, FileCovered, Done, Goroutines
    <3>2. CASE Kind(k) # "include"
      <4>1. PICK g \in Keys : /\ ItemOf[g] = ItemOf[k] /\ watch[g] # "none"
                              /\ watch[g] = "on" /\ Kind(k) \in Noticing => seen[k] = version[ItemOf[k]]
            BY Zenon, <3>0, <3>2 DEF SourcesInv, Covered, ItemCovered, Done
      <4>2. Kind(k) \in Noticing \/ Kind(k) \in {"lease", "renewable"}
            BY Zenon, <3>0, SourcesAssumption DEF Kind, Vault, Noticing, Unwatched
      <4>3. watch[g] # "on"
            BY Zenon, <4>1, <4>2 DEF Unnoticed, KeysOf
      <4> QED BY Zenon, <4>1, <4>3 DEF Goroutines
    <3> QED BY Zenon, <3>1, <3>2
  <2> QED BY Zenon, <2>1 DEF SourcesInv, ResolveOrder, TypeOK
<1> QED BY Zenon, <1>1, <1>2

\* Cardinality of the goroutines that are about to fire.
LEMMA FiringType == Cardinality(Firing) \in Nat /\ Cardinality(Firing2) \in Nat
<1>1. IsFiniteSet(1..NKeys)
      BY SourcesAssumption, FS_Interval
<1>2. IsFiniteSet(Goroutines)
      BY Zenon, <1>1, FS_Singleton, FS_Union DEF Goroutines, Keys
<1>3. IsFiniteSet(Firing) /\ IsFiniteSet(Firing2)
      BY Zenon, <1>2, FS_Subset DEF Firing, Firing2
<1> QED BY Zenon, <1>3, FS_CardinalityType

\* A version that is read is a version.
LEMMA ReadType == TypeOK => ReadItem(next) \in 0..MaxVersion
<1> SUFFICES ASSUME TypeOK PROVE ReadItem(next) \in 0..MaxVersion
    BY Zenon
<1>1. version[ItemOf[next]] \in 0..MaxVersion
      BY Zenon, SourcesAssumption DEF TypeOK
<1>2. CASE Resolved(ItemOf[next]) # {}
  <2>1. \A k \in Resolved(ItemOf[next]) : k \in Keys
        BY SourcesAssumption DEF Resolved, TypeOK, Keys
  <2>2. (CHOOSE k \in Resolved(ItemOf[next]) : TRUE) \in Keys
        BY Zenon, <1>2, <2>1
  <2> QED BY Zenon, <1>1, <2>2 DEF ReadItem, TypeOK
<1>3. CASE Resolved(ItemOf[next]) = {}
      BY Zenon, <1>1, <1>3 DEF ReadItem
<1> QED BY Zenon, <1>2, <1>3

\* After a retrieval the next key is one, or all are resolved.
LEMMA RetrievedType ==
    TypeOK /\ Retrieved => next' \in Keys /\ (pc' = "running" \/ pc' = pc) /\ half' = "no"
BY SourcesAssumption DEF TypeOK, Retrieved, Keys

\* Every step keeps the types of the config sources.
LEMMA SourcesTypes == TypeOK /\ Next => TypeOK'
<1> SUFFICES ASSUME TypeOK, Next PROVE TypeOK'
    BY Zenon
<1> USE DEF TypeOK
<1>0. Notify \in Goroutines /\ Keys \subseteq Goroutines /\ MaxErrors \in Nat /\ MaxVersion \in Nat
      BY Zenon, SourcesAssumption DEF Goroutines
<1>1. ASSUME NEW i \in Items, Change(i) PROVE TypeOK'
  <2>1. version' \in [Items -> 0..MaxVersion]
        BY <1>0, <1>1 DEF Change
  <2>2. idle' \in [Goroutines -> Nat]
        BY Zenon, <1>1 DEF Change
  <2>3. alert' \in [Goroutines -> Nat]
        BY <1>1 DEF Change
  <2>4. watch' \in [Goroutines -> {"none", "on", "changed", "fire2", "fire", "done"}]
        BY Zenon, <1>1 DEF Change
  <2>5. missed' \subseteq Keys
        BY Zenon, <1>1 DEF Change, KeysOf
  <2> QED BY Zenon, <1>1, <2>1, <2>2, <2>3, <2>4, <2>5 DEF Change
<1>a. ASSUME NEW i \in Items, Replace(i) PROVE TypeOK'
  <2>1. version' \in [Items -> 0..MaxVersion]
        BY <1>0, <1>a DEF Replace
  <2>2. missed' \subseteq Keys /\ detached' \subseteq files
        BY Zenon, <1>a DEF Replace, KeysOf
  <2> QED BY Zenon, <1>a, <2>1, <2>2 DEF Replace, closed
<1>2. CASE Retrieve
  <2>1. /\ seen' \in [Keys -> 0..MaxVersion]
        /\ watch' \in [Goroutines -> {"none", "on", "changed", "fire2", "fire", "done"}]
        BY Zenon, <1>0, <1>2, ReadType DEF Retrieve
  <2>2. next' \in Keys /\ (pc' = "running" \/ pc' = pc) /\ half' = "no"
        BY Zenon, <1>2, RetrievedType DEF Retrieve
  <2> QED BY Zenon, <1>2, <2>1, <2>2 DEF Retrieve, Retrieved, closed
<1>3. CASE RetrieveFails
  <2>1. errors' \in 0..MaxErrors
        BY <1>0, <1>3 DEF RetrieveFails
  <2> QED BY Zenon, <1>3, <2>1 DEF RetrieveFails, closed
<1>4. CASE RetrieveFile
  <2>1. seen' \in [Keys -> 0..MaxVersion]
        BY Zenon, <1>4, ReadType DEF RetrieveFile
  <2> QED BY Zenon, <1>4, <2>1 DEF RetrieveFile, closed
<1>5. CASE WatchFile
  <2>1. watch' \in [Goroutines -> {"none", "on", "changed", "fire2", "fire", "done"}]
        BY Zenon, <1>0, <1>5 DEF WatchFile
  <2>2. next' \in Keys /\ (pc' = "running" \/ pc' = pc) /\ half' = "no"
        BY Zenon, <1>5, RetrievedType DEF WatchFile
  <2>3. files' \subseteq Items /\ detached' \subseteq files'
        BY Zenon, <1>5, SourcesAssumption DEF WatchFile, Retrieved
  <2> QED BY Zenon, <1>5, <2>1, <2>2, <2>3 DEF WatchFile, Retrieved, closed
<1>6. CASE Reload
  <2>1. idle' \in [Goroutines -> Nat] /\ alert' \in [Goroutines -> Nat]
        BY <1>6 DEF Reload, Is
  <2>2. late' \in Nat
        BY <1>6, FiringType DEF Reload
  <2>3. pc' \in {"resolve", "running", "failed"}
        BY Zenon, <1>6 DEF Reload
  <2> QED BY Zenon, <1>6, <2>1, <2>2, <2>3 DEF Reload, NewGoroutines
<1>7. ASSUME NEW g \in Goroutines, Notice(g) \/ NoticeError(g) \/ Fire(g) PROVE TypeOK'
  <2>1. errors' \in 0..MaxErrors
        BY <1>0, <1>7 DEF Notice, NoticeError, Fire
  <2>2. watch' \in [Goroutines -> {"none", "on", "changed", "fire2", "fire", "done"}]
        BY Zenon, <1>7 DEF Notice, NoticeError, Fire
  <2> QED BY Zenon, <1>7, <2>1, <2>2 DEF Notice, NoticeError, Fire, resolving, closed
<1>8. ASSUME NEW g \in Goroutines, Stop(g) \/ NoticeLate(g) PROVE TypeOK'
  <2>1. idle' \in [Goroutines -> Nat] /\ alert' \in [Goroutines -> Nat] /\ late' \in Nat
        BY <1>8 DEF Stop, NoticeLate
  <2> QED BY Zenon, <1>8, <2>1 DEF Stop, NoticeLate, resolving
<1>9. CASE FireLate
  <2>1. late' \in Nat
        BY <1>9 DEF FireLate
  <2> QED BY Zenon, <1>9, <2>1 DEF FireLate, resolving
<1> QED BY Zenon, <1>a, <1>1, <1>2, <1>3, <1>4, <1>5, <1>6, <1>7, <1>8, <1>9 DEF Next,
           Resolver

Sound == ResolveOrder /\ SecretSoFar /\ Covered /\ HalfCovered

\* What goroutines do: those of the configuration only move on, and what a
\* closed one does is at most an event too many.
LEMMA GoroutineSound ==
    ASSUME SourcesInv, UNCHANGED <<version, resolving>>,
           event = "change" => event' = "change",
           \A g \in Goroutines :
              \/ watch'[g] = watch[g]
              \/ watch[g] # "none" /\ watch'[g] \in {"fire2", "fire"}
              \/ watch[g] # "none" /\ watch'[g] = "done" /\ event' = "change"
    PROVE  Sound'
<1> USE DEF resolving
<1>0. \A g \in Goroutines :
         /\ watch'[g] = "none" <=> watch[g] = "none"
         /\ watch'[g] = "on" => watch[g] = "on"
      BY Zenon
<1>a. Notify \in Goroutines /\ Keys \subseteq Goroutines
      BY Zenon DEF Goroutines
<1>1. ResolveOrder'
      BY Zenon, <1>0, <1>a DEF SourcesInv, ResolveOrder, Kind
<1>2. SecretSoFar'
      BY Zenon DEF SourcesInv, SecretSoFar, Done, Kind
<1>3. Covered'
      BY <1>0, <1>a DEF SourcesInv, Covered, FileCovered, ItemCovered, Done, Kind
<1>4. HalfCovered'
      BY Zenon, <1>0, <1>a DEF SourcesInv, HalfCovered
<1> QED BY Zenon, <1>1, <1>2, <1>3, <1>4 DEF Sound

\* A change reaches the goroutine that looks after the item, or finds the file
\* read and not watched.
LEMMA ChangeSound ==
    ASSUME SourcesInv, NEW i \in Items, Change(i)
    PROVE  Sound'
<1>0. /\ UNCHANGED <<pc, next, half, seen, files, event>>
      /\ \A g \in Goroutines : /\ watch'[g] = "none" <=> watch[g] = "none"
                               /\ watch'[g] = "done" <=> watch[g] = "done"
                               /\ watch'[g] = "on" => watch[g] = "on" /\ ~Watches(g, i)
      /\ missed \subseteq missed'
      /\ \A j \in Items : j # i => version'[j] = version[j]
      BY Zenon DEF Change, SourcesInv, TypeOK
<1>a. Notify \in Goroutines /\ Keys \subseteq Goroutines /\ \A k \in Keys : ItemOf[k] \in Items
      BY Zenon, SourcesAssumption DEF Goroutines
<1>b. Notify \notin Keys /\ next \in Keys
      BY SourcesAssumption DEF Notify, Keys, SourcesInv, TypeOK
<1>1. ResolveOrder'
      BY Zenon, <1>0, <1>a DEF SourcesInv, ResolveOrder, Kind
<1>2. SecretSoFar'
      BY Zenon, <1>0 DEF SourcesInv, SecretSoFar, Done, Kind
<1>3. Covered'
  <2> SUFFICES ASSUME NEW k \in Keys, Done(k)'
               PROVE  /\ Kind(k) = "include" => FileCovered(k)'
                      /\ Kind(k) \notin {"include"} \union Unwatched => ItemCovered(k)'
      BY Zenon DEF Covered, Kind
  <2>0. Done(k)
        BY Zenon, <1>0 DEF Done
  <2>1. ASSUME Kind(k) = "include" PROVE FileCovered(k)'
    <3>1. FileCovered(k)
          BY Zenon, <2>0, <2>1 DEF SourcesInv, Covered
    <3>2. CASE ItemOf[k] = i /\ i \in files \ detached
      <4>1. watch'[Notify] # "on"
            BY Zenon, <1>0, <1>a, <2>1, <3>2 DEF Watches, Noticing, Kind
      <4> QED BY Zenon, <1>0, <1>a, <3>1, <4>1 DEF FileCovered
    <3>3. CASE ItemOf[k] = i /\ i \notin files \ detached
      <4>1. k \in missed'
            BY Zenon, <2>1, <3>3 DEF Change, KeysOf, Kind
      <4> QED BY Zenon, <1>0, <1>a, <3>1, <4>1 DEF FileCovered
    <3>4. CASE ItemOf[k] # i
          BY Zenon, <1>0, <1>a, <3>1, <3>4 DEF FileCovered
    <3> QED BY Zenon, <3>2, <3>3, <3>4
  <2>2. ASSUME Kind(k) \notin {"include"} \union Unwatched PROVE ItemCovered(k)'
    <3>1. ItemCovered(k)
          BY Zenon, <2>0, <2>2 DEF SourcesInv, Covered
    <3>2. PICK g \in Keys : /\ ItemOf[g] = ItemOf[k] /\ watch[g] # "none"
                            /\ watch[g] = "on" /\ Kind(k) \in Noticing => seen[k] = version[ItemOf[k]]
          BY Zenon, <3>1 DEF ItemCovered
    <3>3. /\ watch'[g] # "none"
          /\ watch'[g] = "on" /\ Kind(k) \in Noticing => seen'[k] = version'[ItemOf[k]]
          BY Zenon, <1>0, <1>a, <1>b, <3>2 DEF Watches, Kind
    <3> QED BY Zenon, <3>2, <3>3 DEF ItemCovered, Kind
  <2> QED BY Zenon, <2>1, <2>2
<1>4. HalfCovered'
  <2> SUFFICES ASSUME half = "yes"
               PROVE  \/ seen[next] = version'[ItemOf[next]] \/ next \in missed'
                      \/ ItemOf[next] \in files /\ watch'[Notify] \notin {"none", "on"}
      BY Zenon, <1>0 DEF HalfCovered
  <2>1. CASE ItemOf[next] # i
        BY Zenon, <1>0, <1>a, <1>b, <2>1 DEF SourcesInv, HalfCovered
  <2>0. Kind(next) = "include"
        BY Zenon DEF SourcesInv, ResolveOrder
  <2>2. CASE ItemOf[next] = i /\ i \notin files \ detached
        BY Zenon, <1>b, <2>0, <2>2 DEF Change, KeysOf, Kind
  <2>3. CASE ItemOf[next] = i /\ i \in files \ detached
        BY Zenon, <1>0, <1>a, <2>0, <2>3 DEF SourcesInv, ResolveOrder, Watches, Noticing, Kind
  <2> QED BY Zenon, <2>1, <2>2, <2>3
<1> QED BY Zenon, <1>1, <1>2, <1>3, <1>4 DEF Sound

\* A file that is replaced is one whose directives have missed it.
LEMMA ReplaceSound ==
    ASSUME SourcesInv, NEW i \in Items, Replace(i)
    PROVE  Sound'
<1>0. /\ UNCHANGED <<pc, next, half, seen, files, watch, event>> /\ missed \subseteq missed'
      /\ \A j \in Items : j # i => version'[j] = version[j]
      /\ \A k \in Keys : ItemOf[k] = i => k \in missed' /\ Kind(k) = "include"
      BY Zenon DEF Replace, SourcesInv, TypeOK, KeysOf, Kind
<1>a. /\ \A k \in Keys : ItemOf[k] \in Items
      /\ next \in Keys
      BY Zenon, SourcesAssumption DEF SourcesInv, TypeOK
<1>1. ResolveOrder'
      BY Zenon, <1>0 DEF SourcesInv, ResolveOrder, Kind
<1>2. SecretSoFar'
      BY Zenon, <1>0 DEF SourcesInv, SecretSoFar, Done, Kind
<1>3. Covered'
  <2> SUFFICES ASSUME NEW k \in Keys, Done(k)'
               PROVE  /\ Kind(k) = "include" => FileCovered(k)'
                      /\ Kind(k) \notin {"include"} \union Unwatched => ItemCovered(k)'
      BY Zenon DEF Covered, Kind
  <2>0. Done(k)
        BY Zenon, <1>0 DEF Done
  <2>1. ASSUME Kind(k) = "include" PROVE FileCovered(k)'
    <3>1. FileCovered(k)
          BY Zenon, <2>0, <2>1 DEF SourcesInv, Covered
    <3> QED BY Zenon, <1>0, <1>a, <3>1 DEF FileCovered
  <2>2. ASSUME Kind(k) \notin {"include"} \union Unwatched PROVE ItemCovered(k)'
    <3>1. ItemCovered(k)
          BY Zenon, <2>0, <2>2 DEF SourcesInv, Covered
    <3>2. version'[ItemOf[k]] = version[ItemOf[k]]
          BY Zenon, <1>0, <1>a, <2>2
    <3> QED BY Zenon, <1>0, <3>1, <3>2 DEF ItemCovered, Kind
  <2> QED BY Zenon, <2>1, <2>2
<1>4. HalfCovered'
      BY Zenon, <1>0, <1>a DEF SourcesInv, HalfCovered
<1> QED BY Zenon, <1>1, <1>2, <1>3, <1>4 DEF Sound

\* What Retrieved does to the directives that are resolved.
LEMMA RetrievedDone ==
    ASSUME SourcesInv, pc = "resolve", Retrieved
    PROVE  /\ \A k \in Keys : Done(k)' <=> Done(k) \/ k = next
           /\ ~Done(next) /\ next \in Keys /\ half' = "no"
           /\ pc' = "running" => next' = 1
           /\ pc' = "resolve" => next' = next + 1
           /\ UNCHANGED <<version, event>>
BY SourcesAssumption DEF SourcesInv, TypeOK, Retrieved, Done, Keys

\* Retrieving a directive keeps the invariant.
LEMMA RetrieveSound ==
    ASSUME SourcesInv, Retrieve
    PROVE  Sound'
<1>0. /\ \A k \in Keys : Done(k)' <=> Done(k) \/ k = next
      /\ ~Done(next) /\ next \in Keys /\ half' = "no"
      /\ pc' = "running" => next' = 1
      /\ pc' = "resolve" => next' = next + 1
      /\ UNCHANGED <<version, event>>
      BY Zenon, RetrievedDone DEF Retrieve
<1>a. /\ Notify \in Goroutines /\ Keys \subseteq Goroutines /\ Notify \notin Keys
      /\ \A k \in Keys : ItemOf[k] \in Items /\ k \in Nat
      BY SourcesAssumption DEF Goroutines, Notify, Keys
<1>b. /\ pc = "resolve" /\ Kind(next) # "include" /\ UNCHANGED <<files, missed>>
      /\ seen'[next] = ReadItem(next) /\ watch[next] = "none"
      /\ watch'[next] = IF NoWatcher(next) THEN "none" ELSE "on"
      /\ \A k \in Keys : k # next => seen'[k] = seen[k]
      /\ \A g \in Goroutines : g # next => watch'[g] = watch[g]
      BY <1>0, <1>a DEF Retrieve, SourcesInv, TypeOK, ResolveOrder
\* A further key of a secret takes the version of one that is resolved.
<1>c. ASSUME Kind(next) \in Vault, Resolved(ItemOf[next]) # {}
      PROVE  \E k \in Keys : /\ Done(k) /\ ItemOf[k] = ItemOf[next] /\ Kind(k) \in Vault
                             /\ seen'[next] = seen[k]
  <2> DEFINE k == CHOOSE x \in Resolved(ItemOf[next]) : TRUE
  <2>1. k \in Resolved(ItemOf[next])
        BY Zenon, <1>c
  <2>2. seen'[next] = seen[k]
        BY Zenon, <1>b, <1>c DEF ReadItem
  <2> HIDE DEF k
  <2>3. k \in Keys /\ Done(k) /\ ItemOf[k] = ItemOf[next] /\ Kind(k) \in Vault
        BY <1>0, <1>b, <1>c, <2>1, SourcesAssumption DEF Resolved, Done, Keys, Kind
  <2> QED BY Zenon, <2>2, <2>3
<1>d. ASSUME ~(Kind(next) \in Vault /\ Resolved(ItemOf[next]) # {})
      PROVE  seen'[next] = version[ItemOf[next]]
      BY Zenon, <1>b, <1>d DEF ReadItem
<1>e. ASSUME Resolved(ItemOf[next]) = {}, NEW k \in Keys, Done(k) PROVE ItemOf[k] # ItemOf[next]
      BY <1>0, <1>b, <1>e, SourcesAssumption DEF Resolved, Done, Keys
<1>1. ResolveOrder'
  <2>1. ASSUME pc' = "resolve", NEW g \in Keys, g >= next' PROVE watch'[g] = "none"
    <3>1. next' = next + 1 /\ next \in Nat /\ g \in Nat
          BY Zenon, <1>0, <1>a, <2>1
    <3>2. g >= next /\ g # next
          BY <2>1, <3>1
    <3>3. watch[g] = "none"
          BY Zenon, <1>b, <3>2 DEF SourcesInv, ResolveOrder
    <3> QED BY Zenon, <1>a, <1>b, <3>2, <3>3
  <2>2. files' # {} => watch'[Notify] # "none"
        BY Zenon, <1>0, <1>a, <1>b DEF SourcesInv, ResolveOrder
  <2>3. \A g \in Goroutines : watch'[g] = "done" => event' = "change"
        BY Zenon, <1>0, <1>a, <1>b DEF SourcesInv, ResolveOrder
  <2> QED BY Zenon, <1>0, <2>1, <2>2, <2>3 DEF ResolveOrder
<1>2. SecretSoFar'
  <2> SUFFICES ASSUME NEW k1 \in Keys, NEW k2 \in Keys, Done(k1)', Done(k2)',
                      Kind(k1) \in Vault, ItemOf[k1] = ItemOf[k2]
               PROVE  seen'[k1] = seen'[k2]
      BY Zenon DEF SecretSoFar, Kind
  <2>0. Kind(k2) \in Vault
        BY Zenon DEF Kind
  <2>1. ASSUME NEW k \in Keys, Done(k), Kind(next) \in Vault, ItemOf[k] = ItemOf[next]
        PROVE  seen[k] = seen'[next]
    <3>1. Resolved(ItemOf[next]) # {}
          BY Zenon, <1>e, <2>1
    <3>2. PICK j \in Keys : /\ Done(j) /\ ItemOf[j] = ItemOf[next] /\ Kind(j) \in Vault
                            /\ seen'[next] = seen[j]
          BY Zenon, <1>c, <2>1, <3>1
    <3> QED BY Zenon, <2>1, <3>2 DEF SourcesInv, SecretSoFar
  <2>2. CASE k1 # next /\ k2 # next
        BY Zenon, <1>0, <1>b, <2>2 DEF SourcesInv, SecretSoFar
  <2>3. CASE k1 = next /\ k2 # next
        BY Zenon, <1>0, <1>b, <2>1, <2>3
  <2>4. CASE k1 # next /\ k2 = next
        BY Zenon, <1>0, <1>b, <2>0, <2>1, <2>4
  <2> QED BY Zenon, <2>2, <2>3, <2>4
<1>3. Covered'
  <2> SUFFICES ASSUME NEW k \in Keys, Done(k)'
               PROVE  /\ Kind(k) = "include" => FileCovered(k)'
                      /\ Kind(k) \notin {"include"} \union Unwatched => ItemCovered(k)'
      BY Zenon DEF Covered, Kind
  <2>1. ASSUME Kind(k) = "include" PROVE FileCovered(k)'
    <3>1. k # next /\ Done(k)
          BY Zenon, <1>0, <1>b, <2>1
    <3>2. FileCovered(k)
          BY Zenon, <2>1, <3>1 DEF SourcesInv, Covered
    <3> QED BY Zenon, <1>0, <1>a, <1>b, <3>1, <3>2 DEF FileCovered
  <2>2. ASSUME NEW j \in Keys, Done(j), ItemCovered(j), ItemOf[j] = ItemOf[k], seen[j] = seen'[k]
        PROVE  ItemCovered(k)'
    <3>1. PICK g \in Keys : /\ ItemOf[g] = ItemOf[j] /\ watch[g] # "none"
                            /\ watch[g] = "on" /\ Kind(j) \in Noticing => seen[j] = version[ItemOf[j]]
          BY Zenon, <2>2 DEF ItemCovered
    <3>2. watch'[g] = watch[g]
          BY Zenon, <1>a, <1>b, <3>1
    <3> QED BY Zenon, <1>0, <2>2, <3>1, <3>2 DEF ItemCovered, Kind
  <2>3. ASSUME Kind(k) \notin {"include"} \union Unwatched PROVE ItemCovered(k)'
    <3>1. CASE k # next
          BY Zenon, <1>0, <1>b, <2>2, <2>3, <3>1 DEF SourcesInv, Covered
    <3>2. CASE k = next /\ NoWatcher(next)
      <4>1. PICK j \in Keys : /\ Done(j) /\ ItemOf[j] = ItemOf[next] /\ Kind(j) \in Vault
                              /\ seen'[next] = seen[j]
            BY Zenon, <1>c, <2>3, <3>2 DEF NoWatcher
      <4>2. Kind(j) = Kind(k)
            BY Zenon, <3>2, <4>1 DEF Kind
      <4> QED BY Zenon, <2>2, <2>3, <3>2, <4>1, <4>2 DEF SourcesInv, Covered
    <3>3. CASE k = next /\ ~NoWatcher(next)
      <4>1. watch'[k] = "on" /\ seen'[k] = version'[ItemOf[k]]
            BY Zenon, <1>0, <1>b, <1>d, <3>3 DEF NoWatcher
      <4> QED BY Zenon, <4>1 DEF ItemCovered
    <3> QED BY Zenon, <3>1, <3>2, <3>3
  <2> QED BY Zenon, <2>1, <2>3
<1> QED BY Zenon, <1>0, <1>1, <1>2, <1>3 DEF Sound, HalfCovered

\* A file is read: its directive is not resolved yet.
LEMMA RetrieveFileSound ==
    ASSUME SourcesInv, RetrieveFile
    PROVE  Sound'
<1>0. /\ pc = "resolve" /\ Kind(next) = "include" /\ half' = "yes" /\ next \in Keys
      /\ UNCHANGED <<version, pc, next, watch, files, event>>
      /\ seen'[next] = version[ItemOf[next]]
      /\ \A k \in Keys : k # next => seen'[k] = seen[k] /\ (k \in missed => k \in missed')
      BY Zenon DEF RetrieveFile, SourcesInv, TypeOK, ReadItem, Vault
<1>1. \A k \in Keys : /\ Done(k)' <=> Done(k)
                      /\ Done(k) => k # next
      BY <1>0, SourcesAssumption DEF Done, Keys
<1>2. ResolveOrder'
      BY Zenon, <1>0 DEF SourcesInv, ResolveOrder, Kind
<1>3. SecretSoFar'
      BY <1>0, <1>1 DEF SourcesInv, SecretSoFar, Kind
<1>4. Covered'
      BY <1>0, <1>1 DEF SourcesInv, Covered, FileCovered, ItemCovered, Kind
<1>5. HalfCovered'
      BY Zenon, <1>0 DEF HalfCovered
<1> QED BY Zenon, <1>2, <1>3, <1>4, <1>5 DEF Sound

\* A file is watched, which resolves its directive.
LEMMA WatchFileSound ==
    ASSUME SourcesInv, WatchFile
    PROVE  Sound'
<1>a. pc = "resolve" /\ half = "yes" /\ Kind(next) = "include" /\ UNCHANGED <<seen, missed>>
      BY Zenon DEF WatchFile, SourcesInv, ResolveOrder
<1>0. /\ \A k \in Keys : Done(k)' <=> Done(k) \/ k = next
      /\ ~Done(next) /\ next \in Keys /\ half' = "no"
      /\ pc' = "running" => next' = 1
      /\ pc' = "resolve" => next' = next + 1
      /\ UNCHANGED <<version, event>>
      BY Zenon, <1>a, RetrievedDone DEF WatchFile
<1>b. /\ Notify \in Goroutines /\ Keys \subseteq Goroutines /\ Notify \notin Keys
      /\ \A k \in Keys : k \in Nat
      BY SourcesAssumption DEF Goroutines, Notify, Keys
<1>c. /\ files' = files \union {ItemOf[next]}
      /\ watch'[Notify] = IF watch[Notify] = "none" THEN "on" ELSE watch[Notify]
      /\ \A g \in Keys : watch'[g] = watch[g]
      BY Zenon, <1>b DEF WatchFile, SourcesInv, TypeOK
<1>1. ResolveOrder'
  <2>1. pc' = "resolve" => \A g \in Keys : g >= next' => watch'[g] = "none"
        BY <1>0, <1>a, <1>b, <1>c DEF SourcesInv, ResolveOrder
  <2>2. \A g \in Goroutines : watch'[g] = "done" => event' = "change"
        BY Zenon, <1>0, <1>b, <1>c DEF SourcesInv, ResolveOrder, Goroutines
  <2> QED BY Zenon, <1>0, <1>c, <2>1, <2>2 DEF ResolveOrder
<1>2. SecretSoFar'
  <2>1. \A k \in Keys : Kind(k) \in Vault => k # next
        BY Zenon, <1>a DEF Vault
  <2> QED BY Zenon, <1>0, <1>a, <2>1 DEF SourcesInv, SecretSoFar, Kind
<1>3. Covered'
  <2> SUFFICES ASSUME NEW k \in Keys, Done(k)'
               PROVE  /\ Kind(k) = "include" => FileCovered(k)'
                      /\ Kind(k) \notin {"include"} \union Unwatched => ItemCovered(k)'
      BY Zenon DEF Covered, Kind
  <2>1. CASE k # next
        BY <1>0, <1>a, <1>c, <2>1 DEF SourcesInv, Covered, FileCovered, ItemCovered
  <2>2. CASE k = next
    <3>1. files # {} => watch[Notify] # "none"
          BY Zenon DEF SourcesInv, ResolveOrder
    <3>2. FileCovered(k)'
          BY Zenon, <1>0, <1>a, <1>c, <2>2, <3>1 DEF SourcesInv, HalfCovered,
             FileCovered
    <3> QED BY Zenon, <1>a, <2>2, <3>2
  <2> QED BY Zenon, <2>1, <2>2
<1> QED BY Zenon, <1>0, <1>1, <1>2, <1>3 DEF Sound, HalfCovered

\* The collector gives up, or starts again with new sources.
LEMMA ReloadSound ==
    ASSUME SourcesInv, RetrieveFails \/ Reload
    PROVE  Sound'
<1>1. CASE RetrieveFails
      BY Zenon, <1>1 DEF RetrieveFails, SourcesInv, ResolveOrder, Sound, SecretSoFar,
         Covered, HalfCovered,
                  Done
<1>2. CASE Reload
  <2>1. /\ pc' \in {"resolve", "failed"} /\ next' = 1 /\ half' = "no" /\ files' = {}
        /\ \A g \in Goroutines : watch'[g] = "none"
        BY Zenon, <1>2 DEF Reload, NewGoroutines, SourcesInv, ResolveOrder
  <2>2. \A k \in Keys : ~Done(k)'
        BY <2>1, SourcesAssumption DEF Done, Keys
  <2>3. ResolveOrder'
        BY Zenon, <2>1 DEF ResolveOrder, Goroutines
  <2> QED BY Zenon, <2>1, <2>2, <2>3 DEF Sound, SecretSoFar, Covered, HalfCovered
<1> QED BY Zenon, <1>1, <1>2

\* The inductive invariant of the config sources.
THEOREM SourcesInvariant == Spec => []SourcesInv
<1>1. Init => SourcesInv
  <2> SUFFICES ASSUME Init PROVE SourcesInv
      BY Zenon
  <2>1. TypeOK
        BY SourcesAssumption DEF Init, TypeOK, Keys
  <2>2. \A k \in Keys : ~Done(k)
        BY SourcesAssumption DEF Init, Done, Keys
  <2>3. ResolveOrder
        BY Zenon DEF Init, ResolveOrder, Goroutines
  <2> QED BY Zenon, <2>1, <2>2, <2>3 DEF Init, SourcesInv, SecretSoFar, Covered,
             HalfCovered
<1>2. SourcesInv /\ Next => SourcesInv'
  <2> SUFFICES ASSUME SourcesInv, Next PROVE Sound'
      BY Zenon, SourcesTypes DEF SourcesInv, Sound
  <2>1. ASSUME NEW g \in Goroutines, Notice(g) \/ NoticeError(g) \/ Fire(g)
        PROVE  Sound'
    <3>1. /\ UNCHANGED <<version, resolving>> /\ (event = "change" => event' = "change")
          BY Zenon, <2>1 DEF Notice, NoticeError, Fire
    <3>2. \A h \in Goroutines : h # g => watch'[h] = watch[h]
          BY Zenon, <2>1 DEF Notice, NoticeError, Fire, SourcesInv, TypeOK
    <3>3. /\ watch[g] # "none"
          /\ watch'[g] \in {"fire2", "fire"} \/ (watch'[g] = "done" /\ event' = "change")
          BY Zenon, <2>1 DEF Notice, NoticeError, Fire, SourcesInv, TypeOK
    <3> QED BY Zenon, <3>1, <3>2, <3>3, GoroutineSound
  <2>3. ASSUME NEW g \in Goroutines, Stop(g) \/ NoticeLate(g) PROVE Sound'
        BY Zenon, <2>3, GoroutineSound DEF Stop, NoticeLate
  <2>2. CASE FireLate
        BY Zenon, <2>2, GoroutineSound DEF FireLate
  <2> QED BY Zenon, <2>1, <2>2, <2>3, ChangeSound, ReplaceSound, RetrieveSound,
             RetrieveFileSound, WatchFileSound, ReloadSound DEF Next, Resolver
<1>3. SourcesInv /\ UNCHANGED vars => SourcesInv'
      BY DEF vars, SourcesInv, TypeOK, ResolveOrder, SecretSoFar, Covered, FileCovered,
             ItemCovered, HalfCovered, Done, Kind
<1> QED BY <1>1, <1>2, <1>3, PTL DEF Spec

\* All keys of a secret come from one version of it in a configuration that
\* runs, for every configuration and however often anything changes.
THEOREM SourcesSecretConsistent == Spec => []SecretConsistent
BY SourcesInvariant, SourcesImply, PTL

\* A change of what the running configuration was resolved from is never lost:
\* an event is on its way, but for what the code cannot notice (Unnoticed).
THEOREM SourcesStaleIsPending == Spec => []StaleIsPending
BY SourcesInvariant, SourcesImply, PTL

-----------------------------------------------------------------------------
(* The Docker monitor                                                      *)

DockerSpec == DockerInit /\ [][DockerNext]_dockerVars

\* An event about the container is still to come from the stream.
Outstanding(c) == \E i \in upcoming..Len(log) : log[i].id = c

\* Goroutines inspect while syncContainerList waits for them.
SyncOnly == watcher \in {"sync", "crashed"} \/ busy \union todo = {}

\* The monitor has the containers that are cached as running, and no cached
\* container is out of date unless an event about it is outstanding or its last
\* one could not be inspected.  A new stream goes back far enough for that.
DockerInv ==
    /\ DockerTypeOK /\ SyncOnly /\ last <= upcoming
    /\ mon = {c \in Containers : cache[c] = "running"}
    /\ \A c \in Containers :
          /\ c \in Excluded => cache[c] = "none"
          /\ cache[c] \notin {"none", real[c]} => c \in uninspected \/ Outstanding(c)

\* When all events about a container are handled, and the last could be
\* inspected, the monitor has it only when it runs, a cached one exactly when it
\* runs, and the cache has none that is gone (the safety half of
\* MonitorConverges).
MonitorSettled ==
    \A c \in Containers :
        ~Outstanding(c) /\ c \notin uninspected =>
            /\ c \in mon => real[c] = "running" /\ c \notin Excluded
            /\ cache[c] # "none" => (c \in mon <=> real[c] = "running")
            /\ real[c] = "gone" => cache[c] = "none"

\* What the cache and the monitor have to satisfy, of the containers one by one.
Cached(states, containers) ==
    /\ states \in [Containers -> {"none", "stopped", "running", "paused"}]
    /\ containers = {c \in Containers : states[c] = "running"}
    /\ \A c \in Excluded : states[c] = "none"

LEMMA DockerCached == DockerInv => DockerTypeOK /\ SyncOnly /\ last <= upcoming /\ Cached(cache, mon)
  BY Zenon, DockerAssumption DEF DockerInv, DockerTypeOK, Cached

\* updateContainer brings the cached container up to date, and leaves the
\* others and the excluded ones alone.
LEMMA InspectedKept ==
    ASSUME DockerInv, NEW c \in Containers, Inspectable(c), Inspected(c)
    PROVE  /\ Cached(cache, mon)' /\ uninspected' \subseteq Containers \ Excluded
           /\ \A d \in Containers : cache'[d] \notin {"none", real[d]} =>
                 d # c /\ cache'[d] = cache[d] /\ (d \in uninspected => d \in uninspected')
<1>0. /\ Cached(cache, mon) /\ uninspected \subseteq Containers \ Excluded
      /\ real[c] \in {"stopped", "running", "paused"} /\ Excluded \subseteq Containers
  <2>1. real[c] \in {"absent", "stopped", "running", "paused", "gone"}
        BY Zenon DEF DockerInv, DockerTypeOK
  <2>2. real[c] \in {"stopped", "running", "paused"}
        BY <2>1 DEF Inspectable
  <2> QED BY Zenon, <2>2, DockerCached, DockerAssumption DEF DockerTypeOK
<1>1. CASE c \in Excluded
  <2>1. cache' = cache /\ mon' = mon /\ uninspected' = uninspected
        BY Zenon, <1>1 DEF Inspected, known
  <2>2. cache[c] = "none"
        BY Zenon, <1>0, <1>1 DEF Cached
  <2>3. \A d \in Containers : cache'[d] \notin {"none", real[d]} => d # c
        BY Zenon, <2>1, <2>2
  <2>4. Cached(cache, mon)'
        BY Zenon, <1>0, <2>1 DEF Cached
  <2> QED BY Zenon, <1>0, <2>1, <2>3, <2>4
<1>2. CASE c \notin Excluded
  <2>1. /\ cache' = [cache EXCEPT ![c] = real[c]] /\ uninspected' = uninspected \ {c}
        /\ mon' = IF real[c] = "running" THEN mon \union {c} ELSE mon \ {c}
        BY Zenon, <1>2 DEF Inspected, ChangeHandler
  <2>2. /\ cache' \in [Containers -> {"none", "stopped", "running", "paused"}]
        /\ cache'[c] = real[c] /\ \A d \in Containers \ {c} : cache'[d] = cache[d]
        BY Zenon, <1>0, <2>1 DEF Cached
  <2>3. mon' = {d \in Containers : cache'[d] = "running"}
    <3>1. mon = {d \in Containers : cache[d] = "running"}
          BY Zenon, <1>0 DEF Cached
    <3>2. CASE real[c] = "running"
      <4>1. mon' = mon \union {c}
            BY Zenon, <2>1, <3>2
      <4> QED BY Zenon, <2>2, <3>1, <3>2, <4>1
    <3>3. CASE real[c] # "running"
      <4>1. mon' = mon \ {c}
            BY Zenon, <2>1, <3>3
      <4> QED BY Zenon, <2>2, <3>1, <3>3, <4>1
    <3> QED BY Zenon, <3>2, <3>3
  <2>4. \A d \in Excluded : cache'[d] = "none"
        BY Zenon, <1>0, <1>2, <2>2 DEF Cached
  <2>5. Cached(cache, mon)'
        BY Zenon, <2>2, <2>3, <2>4 DEF Cached
  <2> QED BY Zenon, <1>0, <2>1, <2>2, <2>5
<1> QED BY Zenon, <1>1, <1>2

\* The steps that touch neither the containers, the stream nor the cache.
LEMMA DockerQuiet ==
    ASSUME DockerInv, DockerTypeOK', SyncOnly',
           UNCHANGED <<real, log, last, upcoming, cache, mon, uninspected>>
    PROVE  DockerInv'
  BY Zenon DEF DockerInv, Outstanding

\* A container changes: its event is outstanding.
LEMMA ContainerChangesInv ==
    ASSUME DockerInv, NEW c \in Containers, ContainerChanges(c)
    PROVE  DockerInv'
<1> DEFINE T == [id : Containers, destroy : BOOLEAN]
<1>0. DockerTypeOK /\ log \in Seq(T) /\ Len(log) \in Nat
  <2>1. DockerTypeOK /\ log \in Seq(T)
        BY Zenon DEF DockerInv, DockerTypeOK
  <2> HIDE DEF T
  <2>2. Len(log) \in Nat
        BY <2>1
  <2> QED BY Zenon, <2>1, <2>2
<1>1. PICK change \in Changes, e \in T :
         real' = [real EXCEPT ![c] = change[2]] /\ e.id = c /\ log' = Append(log, e)
  <2>1. PICK change \in Changes :
           /\ real' = [real EXCEPT ![c] = change[2]]
           /\ log' = Append(log, [id |-> c, destroy |-> change[2] = "gone"])
        BY Zenon DEF ContainerChanges
  <2>2. PICK e : e = [id |-> c, destroy |-> change[2] = "gone"]
        BY Zenon
  <2>3. e \in T /\ e.id = c
        BY Zenon, <2>2
  <2> QED BY Zenon, <2>1, <2>2, <2>3
<1>2. /\ Len(log) < MaxChanges
      /\ UNCHANGED <<faults, watcher, last, upcoming, listed, todo, busy, cache, mon, uninspected, stop>>
      BY Zenon DEF ContainerChanges, stream, syncing, known
<1> HIDE DEF T
<1>3. /\ log' \in Seq(T) /\ Len(log') = Len(log) + 1 /\ log'[Len(log) + 1] = e
      /\ \A i \in 1..Len(log) : log'[i] = log[i]
      BY <1>0, <1>1
<1>4. /\ real' \in [Containers -> {"absent", "stopped", "running", "paused", "gone"}]
      /\ \A d \in Containers \ {c} : real'[d] = real[d]
  <2>1. change[2] \in {"absent", "stopped", "running", "paused", "gone"}
        BY DEF Changes
  <2>2. real \in [Containers -> {"absent", "stopped", "running", "paused", "gone"}]
        BY Zenon, <1>0 DEF DockerTypeOK
  <2> QED BY Zenon, <1>1, <2>1, <2>2
<1>5. DockerTypeOK'
  <2>1. /\ last \in 0..Len(log) /\ upcoming \in 1..(Len(log) + 1) /\ MaxChanges \in Nat
        BY Zenon, <1>0, DockerAssumption DEF DockerTypeOK
  <2>2. /\ last \in 0..Len(log') /\ upcoming \in 1..(Len(log') + 1) /\ Len(log') <= MaxChanges
    <3>1. PICK n \in Nat : n = Len(log) /\ Len(log') = n + 1
          BY Zenon, <1>0, <1>3
    <3>2. last \in 0..n /\ upcoming \in 1..(n + 1) /\ n < MaxChanges
          BY Zenon, <1>2, <2>1, <3>1
    <3>3. last \in 0..(n + 1) /\ upcoming \in 1..((n + 1) + 1) /\ n + 1 <= MaxChanges
          BY <2>1, <3>1, <3>2
    <3> QED BY Zenon, <3>1, <3>3
  <2> QED BY Zenon, <1>0, <1>2, <1>3, <1>4, <2>2 DEF DockerTypeOK, T
<1>6. /\ upcoming \in 1..(Len(log) + 1) /\ upcoming..Len(log) \subseteq upcoming..Len(log')
      /\ upcoming..Len(log) \subseteq 1..Len(log) /\ Len(log) + 1 \in upcoming..Len(log')
  <2>1. PICK n \in Nat : n = Len(log) /\ Len(log') = n + 1
        BY Zenon, <1>0, <1>3
  <2>2. upcoming \in 1..(n + 1)
        BY Zenon, <1>0, <2>1 DEF DockerTypeOK
  <2>3. /\ upcoming..n \subseteq upcoming..(n + 1) /\ upcoming..n \subseteq 1..n
        /\ n + 1 \in upcoming..(n + 1)
        BY <2>1, <2>2
  <2> QED BY Zenon, <2>1, <2>2, <2>3
<1>7. \A d \in Containers : Outstanding(d) \/ d = c => Outstanding(d)'
      BY Zenon, <1>1, <1>2, <1>3, <1>6 DEF Outstanding
<1>8. \A d \in Containers : cache'[d] \notin {"none", real'[d]} =>
         d \in uninspected' \/ Outstanding(d)'
      BY Zenon, <1>2, <1>4, <1>7 DEF DockerInv
<1> QED BY Zenon, <1>2, <1>5, <1>8 DEF DockerInv, SyncOnly

\* A goroutine of syncContainerList inspects a container.
LEMMA SyncInspectInv ==
    ASSUME DockerInv, NEW c \in Containers, SyncInspect(c)
    PROVE  DockerInv'
<1>1. /\ Inspectable(c) /\ Inspected(c) /\ busy' = busy \ {c}
      /\ UNCHANGED <<real, log, faults, watcher, last, upcoming, listed, todo, stop>>
      BY Zenon DEF SyncInspect, daemon, stream
<1>2. /\ Cached(cache, mon)' /\ uninspected' \subseteq Containers \ Excluded
      /\ \A d \in Containers : cache'[d] \notin {"none", real[d]} =>
            d # c /\ cache'[d] = cache[d] /\ (d \in uninspected => d \in uninspected')
      BY Zenon, <1>1, InspectedKept
<1>3. DockerTypeOK /\ last <= upcoming
      BY Zenon DEF DockerInv
<1>4. DockerTypeOK'
  <2>1. mon' \subseteq Containers \ Excluded
        BY Zenon, <1>2, DockerAssumption DEF Cached
  <2> QED BY Zenon, <1>1, <1>2, <1>3, <2>1 DEF DockerTypeOK, Cached
<1>5. \A d \in Containers : Outstanding(d) => Outstanding(d)'
      BY Zenon, <1>1 DEF Outstanding
<1>6. \A d \in Containers : cache'[d] \notin {"none", real'[d]} =>
         d \in uninspected' \/ Outstanding(d)'
      BY Zenon, <1>1, <1>2, <1>5 DEF DockerInv
<1>7. SyncOnly'
      BY Zenon, <1>1 DEF DockerInv, SyncOnly
<1> QED BY Zenon, <1>1, <1>2, <1>3, <1>4, <1>6, <1>7, DockerAssumption DEF DockerInv, Cached

\* syncContainerList drops the containers that are not listed.
LEMMA DropStaleInv == DockerInv /\ DropStale => DockerInv'
<1> SUFFICES ASSUME DockerInv, DropStale PROVE DockerInv'
    BY Zenon
<1>1. /\ cache' = [c \in Containers |-> IF c \in listed THEN cache[c] ELSE "none"]
      /\ mon' = mon \intersect {c \in Containers : cache'[c] # "none"}
      /\ uninspected' = uninspected \intersect listed /\ watcher' = "select"
      /\ UNCHANGED <<real, log, faults, last, upcoming, listed, todo, busy, stop>>
      BY Zenon DEF DropStale, daemon, stream, syncing
<1>2. DockerTypeOK /\ last <= upcoming
      BY Zenon DEF DockerInv
<1>3. /\ cache' \in [Containers -> {"none", "stopped", "running", "paused"}]
      /\ \A c \in Containers : cache'[c] # "none" => c \in listed /\ cache'[c] = cache[c]
  <2>1. \A c \in Containers : cache[c] \in {"none", "stopped", "running", "paused"}
        BY Zenon, <1>2 DEF DockerTypeOK
  <2> QED BY Zenon, <1>1, <2>1
<1>4. DockerTypeOK'
      BY Zenon, <1>1, <1>2, <1>3 DEF DockerTypeOK
<1>5. mon' = {c \in Containers : cache'[c] = "running"}
  <2>1. \A c \in Containers : cache[c] = "running" /\ cache'[c] # "none" <=> cache'[c] = "running"
        BY <1>3
  <2> QED BY Zenon, <1>1, <2>1 DEF DockerInv
<1>6. \A c \in Containers : Outstanding(c) => Outstanding(c)'
      BY Zenon, <1>1 DEF Outstanding
<1>7. ASSUME NEW c \in Containers
      PROVE  /\ c \in Excluded => cache'[c] = "none"
             /\ cache'[c] \notin {"none", real'[c]} => c \in uninspected' \/ Outstanding(c)'
      BY Zenon, <1>1, <1>3, <1>6 DEF DockerInv
<1>8. SyncOnly'
      BY Zenon, <1>1 DEF DropStale, SyncOnly
<1> QED BY Zenon, <1>1, <1>2, <1>4, <1>5, <1>7, <1>8 DEF DockerInv

\* A new stream has the events that the last one had not delivered.
LEMMA OpenStreamInv == DockerInv /\ OpenStream => DockerInv'
<1> SUFFICES ASSUME DockerInv, OpenStream PROVE DockerInv'
    BY Zenon
<1>1. /\ upcoming' = (IF last = 0 THEN 1 ELSE last) /\ watcher' = "list"
      /\ UNCHANGED <<real, log, faults, last, listed, todo, busy, cache, mon, uninspected, stop>>
      BY Zenon DEF OpenStream, daemon, syncing, known
<1>2. DockerTypeOK /\ last <= upcoming /\ last \in 0..Len(log) /\ upcoming \in 1..(Len(log) + 1)
      BY Zenon DEF DockerInv, DockerTypeOK
<1>3. Len(log) \in Nat
      BY <1>2 DEF DockerTypeOK
<1>4. /\ upcoming' \in 1..(Len(log) + 1) /\ last <= upcoming'
      /\ upcoming..Len(log) \subseteq upcoming'..Len(log)
      BY <1>1, <1>2, <1>3
<1>5. DockerTypeOK'
      BY Zenon, <1>1, <1>2, <1>4 DEF DockerTypeOK
<1>6. \A c \in Containers : Outstanding(c) => Outstanding(c)'
      BY Zenon, <1>1, <1>4 DEF Outstanding
<1>7. SyncOnly'
  <2>1. busy \union todo = {}
        BY DEF DockerInv, SyncOnly, OpenStream
  <2> QED BY Zenon, <1>1, <2>1 DEF SyncOnly
<1> QED BY Zenon, <1>1, <1>4, <1>5, <1>6, <1>7 DEF DockerInv

\* An event is handled: its container is up to date, forgotten or uninspected.
LEMMA HandleEventInv == DockerInv /\ HandleEvent => DockerInv'
<1> SUFFICES ASSUME DockerInv, HandleEvent PROVE DockerInv'
    BY Zenon
<1> DEFINE T == [id : Containers, destroy : BOOLEAN]
<1>0. /\ DockerTypeOK /\ last <= upcoming /\ last \in 0..Len(log) /\ upcoming \in 1..(Len(log) + 1)
      /\ log \in Seq(T) /\ Cached(cache, mon)
      BY Zenon, DockerCached DEF DockerTypeOK
<1>1. PICK c \in Containers, e \in T : e = log[upcoming] /\ c = e.id
  <2>1. \A i \in 1..Len(log) : log[i] \in T
    <3> HIDE DEF T
    <3> QED BY <1>0
  <2>2. upcoming \in 1..Len(log)
    <3>1. Len(log) \in Nat /\ upcoming <= Len(log)
          BY <1>0 DEF HandleEvent
    <3> QED BY <1>0, <3>1
  <2> QED BY Zenon, <2>1, <2>2
<1>2. /\ last' = upcoming /\ upcoming' = upcoming + 1 /\ upcoming <= Len(log)
      /\ UNCHANGED <<real, log, watcher, listed, todo, busy, stop>>
      BY Zenon DEF HandleEvent, daemon, syncing
<1>3. /\ Cached(cache, mon)' /\ uninspected' \subseteq Containers \ Excluded
      /\ faults' \in 0..MaxFaults
      /\ \A d \in Containers : cache'[d] \notin {"none", real[d]} =>
            \/ d \in uninspected'
            \/ d # c /\ cache'[d] = cache[d] /\ d \notin uninspected
  <2>0. uninspected \subseteq Containers \ Excluded /\ faults \in 0..MaxFaults
        BY Zenon, <1>0 DEF DockerTypeOK
  <2>1. CASE Forget(c) /\ UNCHANGED faults
    <3>1. /\ cache' = [cache EXCEPT ![c] = "none"] /\ uninspected' = uninspected \ {c}
          /\ mon' = mon \ {c}
          BY <2>1 DEF Forget, ChangeHandler
    <3>2. /\ cache' \in [Containers -> {"none", "stopped", "running", "paused"}]
          /\ cache'[c] = "none" /\ \A d \in Containers \ {c} : cache'[d] = cache[d]
          BY Zenon, <1>0, <3>1 DEF Cached
    <3>3. mon' = {d \in Containers : cache'[d] = "running"}
      <4>1. cache'[c] # "running"
            BY <3>2
      <4> QED BY Zenon, <1>0, <3>1, <3>2, <4>1 DEF Cached
    <3>4. \A d \in Excluded : cache'[d] = "none"
          BY Zenon, <1>0, <3>2, DockerAssumption DEF Cached
    <3>5. Cached(cache, mon)'
          BY Zenon, <3>2, <3>3, <3>4 DEF Cached
    <3>6. ASSUME NEW d \in Containers, cache'[d] \notin {"none", real[d]}
          PROVE  d \in uninspected' \/ (d # c /\ cache'[d] = cache[d] /\ d \notin uninspected)
      <4>1. d # c
            BY Zenon, <3>2, <3>6
      <4> QED BY Zenon, <3>1, <3>2, <4>1
    <3> QED BY Zenon, <2>0, <2>1, <3>1, <3>5, <3>6
  <2>2. CASE Inspectable(c) /\ Inspected(c) /\ UNCHANGED faults
    <3>1. /\ Cached(cache, mon)' /\ uninspected' \subseteq Containers \ Excluded
          /\ \A d \in Containers : cache'[d] \notin {"none", real[d]} =>
                d # c /\ cache'[d] = cache[d] /\ (d \in uninspected => d \in uninspected')
          BY Zenon, <2>2, InspectedKept
    <3> QED BY Zenon, <2>0, <2>2, <3>1
  <2>3. CASE /\ MayFail \/ UNCHANGED faults
             /\ uninspected' = uninspected \union {d \in {c} : cache[d] # "none"}
             /\ UNCHANGED <<cache, mon>>
    <3>1. faults' \in 0..MaxFaults
      <4>1. faults' = faults \/ (faults < MaxFaults /\ faults' = faults + 1)
            BY Zenon, <2>3 DEF MayFail
      <4> QED BY <2>0, <4>1, DockerAssumption
    <3>2. cache[c] # "none" => c \notin Excluded
          BY Zenon, <1>0 DEF Cached
    <3>3. uninspected' \subseteq Containers \ Excluded
          BY Zenon, <2>0, <2>3, <3>2
    <3>4. Cached(cache, mon)'
          BY Zenon, <1>0, <2>3 DEF Cached
    <3>5. ASSUME NEW d \in Containers, cache'[d] \notin {"none", real[d]}
          PROVE  d \in uninspected' \/ (d # c /\ cache'[d] = cache[d] /\ d \notin uninspected)
      <4>1. cache[d] # "none" /\ cache'[d] = cache[d]
            BY Zenon, <2>3, <3>5
      <4>2. d = c => d \in uninspected'
            BY Zenon, <2>3, <4>1
      <4>3. d \in uninspected => d \in uninspected'
            BY Zenon, <2>3
      <4> QED BY Zenon, <4>1, <4>2, <4>3
    <3> QED BY Zenon, <3>1, <3>3, <3>4, <3>5
  <2> QED BY Zenon, <1>1, <2>1, <2>2, <2>3 DEF HandleEvent
<1>4. Len(log) \in Nat
  <2> HIDE DEF T
  <2> QED BY <1>0
<1>5. /\ last' \in 0..Len(log) /\ upcoming' \in 1..(Len(log) + 1) /\ last' <= upcoming'
      /\ \A i \in upcoming..Len(log) : i = upcoming \/ i \in upcoming'..Len(log)
  <2> HIDE DEF T
  <2> QED BY <1>0, <1>2, <1>4
<1>6. DockerTypeOK'
  <2>1. mon' \subseteq Containers \ Excluded
        BY Zenon, <1>3, DockerAssumption DEF Cached
  <2> QED BY Zenon, <1>0, <1>2, <1>3, <1>5, <2>1 DEF DockerTypeOK, Cached
<1>7. \A d \in Containers \ {c} : Outstanding(d) => Outstanding(d)'
      BY Zenon, <1>1, <1>2, <1>5 DEF Outstanding
<1>8. \A d \in Containers : cache'[d] \notin {"none", real'[d]} =>
         d \in uninspected' \/ Outstanding(d)'
      BY Zenon, <1>2, <1>3, <1>7 DEF DockerInv
<1>9. SyncOnly'
      BY Zenon, <1>2 DEF DockerInv, SyncOnly
<1> QED BY Zenon, <1>3, <1>5, <1>6, <1>8, <1>9, DockerAssumption DEF DockerInv, Cached

\* Every step keeps the inductive invariant.
LEMMA DockerNextInv == DockerInv /\ [DockerNext]_dockerVars => DockerInv'
<1> SUFFICES ASSUME DockerInv, [DockerNext]_dockerVars PROVE DockerInv'
    BY Zenon
<1>0. DockerTypeOK /\ SyncOnly /\ faults \in 0..MaxFaults
      BY Zenon DEF DockerInv, DockerTypeOK
<1>1. MayFail => faults' \in 0..MaxFaults
      BY <1>0, DockerAssumption DEF MayFail
<1>2. CASE ListContainers
  <2>1. /\ listed' \subseteq Containers /\ todo' = listed' /\ busy' = busy /\ watcher' = "sync"
        /\ UNCHANGED <<real, log, faults, last, upcoming, cache, mon, uninspected, stop>>
        BY Zenon, <1>2 DEF ListContainers, daemon, stream, known
  <2>2. busy = {}
        BY <1>0, <1>2 DEF ListContainers, SyncOnly
  <2>3. DockerTypeOK'
        BY Zenon, <1>0, <2>1, <2>2 DEF DockerTypeOK
  <2> QED BY Zenon, <2>1, <2>3, DockerQuiet DEF SyncOnly
<1>3. CASE ListFails \/ StreamFails
  <2>1. /\ watcher' \in {"open", "select"} /\ MayFail /\ watcher \in {"list", "select"}
        /\ UNCHANGED <<real, log, last, upcoming, listed, todo, busy, cache, mon, uninspected, stop>>
        BY Zenon, <1>3 DEF ListFails, StreamFails, daemon, stream, syncing, known
  <2>2. DockerTypeOK'
        BY Zenon, <1>0, <1>1, <2>1 DEF DockerTypeOK
  <2>3. busy \union todo = {}
        BY <1>0, <2>1 DEF SyncOnly
  <2> QED BY Zenon, <2>1, <2>2, <2>3, DockerQuiet DEF SyncOnly
<1>4. ASSUME NEW c \in Containers, LookAt(c) \/ SyncInspectFails(c)
      PROVE  DockerInv'
  <2>1. UNCHANGED <<real, log, watcher, last, upcoming, cache, mon, uninspected, listed, stop>>
        BY Zenon, <1>4 DEF LookAt, SyncInspectFails, daemon, stream, known
  <2>2. faults' \in 0..MaxFaults
        BY Zenon, <1>0, <1>1, <1>4 DEF LookAt, SyncInspectFails
  <2>3. busy' \union todo' \subseteq busy \union todo
        BY Zenon, <1>4 DEF LookAt, SyncInspectFails
  <2>4. DockerTypeOK'
        BY Zenon, <1>0, <2>1, <2>2, <2>3 DEF DockerTypeOK
  <2>5. SyncOnly'
        BY Zenon, <1>0, <2>1, <2>3 DEF SyncOnly
  <2> QED BY Zenon, <2>1, <2>4, <2>5, DockerQuiet
<1>5. CASE StartWatching \/ MapRace \/ Refresh \/ Finish \/ ShutdownMonitor \/ UNCHANGED dockerVars
  <2>1. UNCHANGED <<real, log, faults, last, upcoming, cache, mon, uninspected, listed, todo, busy>>
        BY Zenon, <1>5 DEF StartWatching, MapRace, Refresh, Finish, ShutdownMonitor, dockerVars,
              daemon, stream, syncing, known
  <2>2. /\ watcher' \in {"none", "open", "list", "sync", "select", "done", "crashed"}
        /\ watcher' \in {watcher, "crashed"} \/ watcher \in {"none", "select"}
        BY Zenon, <1>0, <1>5 DEF StartWatching, MapRace, Refresh, Finish, ShutdownMonitor, dockerVars,
              DockerTypeOK
  <2>3. stop' \in BOOLEAN
        BY Zenon, <1>0, <1>5 DEF StartWatching, MapRace, Refresh, Finish, ShutdownMonitor, dockerVars,
              DockerTypeOK
  <2>4. DockerTypeOK'
        BY Zenon, <1>0, <2>1, <2>2, <2>3 DEF DockerTypeOK
  <2>5. SyncOnly'
        BY <1>0, <2>1, <2>2 DEF SyncOnly
  <2> QED BY Zenon, <2>1, <2>4, <2>5, DockerQuiet
<1>6. ASSUME NEW c \in Containers, SyncInspect(c) \/ ContainerChanges(c)
      PROVE  DockerInv'
      BY Zenon, <1>6, SyncInspectInv, ContainerChangesInv
<1> QED BY Zenon, <1>2, <1>3, <1>4, <1>5, <1>6, DropStaleInv, OpenStreamInv, HandleEventInv
        DEF DockerNext, SyncStep

\* Before the monitor watches, nothing is cached.
LEMMA DockerInitInv == DockerInit => DockerInv
<1> SUFFICES ASSUME DockerInit PROVE DockerInv
    BY Zenon
<1> DEFINE T == [id : Containers, destroy : BOOLEAN]
<1>1. log \in Seq(T) /\ Len(log) = 0 /\ last = 0 /\ upcoming = 1
      BY DEF DockerInit
<1>2. /\ Len(log) <= MaxChanges /\ faults \in 0..MaxFaults
      /\ last \in 0..Len(log) /\ upcoming \in 1..(Len(log) + 1) /\ last <= upcoming
  <2> HIDE DEF T
  <2> QED BY <1>1, DockerAssumption DEF DockerInit
<1>3. /\ real \in [Containers -> {"absent", "stopped", "running", "paused", "gone"}]
      /\ cache \in [Containers -> {"none", "stopped", "running", "paused"}]
      /\ \A c \in Containers : cache[c] = "none"
      BY Zenon DEF DockerInit
<1>4. mon = {c \in Containers : cache[c] = "running"}
  <2>1. \A c \in Containers : cache[c] # "running"
        BY <1>3
  <2> QED BY Zenon, <2>1 DEF DockerInit
<1>5. DockerTypeOK
      BY Zenon, <1>1, <1>2, <1>3 DEF DockerInit, DockerTypeOK
<1>6. SyncOnly
      BY Zenon DEF DockerInit, SyncOnly
<1> QED BY Zenon, <1>2, <1>3, <1>4, <1>5, <1>6 DEF DockerInv

\* The state of the Docker monitor stays well typed.
THEOREM DockerTypes == DockerSpec => []DockerTypeOK
<1>1. DockerInv => DockerTypeOK
      BY Zenon DEF DockerInv
<1> QED BY <1>1, DockerInitInv, DockerNextInv, PTL DEF DockerSpec

\* The monitor fetches the stats of no container that stopped, paused or is
\* gone but while its event is on the way, or after an inspection of it failed:
\* reconnecting the stream loses no event (lastTime of ListAndWatchContainers).
THEOREM DockerSettled == DockerSpec => []MonitorSettled
<1>1. DockerInv => MonitorSettled
  <2> SUFFICES ASSUME DockerInv, NEW c \in Containers, ~Outstanding(c), c \notin uninspected
               PROVE  /\ c \in mon => real[c] = "running" /\ c \notin Excluded
                      /\ cache[c] # "none" => (c \in mon <=> real[c] = "running")
                      /\ real[c] = "gone" => cache[c] = "none"
      BY Zenon DEF MonitorSettled
  <2>1. cache[c] = "none" \/ cache[c] = real[c]
        BY Zenon DEF DockerInv
  <2>2. c \in mon <=> cache[c] = "running"
        BY Zenon DEF DockerInv
  <2>3. c \in Excluded => cache[c] = "none"
        BY Zenon DEF DockerInv
  <2>4. cache[c] \in {"none", "stopped", "running", "paused"}
        BY Zenon DEF DockerInv, DockerTypeOK
  <2> QED BY <2>1, <2>2, <2>3, <2>4
<1> QED BY <1>1, DockerInitInv, DockerNextInv, PTL DEF DockerSpec
=============================================================================
