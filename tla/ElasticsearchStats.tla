------------------------- MODULE ElasticsearchStats -------------------------
(***************************************************************************)
(* The Elasticsearch monitor (monitors/elasticsearch/stats), in which one  *)
(* goroutine refreshes what is known of the node and its cluster, and      *)
(* three others, started after the first refresh that succeeds, send       *)
(* statistics with dimensions made of it.                                  *)
(*                                                                         *)
(* The node and its cluster are external.  Any request may fail.           *)
(***************************************************************************)
EXTENDS Naturals

CONSTANTS EsNodes, EsNames,  \* identifiers of nodes, and names of clusters
          Unset,             \* no identifier, no name, no dimension
          Configured,        \* the configured name of the cluster, or Unset
          IndexStats,        \* EnableIndexStats
          MasterOnly,        \* of "cluster" and "index": whether only for the master
          MaxEsEvents        \* bound: changes of the node and its cluster

Fetchers == {"node", "cluster"} \union IF IndexStats THEN {"index"} ELSE {}

ASSUME ElasticsearchAssumption ==
    /\ Unset \notin EsNodes \union EsNames /\ IndexStats \in BOOLEAN
    /\ MasterOnly \in [{"cluster", "index"} -> BOOLEAN] /\ MaxEsEvents \in Nat

VARIABLES
    es,             \* what the node would answer: its id, its cluster's name, the master
    esEvents,       \* changes of it so far
    cancelled,      \* whether Shutdown has been called
    refresh,        \* the refreshing goroutine: where it is and the answers it has
    shared,         \* sharedInfo
    isInitialized,  \* isInitialized
    fetch,          \* of a fetcher: where it is and the dimensions it has read
    reported        \* history: the answers that named both node and cluster

esVars == <<es, esEvents, cancelled, refresh, shared, isInitialized, fetch, reported>>

EsAnswers == [node : EsNodes \union {Unset}, name : EsNames \union {Unset},
              master : EsNodes \union {Unset}]
NoAnswer == [node |-> Unset, name |-> Unset, master |-> Unset]
Dims == [node : EsNodes \union {Unset}, name : EsNames \union {Unset, Configured}]
NoDims == [node |-> Unset, name |-> Unset]

EsInit ==
    /\ es \in [node : EsNodes, name : EsNames, master : EsNodes] /\ esEvents = 0
    /\ cancelled = FALSE /\ refresh = [at |-> "none", answer |-> NoAnswer]
    /\ shared = [default |-> Unset, nodeDims |-> NoDims, isMaster |-> FALSE]
    /\ isInitialized = FALSE /\ reported = {}
    /\ fetch = [f \in Fetchers |-> [at |-> "none", dims |-> NoDims]]

\* The node is replaced, renamed or cannot tell; a master is elected or lost.
EsChanges ==
    /\ esEvents < MaxEsEvents /\ esEvents' = esEvents + 1
    /\ \/ \E n \in EsNodes \union {Unset} : es' = [es EXCEPT !.node = n]
       \/ \E n \in EsNames \union {Unset} : es' = [es EXCEPT !.name = n]
       \/ \E n \in EsNodes \union {Unset} : es' = [es EXCEPT !.master = n]
    /\ es' # es
    /\ UNCHANGED <<cancelled, refresh, shared, isInitialized, fetch, reported>>

-----------------------------------------------------------------------------
(* Configure, Shutdown and the refreshing goroutine                        *)

EsConfigure ==
    /\ refresh.at = "none"
    /\ refresh' = [refresh EXCEPT !.at = "master"]
    /\ UNCHANGED <<es, esEvents, cancelled, shared, isInitialized, fetch, reported>>

EsShutdown ==
    /\ refresh.at # "none" /\ cancelled' = TRUE
    /\ UNCHANGED <<es, esEvents, refresh, shared, isInitialized, fetch, reported>>

\* GetMasterNodeInfo and GetNodeInfo.
GetInfo ==
    /\ \/ /\ refresh.at \in {"master", "node"}
          /\ refresh' = [at |-> "ticker", answer |-> NoAnswer] /\ UNCHANGED reported
       \/ /\ refresh.at = "master"
          /\ refresh' = [at |-> "node", answer |-> [NoAnswer EXCEPT !.master = es.master]]
          /\ UNCHANGED reported
       \/ /\ refresh.at = "node"
          /\ refresh' = [at |-> "update",
                         answer |-> [es EXCEPT !.master = refresh.answer.master]]
          /\ reported' = reported \union {[node |-> es.node, name |-> es.name]}
    /\ UNCHANGED <<es, esEvents, cancelled, shared, isInitialized, fetch>>

\* prepareDefaultDimensions.
DefaultName(answer) == IF Configured = Unset THEN answer.name ELSE Configured

\* prepareNodeMetricsDimensions and prepareDefaultDimensions succeed.
Succeeded(answer) == answer.node # Unset /\ DefaultName(answer) # Unset

\* Mutant: the node's dimensions are made before those that all share.
UpdatedEarly(answer) ==
    [default |-> DefaultName(answer),
     nodeDims |-> [node |-> answer.node, name |-> shared.default],
     isMaster |-> answer.node = answer.master]

\* What fetchNodeAndClusterMetadata makes of the answers, under the lock; the
\* dimensions of the node are kept when the cluster has no name.
Updated(answer) ==
    CASE answer.node = Unset -> shared
      [] answer.node # Unset /\ DefaultName(answer) = Unset ->
            [shared EXCEPT !.default = Unset, !.isMaster = (answer.node = answer.master)]
      [] OTHER -> [default |-> DefaultName(answer),
                   nodeDims |-> [node |-> answer.node, name |-> DefaultName(answer)],
                   isMaster |-> answer.node = answer.master]

\* The first success starts the fetchers, which read the shared information
\* at once.
RefreshInfo ==
    /\ refresh.at = "update"
    /\ refresh' = [at |-> "ticker", answer |-> NoAnswer]
    /\ shared' = Updated(refresh.answer)
    /\ isInitialized' = (isInitialized \/ Succeeded(refresh.answer))
    /\ fetch' = IF ~isInitialized /\ isInitialized'
                THEN [f \in Fetchers |-> [fetch[f] EXCEPT !.at = "read"]] ELSE fetch
    /\ UNCHANGED <<es, esEvents, cancelled, reported>>

\* A cancelled context may lose against the ticker.
RefreshTicks ==
    /\ refresh.at = "ticker"
    /\ refresh' \in {[refresh EXCEPT !.at = to] :
                        to \in {"master"} \union IF cancelled THEN {"ended"} ELSE {}}
    /\ UNCHANGED <<es, esEvents, cancelled, shared, isInitialized, fetch, reported>>

-----------------------------------------------------------------------------
(* The fetchers                                                            *)

Wanted(f) == f = "node" \/ ~MasterOnly[f] \/ shared.isMaster

FetchRead(f) ==
    /\ fetch[f].at = "read"
    /\ fetch' = [fetch EXCEPT ![f] =
          IF ~Wanted(f) THEN [at |-> "ticker", dims |-> NoDims]
          ELSE [at |-> "get", dims |-> IF f = "node" THEN shared.nodeDims
                                       ELSE [node |-> Unset, name |-> shared.default]]]
    /\ UNCHANGED <<es, esEvents, cancelled, refresh, shared, isInitialized, reported>>

\* The statistics are sent with these dimensions, or cannot be had.
FetchSend(f) ==
    /\ fetch[f].at = "get"
    /\ fetch' = [fetch EXCEPT ![f] = [at |-> "ticker", dims |-> NoDims]]
    /\ UNCHANGED <<es, esEvents, cancelled, refresh, shared, isInitialized, reported>>

FetchTicks(f) ==
    /\ fetch[f].at = "ticker"
    /\ \E to \in {"read"} \union IF cancelled THEN {"ended"} ELSE {} :
          fetch' = [fetch EXCEPT ![f].at = to]
    /\ UNCHANGED <<es, esEvents, cancelled, refresh, shared, isInitialized, reported>>

-----------------------------------------------------------------------------
EsNext ==
    \/ EsChanges \/ EsConfigure \/ EsShutdown \/ GetInfo \/ RefreshInfo \/ RefreshTicks
    \/ \E f \in Fetchers : FetchRead(f) \/ FetchSend(f) \/ FetchTicks(f)

-----------------------------------------------------------------------------
EsTypeOK ==
    /\ es \in EsAnswers /\ esEvents \in 0..MaxEsEvents
    /\ cancelled \in BOOLEAN /\ isInitialized \in BOOLEAN
    /\ refresh \in [at : {"none", "master", "node", "update", "ticker", "ended"},
                    answer : EsAnswers]
    /\ shared \in [default : EsNames \union {Unset, Configured}, nodeDims : Dims,
                   isMaster : BOOLEAN]
    /\ fetch \in [Fetchers -> [at : {"none", "read", "get", "ticker", "ended"}, dims : Dims]]

\* Statistics of the node carry a node and a cluster that one answer named
\* together, though the node may be replaced and its cluster be renamed between
\* requests and refreshes: never the one of an older answer with the other of a
\* newer one, and never none.
DimensionsPaired ==
    fetch["node"].at = "get" =>
        LET d == fetch["node"].dims
        IN \E r \in reported : d.node = r.node /\ d.node # Unset
                               /\ d.name = DefaultName(r) /\ d.name # Unset

=============================================================================
