---------------------------- MODULE MCWatchers -----------------------------
(***************************************************************************)
(* The scripts that the collector runs, and the containers, the Kubernetes *)
(* cluster, the databases and the Elasticsearch node that its monitors     *)
(* watch.  A behaviour is about one of the five.                           *)
(***************************************************************************)
EXTENDS ScriptedInputs, DockerMonitor, ClusterCache, PostgresMonitor, ElasticsearchStats

CONSTANTS p1, s1, w1, n1, e1

VARIABLE subject

MCOwner == [p \in Pods |-> w1]
MCMasterOnly == [f \in {"cluster", "index"} |-> TRUE]

allVars == <<subject, scriptVars, dockerVars, clusterVars, postgresVars, esVars>>

\* The cluster is empty or full when the monitor starts.
MCInit ==
    /\ subject \in {"scripts", "docker", "cluster", "postgres", "elasticsearch"}
    /\ ScriptsInit /\ DockerInit /\ ClusterInit /\ PostgresInit /\ EsInit
    /\ subject = "docker" \/ real = [c \in Containers |-> "absent"]
    /\ api = [o \in Objects |-> Absent] \/ (subject = "cluster" /\ api = [o \in Objects |-> 1])
    /\ subject = "postgres" \/ (databases = {} /\ ~extension)
    /\ es = [node |-> n1, name |-> e1, master |-> n1]

ScriptsStep ==
    /\ subject = "scripts" /\ ScriptsNext
    /\ UNCHANGED <<subject, dockerVars, clusterVars, postgresVars, esVars>>
DockerStep ==
    /\ subject = "docker" /\ DockerNext
    /\ UNCHANGED <<subject, scriptVars, clusterVars, postgresVars, esVars>>
ClusterStep ==
    /\ subject = "cluster" /\ ClusterNext
    /\ UNCHANGED <<subject, scriptVars, dockerVars, postgresVars, esVars>>
PostgresStep ==
    /\ subject = "postgres" /\ PostgresNext
    /\ UNCHANGED <<subject, scriptVars, dockerVars, clusterVars, esVars>>
EsStep ==
    /\ subject = "elasticsearch" /\ EsNext
    /\ UNCHANGED <<subject, scriptVars, dockerVars, clusterVars, postgresVars>>

MCNext == ScriptsStep \/ DockerStep \/ ClusterStep \/ PostgresStep \/ EsStep

\* Each is fair in the behaviours that are about it.  The select of the Docker
\* monitor's goroutine picks any case that is ready and passes none over for
\* ever: its cases are strongly fair.
MCSpec ==
    /\ MCInit /\ [][MCNext]_allVars
    /\ WF_scriptVars(subject = "scripts" /\ CollectorStep)
    /\ WF_dockerVars(subject = "docker" /\ SyncStep)
    /\ SF_dockerVars(subject = "docker" /\ Refresh)
    /\ SF_dockerVars(subject = "docker" /\ HandleEvent)
    /\ SF_dockerVars(subject = "docker" /\ Finish)
    /\ WF_clusterVars(subject = "cluster" /\ ReflectorStep)
    /\ WF_postgresVars(subject = "postgres" /\ PollStep)
=============================================================================
