-------------------------- MODULE PostgresMonitor ---------------------------
(***************************************************************************)
(* The PostgreSQL monitor (monitors/postgresql/monitor.go), which polls a  *)
(* server for its databases and keeps one SQL monitor per database         *)
(* (monitors/sql/monitor.go) beside up to three of the server as a whole.  *)
(*                                                                         *)
(* The server and the driver are external: a query fails while the server  *)
(* is down, may fail or break off while it is flaky, and a database whose  *)
(* name spoils the connection string cannot be opened.  The server may     *)
(* lack the extension pg_stat_statements.  The handle of the master        *)
(* database is taken to open: a connection string the driver rejects would *)
(* end every poll before it does anything.  Poll and Shutdown hold the     *)
(* monitor's mutex throughout.                                             *)
(***************************************************************************)
EXTENDS Naturals

CONSTANTS Databases,       \* names of databases
          Matched,         \* those that match the databases filter
          Unusable,        \* those whose SQL monitor fails to configure
          Enabled,         \* of Whole: those that the enabled metrics need
          Aurora,          \* whether the server knows AURORA_VERSION()
          MaxServerEvents  \* bound: databases that come and go, outages

\* The SQL monitors that are not of a database.
Whole == {"server", "statements", "replication"}

ASSUME PostgresAssumption ==
    /\ Matched \subseteq Databases /\ Unusable \subseteq Databases
    /\ Databases \intersect Whole = {}
    /\ "server" \in Enabled /\ Enabled \subseteq Whole
    /\ Aurora \in BOOLEAN /\ MaxServerEvents \in Nat

VARIABLES
    databases,     \* the databases of the server
    health,        \* whether the server answers: "up", "flaky" or "down"
    extension,     \* whether the server has pg_stat_statements
    serverEvents,  \* changes of the three so far
    poll,          \* the polling goroutine: "none", "ticker", "mutex" or "ended"
    shut,          \* whether Shutdown has been called
    monitoredDBs,  \* monitoredDBs
    whole,         \* which of Whole exist
    replicating,   \* startedMonitoringReplication
    loops          \* of a SQL monitor: its query loops that run

postgresVars == <<databases, health, extension, serverEvents, poll, shut, monitoredDBs,
                  whole, replicating, loops>>
postgresServer == <<databases, health, extension, serverEvents>>
nested == <<monitoredDBs, whole, replicating, loops>>

PostgresInit ==
    /\ databases \in SUBSET Databases /\ health = "up" /\ extension \in BOOLEAN
    /\ serverEvents = 0
    /\ poll = "none" /\ shut = FALSE
    /\ monitoredDBs = {} /\ whole = {} /\ replicating = FALSE
    /\ loops = [n \in Databases \union Whole |-> 0]

-----------------------------------------------------------------------------
(* The server                                                              *)

ServerChanges ==
    /\ serverEvents < MaxServerEvents /\ serverEvents' = serverEvents + 1
    /\ \/ health' \in {"up", "flaky", "down"} \ {health} /\ UNCHANGED <<databases, extension>>
       \/ extension' = ~extension /\ UNCHANGED <<databases, health>>
       \/ /\ \E d \in Databases :
                databases' = IF d \in databases THEN databases \ {d} ELSE databases \union {d}
          /\ UNCHANGED <<health, extension>>
    /\ UNCHANGED <<poll, shut, nested>>

\* The single queries of one poll, and those that may be answered.
Queries == {"column", "columnAgain", "aurora"}
Answers == CASE health = "up" -> {Queries} [] health = "down" -> {{}} [] OTHER -> SUBSET Queries

\* What determineDatabases returns: the rows read before an error count.
Rows == CASE health = "up" -> {databases} [] health = "down" -> {{}} [] OTHER -> SUBSET databases

-----------------------------------------------------------------------------
(* The function that Configure runs on an interval                         *)

\* monitorServer and monitorStatements need the name of a column of the
\* extension, which the first to learn it keeps, and are tried at each poll
\* until then.
\* monitorReplication is tried once, unless the server says that it is Aurora.
NewWhole(answered) ==
    LET known == whole \intersect {"server", "statements"} # {}
        learns(query) == extension /\ query \in answered
        server == IF known \/ learns("column") THEN {"server"} ELSE {}
        statements == IF server # {} \/ learns("columnAgain") THEN {"statements"} ELSE {}
        replication == IF ~replicating /\ ~(Aurora /\ "aurora" \in answered)
                       THEN {"replication"} ELSE {}
    IN (((server \union statements) \ whole) \union replication) \intersect Enabled

\* Mutant: a database that cannot be monitored ends the poll.
NewDatabasesUnlessError(listed) ==
    IF listed \intersect Unusable = {} THEN listed \ monitoredDBs ELSE {}

\* The databases for which startMonitoringDatabase succeeds.
NewDatabases(listed) == (listed \ monitoredDBs) \ Unusable

LoopsStarted(names) == [n \in DOMAIN loops |-> IF n \in names THEN loops[n] + 1 ELSE loops[n]]

\* Shutdown of SQL monitors, which ends their loops.
LoopsStopped(running, names) == [n \in DOMAIN running |-> IF n \in names THEN 0 ELSE running[n]]

PostgresConfigure ==
    /\ poll = "none" /\ ~shut
    /\ poll' = "mutex"
    /\ UNCHANGED <<postgresServer, shut, nested>>

\* After Shutdown the ticker may still win over the cancelled context.
PollTicks ==
    /\ poll = "ticker"
    /\ poll' \in IF shut THEN {"mutex", "ended"} ELSE {"mutex"}
    /\ UNCHANGED <<postgresServer, shut, nested>>

PollNested ==
    \E answered \in Answers, rows \in Rows :
        LET new == NewWhole(answered)
            listed == rows \intersect Matched
            newDBs == NewDatabases(listed)
        IN /\ whole' = whole \union new
           /\ replicating' = (replicating \/ "replication" \in Enabled)
           /\ monitoredDBs' = (monitoredDBs \intersect listed) \union newDBs
           /\ loops' = LoopsStopped(LoopsStarted(new \union newDBs), monitoredDBs \ listed)

\* Mutant: whether the monitor is shut down is not looked at under the mutex.
PollUnchecked ==
    /\ poll = "mutex"
    /\ poll' = "ticker"
    /\ PollNested
    /\ UNCHANGED <<postgresServer, shut>>

Poll ==
    /\ poll = "mutex"
    /\ poll' = "ticker"
    /\ IF shut THEN UNCHANGED nested ELSE PollNested
    /\ UNCHANGED <<postgresServer, shut>>

\* May be called again, and before Configure.
PostgresShutdown ==
    /\ shut' = TRUE
    /\ loops' = LoopsStopped(loops, monitoredDBs \union whole)
    /\ UNCHANGED <<postgresServer, poll, monitoredDBs, whole, replicating>>

-----------------------------------------------------------------------------
\* Weakly fair: the ticker ticks, and the mutex is held for a poll or Shutdown
\* only.
PollStep == PollTicks \/ Poll
PostgresNext == ServerChanges \/ PostgresConfigure \/ PollStep \/ PostgresShutdown

-----------------------------------------------------------------------------
PostgresTypeOK ==
    /\ databases \subseteq Databases /\ health \in {"up", "flaky", "down"}
    /\ extension \in BOOLEAN /\ serverEvents \in 0..MaxServerEvents
    /\ poll \in {"none", "ticker", "mutex", "ended"} /\ shut \in BOOLEAN
    /\ monitoredDBs \subseteq Matched /\ whole \subseteq Enabled /\ replicating \in BOOLEAN
    /\ loops \in [Databases \union Whole -> 0..1]

\* Once Shutdown has returned nothing queries the server any more, even if a
\* poll was waiting for the mutex meanwhile.
NothingAfterShutdown == shut => \A n \in DOMAIN loops : loops[n] = 0

\* When the server stays up, whatever outages and partial lists there have
\* been, every database there is that matches and can be opened is queried by
\* exactly one loop, and no other database by any.  If the server has the
\* extension, so is the server by the monitors of it as a whole, that of
\* replication excepted, which is tried only once.
DatabasesConverge ==
    <>[](\/ shut \/ poll = "none" \/ health # "up"
         \/ /\ \A d \in Databases :
                  loops[d] = IF d \in (databases \intersect Matched) \ Unusable THEN 1 ELSE 0
            /\ extension => \A n \in Enabled \ {"replication"} : loops[n] = 1)
=============================================================================
