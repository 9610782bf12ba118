# Verification of the Splunk distribution of the OpenTelemetry Collector

TLA+ models of the concurrent and stateful parts of this repository, checked on
small instances with TLC, with theorems about seventeen of them checked by TLAPS.
`PROJECT.json` maps every definition to the lines it models, and lists the runs,
the mutants that show that each property can fail, the hazards and the theorems.

    tlc -workers 2 -config MCLeadership.cfg MCLeadership   # a run
    tlapm LeadershipProofs.tla                             # a proof

## The system and its modules

The collector starts by choosing a configuration (settings), resolving it
(config sources, discovery mode) and converting it (config converters). The
service then runs receivers and exporters. One receiver, the Smart Agent
receiver, hosts the monitors of the former SignalFx agent, which run
subprocesses or watch something outside the collector.

| Part | Module | State and actions |
| --- | --- | --- |
| Settings (`internal/settings`) | `Settings` | The command line and environment, and what `New` makes of them. `CheckConfig`, `MemoryAccepted` and `ListenAddr` are the functions of the same names; `ResolverURIs` is what the service is told. |
| Config sources (`internal/configsource`) | `ConfigSources` | Versions of secrets, etcd keys, znodes, files and variables, the versions in the running configuration, the watching goroutines of this and of closed configurations, and the resolver's channel. What a goroutine notices depends on the kind of item (see below). |
| String expansion (`configsource/source.go`) | `ExpandString` | `ResolveStringValue`, on sequences of the characters that the scanner tells apart. |
| Discovery properties (`properties/property.go`) | `Wordify` | `wordify` and `unwordify`, on code points. |
| Config converters (`internal/configconverter`) | `Converters` | A flat configuration and how many of `ConfMapConverters` have run, in their order. |
| Discovery mode (`confmapprovider/discovery`) | `Discoverer` | The entries, and the status maps that `ConsumeLogs` updates under the mutex. |
| Discovery receiver (`discoveryreceiver`) | `DiscoveryReceiver` | Start, Shutdown, the consumer loop, observers and evaluators around the unbuffered channel `pLogs`. |
| Its correlation store (`correlation.go`) | `CorrelationStore`, `EndpointRegistry` | The two-level map with a mutex per endpoint and per receiver, and the reaper. `EndpointRegistry` is the abstract promise. |
| HTTP sink exporter | `HttpSink` | Exporters that share a sink, waiting requests, fan-out, timeouts. |
| Prometheus remote write receiver | `RemoteWrite` | Start and Shutdown with restarts, handlers, the bounded channel, the goroutine that flushes. |
| Scripted inputs receiver | `ScriptedInputs` | The loop, the process and those it leaves behind, the kill timer, the pipe and its reader. |
| Metric filtering (`utils/filter`, `dpfilters`, `smartagentreceiver/filtering.go`) | `Filters` | String, map and datapoint filters, and the set that a monitor gets. |
| collectd manager | `CollectdManager` | The manager's mutex, instances of `manageCollectd`, forwarders, debouncers, the process, the write server. |
| Kubernetes leadership | `Leadership` | `OnNewLeader` goroutines, the notice channels, and the cluster and events monitors. |
| Kubernetes cluster monitor | `ClusterCache` | Reflector stores, the datapoint cache, the dimension handler. |
| Subprocess monitors (`subproc`) | `SubprocCore` | The configuring caller, `runWithRestart`, and a handler per run. |
| Docker monitor | `DockerMonitor` | The container cache, synchronising, the event stream, the monitored set. |
| PostgreSQL monitor | `PostgresMonitor` | Polls, lists of databases that may break off, the extension that some statistics need, the nested SQL monitors, Shutdown. |
| Elasticsearch monitor | `ElasticsearchStats` | The shared information, its refreshes, the fetchers. |

A step of a model is what the code does between two points at which another
goroutine can interfere. A function that holds one mutex throughout is one
step; one that sends, waits, unlocks or calls out is several. Libraries and
services (client-go, os/exec, the Docker daemon, the databases) are modelled
from how the code uses them and marked external in the map. Values whose
content no property is about are version numbers or members of small sets.

The kinds of items in `ConfigSources` follow the watchers of the code. etcd keys,
znodes, KV v2 secrets (whose version is polled) and files of an include source
with `watch_files` are watched for writes. A secret on a lease, or one that is
renewed, has a goroutine that only waits for the end of half the lease or of the
renewal. Other secrets, variables and files without `watch_files` have no watcher.
A file can also be replaced (`Replace`): the goroutine reacts to nothing but
`Write`, the watch stays with the old inode, and removing that watch at the next
reload may fail, which ends the collector.

`Settings`, `Filters`, `ExpandString`, `Wordify` and `Converters` are functions
rather than processes. Their runs enumerate inputs and compare the result with
a statement that is written without the algorithm.

## Runs

All runs pass but `leadership_alternate`, which shows a defect. Deadlock
checking is off except in `correlation_store`: the other systems may stop.

| Run | Instance | Shows |
| --- | --- | --- |
| `correlation_store` | 1 endpoint, 1 receiver, 2 observers, 2 evaluators, 2 events, 3 inner maps | No event lost, no correlation stored twice, and the store refines `EndpointRegistry`. |
| `correlation_progress` | the same with 1 observer | Removed endpoints are reaped; the mutexes are always released. |
| `discovery` | 1 observer, 2 goroutines that evaluate metrics | At most one `first_only` record; records are received and Shutdown returns. |
| `collectd` | 2 monitors and the main configuration, 2 instances, 4 configurations, 1 death, failing write server and rendering | One process at most, no accepted restart lost, the manager's mutex is released. |
| `leadership` | 3 monitors, 3 nodes, 3 elections | First notice true, announcing leadership never blocks, an elected node reports. |
| `leadership_alternate` | 2 monitors, 3 elections | Violated: two equal notices in a row. |
| `httpsink` | 2 exporters, 2 payloads, 2 requests | Answers are complete, of the right type and without duplicates; Shutdown returns. |
| `subproc` | 3 runs, failing pipes | Only configured processes are served; configuring returns; Shutdown stops the process. |
| `configsources` | 6 directives: 2 keys of a secret on a lease, a znode, a file included twice, a variable; 1 change each, 1 error or end of the lease | Keys of a secret agree, no change that the code can notice is lost, and the collector ends up with the last versions of what it is told about. |
| `prw` | 2 requests, 2 starts, buffer of 1 | Counters lose nothing, acknowledged results are passed on, Shutdown ends all goroutines. |
| `configuration` | strings to length 5, texts to 4, filters to 3 items; settings, conversions and a discovery of 2 receivers and 2 observers | Escaping, encoding, converting, priority of configurations, filters, and that what discovery found is what it embeds. |
| `watchers` | scripts: 2 cycles; Docker: 2 containers; cluster: a pod, a service, a workload; PostgreSQL: 3 databases; Elasticsearch: 2 nodes | Scripts are read to their end and Stop returns; the Docker, Kubernetes and PostgreSQL monitors get to know what there is; pods have the tags of their services and their workload; PostgreSQL is quiet after Shutdown; Elasticsearch dimensions belong together. |

`configuration` and `watchers` hold several independent modules. A variable
chosen initially says which one a behaviour is about; the others do not move,
so each is checked as if alone.

**Bounds.** Two actors of a kind are enough for a race between equals, two
changes for a stale value to differ from the current one, two instances or
starts for an old goroutine to meet a new one, three elections for a node to
win, lose and see another change. The collectd configurations are counted
only to bound a run: of each instance the model keeps whether it has loaded
the present files and whether it is behind a request that it has received. Bounds on strings let an escape, a bracket
and a directive be nested once. Some instances are smaller than one would
like: with a second observer, or with a goroutine that evaluates statements,
`discovery` did not finish in ten minutes or more; its safety properties are
proved for any observers and goroutines, its two liveness properties are
checked on this instance only. `configsources` has no etcd2 key and no KV v2
secret (their goroutines take the steps of the znode's), no renewable secret (its
goroutine takes the steps of the lease's) and no secret of KV v1 (it has no watcher,
like the variable); the proofs of its safety properties cover all kinds. An
instance with a KV v2 secret and one on a lease has 28 million states; its
invariants were checked once, in twenty minutes, which is too long for a run. `ElasticsearchStats` runs with index
statistics off. The longest filters go with no filter over dimensions.

**Symmetry** is used in `correlation_store` only, which has no liveness
property.

**Fairness.** Goroutines that can run do (weak fairness). Strong fairness is
assumed where Go gives it: `sync.Mutex` starves no waiter, `select` chooses at
random among what is ready, blocked senders queue. In `CorrelationStore` a call
that holds no mutex yet need not go on; strong fairness is for evaluators that
wait for a receiver's mutex with the endpoint's held, and for the reaper.
`watchers` states the fairness of its modules in `MCSpec`, each bound to the
behaviours that are about the module. The environment owes
nothing, with these exceptions: a retried start of collectd succeeds in the
end, a killed process dies, a subprocess answers its configuration, the next
consumer of the remote write receiver returns, Docker calls return. Scripts, and the
processes that they leave behind, may run for ever, leases need not end, containers and databases need not change, and nobody need call
Shutdown. `configuration` has no liveness property.

## Proofs

The proofs hold for every value of the constants under the named assumptions of
the modules: sets that must be disjoint are, bounds are natural numbers, and
model values such as `Nobody` are not members of the sets they stand outside of.

Each invariant that is proved rests on an inductive one, proved for the initial
states and for every action; the properties follow from it. The specifications
in the theorems are the ones that the runs check, without their fairness. Where
a run holds several modules, the module with the proof names the specification
of the one (`PostgresSpec`, `EsSpec`, `DockerSpec`, `ClusterSpec`, `ScriptsSpec`,
`SettingsSpec`, `ConvSpec`).

* **Correlation store** (`CorrelationMapProofs`, `CorrelationStoreProofs`).
  `IndInv` adds to the properties who holds which mutex (`LocksHeld`), that
  inner maps are numbered in the order of creation (`MapsMade`), and what a call
  in the middle of ranging or storing knows about the map it holds
  (`RangeSound`, `StoreSound`). This is needed because GetOrCreate goes on using
  an inner map that the reaper has dropped. From it follow that no event is
  lost, that what a range has written is not undone, that correlations are
  stored once, and, step by step, the refinement of `EndpointRegistry`.
* **Processes** (`ProcessProofs`).
  *collectd:* `CInv` says that instances follow one another, a process belongs
  to a state machine that will reap it, and the last monitor leaves only after
  the end of the state machine. Hence one process at most, none after the last
  shutdown, and no accepted restart lost.
  *Subprocess monitors:* all runs share one `configResult`, and the goroutine of
  an old run may write it while a new run waits for it. `SubprocInv` says that
  only the present run has open pipes (`PipesOfRun`) and what a goroutine may
  have read and decided by it (`Decided`): an old run can overwrite the result
  with its failure, never with a success.
  *Scripted inputs:* `ScriptsInv` orders the steps of one run (reaped, copied,
  signalled, closed) and keeps earlier cycles quiet, so that no output is cut
  off and no two scripts run at once, for any number of cycles and lines.
* **Leadership** (`LeadershipProofs`). `LInv` says what the callback that holds
  the mutex announces, and whom it has told already. `TrueNeverBlocks` rests on
  it: a channel that has still to hear of leadership has been sent nothing. Also
  proved: a monitor that has ended is silent, and one that does not always
  report does so only after this node was elected.
* **Kubernetes cluster monitor** (`LeadershipProofs`, after the leadership that
  this monitor waits for). `TagsComplete`, of services and workloads, is about the handlers' state alone, and
  is inductive with `Reported`. That no reflector loses anything needs
  `ClusterInv`: the last event about an object says what the object is now
  (`LastIsCurrent`), an object with no event outstanding is as it was listed or
  cached (`NothingMissed`), and `keysSeen`, from which ReplaceFunc takes what it
  drops, is what is cached (`SeenIsCached`). From it follows `CaughtUp`, the
  safety half of `CacheConverges`: a reflector that has delivered all events has
  cached and reported what the cluster has.
* **Discovery receiver** (`PipelineProofs`). `IInv`: receivers run only
  between the end of Start and the creator's Shutdown; a `first_only` record is
  unclaimed, in one goroutine's hands or received; the cache of configs has for
  each observer the config that watches it. Also proved: embedded configs watch
  the record's observer, and `pLogs` is closed after the last evaluation.
* **HTTP sink** (`PipelineProofs`). `SinkInv` says that a payload is fanned out
  once, by its own exporter (`FannedOnce`), that what is on its way to a client
  is of the kind it asked for and not among its results (`OnItsWay`), and that a
  client is done only with enough of them. So an answer has at least as many
  results as were asked for, of that kind, none of them twice (`AnswerSound`), for any
  numbers of clients, exporters and payloads.
* **Remote write** (`RemoteWriteProofs`). `WriteInv` has three parts. `Lifecycle`
  says which server the receiver has, and that a call closes it before its
  channel. `Counters` says that a server's counter is the number of its faulty
  requests that have been counted, so a result covers what it must: its own
  faults and those of requests over before it came. `Results` says where the
  result of an accepted request is: in the channel once, with the goroutine or
  with the next consumer, and nowhere twice, for any number of starts, requests
  and places in the channel.
* **Watchers** (`WatcherProofs`).
  *Config sources:* `SourcesInv` follows the directives in the order of
  resolution. `SecretSoFar` has one version for the keys resolved so far.
  `Covered` says of each resolved directive that it is current, or that some
  goroutine that watches its item has noticed or has left an event; of a secret
  on a lease, only that it has a goroutine. `StaleIsPending` excepts what the code
  cannot notice (`Unnoticed`). A file is read before it is watched, hence `missed`
  and the part `HalfCovered` about the moment between; a replaced file is `missed`
  too.
  *PostgreSQL:* `LoopsHeld` says that every query loop belongs to a monitor that
  Shutdown will reach, although a poll may be waiting for the mutex then.
  *Elasticsearch:* `RefreshSound` says that the shared dimensions come from one
  answer, and that fetchers run only after such an answer.
  *Docker:* `DockerInv` says that the monitor has the containers cached as
  running, and that a cached container is out of date only while an event about
  it is outstanding or if its last one could not be inspected; for this a new
  stream must go back to the last event seen. From it follows `MonitorSettled`,
  the safety half of `MonitorConverges`.
* **Configuration** (`ConfigurationProofs`).
  *Discovery mode:* `IInv` says that entries are built from observers that were
  created (`Built`), and that the receivers with a success are those of the
  successes reported, each with a config and with its observer's success
  (`Counted`). Hence `SuccessEmbedded`: when discovery is done exactly the receivers
  that some call reported successful in its last record are embedded, and the
  observers named with them are among those embedded.
  *Settings:* for all command lines and environments `ResolverURIs` begins with
  what `checkConfig` chose and continues with the URIs of discovery flags.
  *Filters:* a metric that `EnabledMetrics` leaves out is matched by a filter
  that no dimensions can make pass, for items and filters of any length.
  *Converters:* `ConvInv` follows the order of `ConfMapConverters`. The first
  merges `--set`, the next seven leave the exporters and receivers that matter
  alone (`Untouched`, a lemma for each), the ninth sets the switches (`Switched`)
  and the last leaves them alone. Hence `KubeletSwitches` for every
  configuration; another order of the converters would need another argument.

Only model-checked are:

* the liveness properties, among them `MutexReleased`, `ElectedIsHeard`,
  `RecordsReceived`, `Converges`, `AcceptedPassedOn` and everything that
  returns, ends or converges, because the prover has no rules for fairness;
* `EscapeRestores` and `WordifyInverts`, which are about recursive operators,
  and `ConvertIdempotent`, which is about lists that are filtered and appended to
  twice: what these return for every input is an induction over data.

Many leaves name the prover `Zenon`. It is the one that finds them; without the
name the SMT solver is tried first, which costs seconds for each.


## Where code and comments disagree

`leadership_alternate` is the one disagreement that a run shows: `isLeader` is
never reset (`leadership.go:121`), so a second loss sends `false` again and the
events monitor closes a nil channel.

The others below were met while modelling. They were read off the code, and no
run demonstrates them. Where a property would fail for one, its definition
names the case as an exception.

* Correlation store: GetOrCreate copies and stores outside the endpoint's mutex
  (`correlation.go:147`), so a new correlation may be stale; a lookup after
  reaping leaves an entry for ever (`:135`).
* collectd: an old forwarder may take the new instance's restart request
  (`collectd.go:279`); after a failed write server RequestRestart blocks with
  the mutex held (`:257`); MonitorDidShutdown may remove a file that was just
  written again (`:169`).
* Leadership: a channel requested after the lease was lost is primed with true
  (`leadership.go:53`); unsubscribing may wait for an OnNewLeader that waits
  for the same monitor (`cluster/monitor.go:150`).
* Discovery: Shutdown closes `pLogs` while notifications of observers may be
  under way (`receiver.go:137`); the default map is shared by the entries merged
  into it (`discoverer.go:450`); a later record of one evaluation replaces a
  success (`:728`) or the config that succeeded (`:725`).
* Converters: a pipeline entry `k8s_tagger/a-b` becomes `k8sattributes/a`
  (`k8s_tagger.go:61`); the pattern for `insecure` has no end anchor
  (`move_otlp_insecure.go:33`).
* Expansion: while the older form of directives is on, doubling `$` does not
  protect `${source:selector}`; `$:a` expands a variable named `:a`, and `${$}` stays `$`, unlike
  os.ExpandEnv.
* Settings: SPLUNK_CONFIG_YAML is dropped when a flag for discovery is given
  (`settings.go:155`), although checkConfig reports that it is used (`:486`);
  the messages say greater than 99 and 33 where 99 and 33 are accepted; a total
  of 99 gives a ballast of 32, which a restart refuses.
* Filters: the comment on OverridableStringFilter lets an exact literal win
  over negated patterns, the code does not; of `a` and `!a` the last wins
  although order "does not matter"; with optional keys the result of a map
  filter depends on the order of a Go map (`filter.go:149`).
* Remote write: after the consumer refuses a result the flushing goroutine ends
  for good; `server.go:56` uses the server before it looks at the error; a
  second Start may end in a fatal error from the first one's goroutine.
* Subprocesses: if os.Pipe fails ConfigureInSubproc waits for ever.
* Include source: its README says that `watch_files` "will trigger a configuration
  reload if any of the files used by the config source are updated". A write
  between reading and watching a file is missed (`includeconfigsource/source.go:82`),
  and so is a file that is replaced (`:110`, only `Write` counts).
* Vault: a secret of KV v1 without a lease is never read again.
* Scripted inputs: a script that has ended before Stop signals it leaves the
  pipe open, so neither the cycle nor Stop ends (`commander.go:116`); nor do they
  while a process that the script has left behind holds its output. `StopReturns`
  excepts both, as `Wedged` and `Orphaned`.
* Docker: the map is read without its mutex (`containerlist.go:62`); a cached
  container whose inspection failed is skipped by every synchronisation.
* Kubernetes cluster: relabelled pods keep the tags of services that no longer
  select them (`dimensions.go:151`).
* PostgreSQL: when the list of databases cannot be had, all databases stop being
  monitored until the next poll (`monitor.go:196`); when it breaks off, those that
  it lacks (`:266`).
* Elasticsearch: an answer that names the node and not the cluster removes the
  dimensions of running fetchers (`elasticsearch.go:122`).

## Not modelled

The map covers a small share of the repository's lines, and it will stay small.
About a third of the lines are generated (metric metadata, monitor templates).
Most of the rest are monitors that poll one service in a single goroutine and
convert the answers with tables, configuration structures, parsers, and
installers: they have no state that a sequence of steps could corrupt, and a
model would be a transliteration. `PROJECT.json` lists each with its reason.

Of the parts that are modelled, these are left out:

* Settings: parsing of flags, feature gates, the configuration directory, and
  the URLs made of the realm.
* Filters: globs and regular expressions are the sets they match; the
  validation of names and filters that monitors add later.
* Config sources: templates, parameters, authentication, `delete_files`. Leases
  are not timed: their ends are among the events that `MaxErrors` bounds.
* Converters: values of unexpected types, and what DryRun prints.
* Discovery properties: the grammars, which a parser library interprets.
* Remote write: translation of samples into data points.
* Docker, Kubernetes, PostgreSQL, Elasticsearch: what becomes which datapoint.
  PostgreSQL's handle of the master database is taken to open.
* Kubernetes cluster: a monitor that is started a second time.
* Smart Agent receiver: its Start and Shutdown, which the service calls in turn.
