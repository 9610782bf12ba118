--------------------------- MODULE ConfigSources ---------------------------
(***************************************************************************)
(* Resolving and watching the config sources of a configuration            *)
(* (internal/configsource with its vault, etcd2, zookeeper and include     *)
(* sources, internal/confmapprovider/configsource).  The collector         *)
(* resolves every directive of the configuration, starting a watcher for   *)
(* it where the source has one.  A watcher that notices a change sends one *)
(* event; the collector then closes what it retrieved and resolves the     *)
(* configuration anew, with new source objects.                            *)
(*                                                                         *)
(* A value is the version of the item it was read from.  An item is a      *)
(* secret of vault, whose watcher depends on what the secret is:           *)
(*   "kv2"        its metadata have a version, which is polled;            *)
(*   "lease"      it is read again when half its lease is over;            *)
(*   "renewable"  it is read again when it is no longer renewed;           *)
(*   "kv1"        it has none of these, and no watcher;                    *)
(* a key of "etcd2", a znode of "zookeeper", a file of an "include" source *)
(* with watch_files, or "unwatched": an environment variable or a file of  *)
(* an include source without watch_files.                                  *)
(*                                                                         *)
(* Goroutines of closed configurations only matter by their number and by  *)
(* whether what they watch has changed.                                    *)
(* Expansion of strings is in ExpandString.tla.                            *)
(***************************************************************************)
EXTENDS Naturals, FiniteSets

CONSTANTS NKeys,       \* directives, in the order of confmap.Conf.AllKeys
          Items,       \* what they refer to
          ItemOf,      \* the item of a directive
          KindOf,      \* what kind of item it is
          MaxVersion,  \* bound: changes of an item
          MaxErrors    \* bound: errors, ends of leases, renewals and sessions

Keys == 1..NKeys
Kind(k) == KindOf[ItemOf[k]]
KeysOf(i) == {k \in Keys : ItemOf[k] = i}

Vault == {"kv2", "lease", "renewable", "kv1"}
Unwatched == {"kv1", "unwatched"}

\* Items whose watcher learns of a change; that of the other secrets only waits.
Noticing == {"kv2", "etcd2", "zookeeper", "include"}

\* The goroutine of the include source, which watches all files.
Notify == 0
Goroutines == {Notify} \union Keys

ASSUME SourcesAssumption ==
    /\ NKeys \in Nat \ {0} /\ MaxVersion \in Nat /\ MaxErrors \in Nat
    /\ ItemOf \in [Keys -> Items]
    /\ KindOf \in [Items -> Vault \union Noticing \union Unwatched]

VARIABLES
    version,  \* what the item holds
    errors,   \* errors so far
    pc,       \* the collector: "resolve", "running" or "failed"
    next,     \* the directive to resolve
    half,     \* "yes": its file is read and not watched yet
    seen,     \* the versions in the configuration
    watch,    \* the goroutines; "changed": what it watches is no longer as read
    files,    \* watchedFiles
    detached, \* those of them whose inode is no longer the one that is watched
    idle,     \* closed configurations: goroutines that watch,
    alert,    \*   that watch what has changed,
    late,     \*   and events they are about to send
    event,    \* the resolver's channel, of one element: "none" or "change"
    missed    \* history: directives whose file changed and no watch saw it

vars == <<version, errors, pc, next, half, seen, watch, files, detached, idle, alert,
          late, event, missed>>
closed == <<idle, alert, late>>
resolving == <<pc, next, half, seen, files, detached, missed>>

Init ==
    /\ version = [i \in Items |-> 0] /\ errors = 0
    /\ pc = "resolve" /\ next = 1 /\ half = "no"
    /\ seen = [k \in Keys |-> 0]
    /\ watch = [g \in Goroutines |-> "none"]
    /\ files = {} /\ detached = {}
    /\ idle = [g \in Goroutines |-> 0] /\ alert = [g \in Goroutines |-> 0]
    /\ late = 0
    /\ event = "none"
    /\ missed = {}

\* Whether a goroutine of the current configuration, or of a closed one,
\* learns of a write to the item.
Watches(g, i) ==
    /\ KindOf[i] \in Noticing
    /\ IF g = Notify THEN i \in files \ detached ELSE ItemOf[g] = i
Watched(g, i) == g # Notify /\ ItemOf[g] = i /\ KindOf[i] \in Noticing

\* An item is written; a file's goroutine has an event, a znode's channel or
\* etcd's index too, and the next poll of a KV v2 secret will find it.
Change(i) ==
    /\ version[i] < MaxVersion
    /\ version' = [version EXCEPT ![i] = @ + 1]
    /\ watch' = [g \in Goroutines |->
                    IF watch[g] = "on" /\ Watches(g, i) THEN "changed" ELSE watch[g]]
    /\ idle' = [g \in Goroutines |-> IF Watched(g, i) THEN 0 ELSE idle[g]]
    /\ alert' = [g \in Goroutines |-> alert[g] + IF Watched(g, i) THEN idle[g] ELSE 0]
    /\ missed' = IF KindOf[i] = "include" /\ i \notin files \ detached
                 THEN missed \union KeysOf(i) ELSE missed
    /\ UNCHANGED <<errors, pc, next, half, seen, files, detached, late, event>>

\* A file is replaced by another one of its name, as editors and ConfigMaps do.
\* The goroutine drops the event, as its operation is not Write, and the watch
\* stays with the inode that is gone.
Replace(i) ==
    /\ KindOf[i] = "include" /\ version[i] < MaxVersion
    /\ version' = [version EXCEPT ![i] = @ + 1]
    /\ detached' = detached \union ({i} \intersect files)
    /\ missed' = missed \union KeysOf(i)
    /\ UNCHANGED <<errors, pc, next, half, seen, watch, files, closed, event>>

-----------------------------------------------------------------------------
(* ResolveWithConfigSources                                                *)

\* The directives of the item that are resolved already.
Resolved(i) == {k \in 1..(next - 1) : ItemOf[k] = i}

\* Mutant: the secret is read for every key.
ReadEach(k) == version[ItemOf[k]]

\* A secret is read once and kept by the source; all others are read anew.
ReadItem(k) ==
    IF Kind(k) \in Vault /\ Resolved(ItemOf[k]) # {}
    THEN seen[CHOOSE k2 \in Resolved(ItemOf[k]) : TRUE]
    ELSE version[ItemOf[k]]

\* A value cannot be read or found, or a watch cannot be set: what was
\* retrieved before is dropped without being closed, and the collector ends.
RetrieveFails ==
    /\ pc = "resolve" /\ errors < MaxErrors
    /\ errors' = errors + 1
    /\ pc' = "failed" /\ half' = "no"
    /\ UNCHANGED <<version, next, seen, watch, files, detached, closed, event, missed>>

Retrieved ==
    /\ half' = "no"
    /\ IF next = NKeys
       THEN pc' = "running" /\ next' = 1
       ELSE next' = next + 1 /\ UNCHANGED pc
    /\ UNCHANGED <<version, errors, detached, closed, event>>

\* Mutant: whether the secret is there already is tested after it is read.
NoWatcherAfterRead(k) == Kind(k) \in Unwatched \union Vault

\* No watcher: items that cannot be watched, and the further keys of a secret.
NoWatcher(k) ==
    Kind(k) \in Unwatched \/ (Kind(k) \in Vault /\ Resolved(ItemOf[k]) # {})

\* Retrieve of every source but include.  etcd is watched from the index of
\* the value that was read, a znode from its read on, and a KV v2 secret is
\* polled for versions other than the one read: a change after the read is
\* noticed whenever the watcher starts.
Retrieve ==
    /\ pc = "resolve" /\ Kind(next) # "include"
    /\ seen' = [seen EXCEPT ![next] = ReadItem(next)]
    /\ watch' = [watch EXCEPT ![next] = IF NoWatcher(next) THEN "none" ELSE "on"]
    /\ Retrieved
    /\ UNCHANGED <<files, missed>>

\* A file is read first, ...
RetrieveFile ==
    /\ pc = "resolve" /\ half = "no" /\ Kind(next) = "include"
    /\ seen' = [seen EXCEPT ![next] = ReadItem(next)]
    /\ half' = "yes"
    /\ missed' = missed \ {next}
    /\ UNCHANGED <<version, errors, pc, next, watch, files, detached, closed, event>>

\* ... then watched, unless it is already.  The first file starts the goroutine.
WatchFile ==
    /\ pc = "resolve" /\ half = "yes"
    /\ watch' = [watch EXCEPT ![Notify] = IF @ = "none" THEN "on" ELSE @]
    /\ files' = files \union {ItemOf[next]}
    /\ Retrieved
    /\ UNCHANGED <<seen, missed>>

-----------------------------------------------------------------------------
(* The watchers                                                            *)

Notice(g) ==
    /\ watch[g] = "changed"
    /\ watch' = [watch EXCEPT ![g] = "fire"]
    /\ UNCHANGED <<version, errors, resolving, closed, event>>

\* An error, or the end of half a lease or of its renewal, is reported as well;
\* zookeeper's watcher reports an error twice.
NoticeError(g) ==
    /\ watch[g] \in {"on", "changed"} /\ errors < MaxErrors
    /\ errors' = errors + 1
    /\ watch' = [watch EXCEPT ![g] =
                    IF g # Notify /\ Kind(g) = "zookeeper" THEN "fire2" ELSE "fire"]
    /\ UNCHANGED <<version, resolving, closed, event>>

\* Calling the WatcherFunc blocks while the channel is full.
Fire(g) ==
    /\ watch[g] \in {"fire", "fire2"} /\ event = "none"
    /\ event' = "change"
    /\ watch' = [watch EXCEPT ![g] = IF @ = "fire2" THEN "fire" ELSE "done"]
    /\ UNCHANGED <<version, errors, resolving, closed>>

\* A goroutine of a closed configuration finds its channel closed, ...
Stop(g) ==
    /\ \/ idle[g] > 0 /\ idle' = [idle EXCEPT ![g] = @ - 1] /\ UNCHANGED alert
       \/ alert[g] > 0 /\ alert' = [alert EXCEPT ![g] = @ - 1] /\ UNCHANGED idle
    /\ UNCHANGED <<version, errors, resolving, watch, late, event>>

\* ... or a last change, when it finds both ...
NoticeLate(g) ==
    /\ alert[g] > 0
    /\ alert' = [alert EXCEPT ![g] = @ - 1]
    /\ late' = late + 1
    /\ UNCHANGED <<version, errors, resolving, watch, idle, event>>

\* Mutant: the goroutine goes on after its event, and sends it again.
FireLateAgain ==
    /\ late > 0 /\ event = "none"
    /\ event' = "change"
    /\ UNCHANGED <<version, errors, resolving, watch, closed>>

\* ... and fires for a configuration that is gone.
FireLate ==
    /\ late > 0 /\ event = "none"
    /\ event' = "change" /\ late' = late - 1
    /\ UNCHANGED <<version, errors, resolving, watch, idle, alert>>

-----------------------------------------------------------------------------
(* Reloading                                                               *)

\* BuildConfigSourcesFromConf makes new sources for every resolution.
NewGoroutines == [g \in Goroutines |-> "none"]

Is(g, states) == IF watch[g] \in states THEN 1 ELSE 0
Firing == {g \in Goroutines : watch[g] = "fire"}
Firing2 == {g \in Goroutines : watch[g] = "fire2"}

\* The merged close functions are called, each of which only ends its own
\* goroutine, then the configuration is resolved again.  A goroutine that is
\* about to fire does not look at its channel any more.  Removing the watch of
\* an inode that is gone can fail, and the collector then ends.
Reload ==
    /\ pc = "running" /\ event = "change"
    /\ event' = "none"
    /\ idle' = [g \in Goroutines |-> idle[g] + Is(g, {"on"})]
    /\ alert' = [g \in Goroutines |-> alert[g] + Is(g, {"changed"})]
    /\ late' = late + Cardinality(Firing) + 2 * Cardinality(Firing2)
    /\ watch' = NewGoroutines
    /\ files' = {} /\ detached' = {}
    /\ pc' \in IF detached = {} THEN {"resolve"} ELSE {"resolve", "failed"}
    /\ UNCHANGED <<version, errors, next, half, seen, missed>>

-----------------------------------------------------------------------------
Resolver == Retrieve \/ RetrieveFails \/ RetrieveFile \/ WatchFile \/ Reload

Next ==
    \/ \E i \in Items : Change(i) \/ Replace(i)
    \/ Resolver
    \/ \E g \in Goroutines :
          Notice(g) \/ NoticeError(g) \/ Fire(g) \/ Stop(g) \/ NoticeLate(g)
    \/ FireLate

Spec == Init /\ [][Next]_vars

\* The collector and the goroutines go on: one that can notice, stop or fire
\* does.  Items need not change and nothing need fail.
Fairness ==
    /\ WF_vars(Resolver)
    /\ WF_vars(\E g \in Goroutines : Notice(g) \/ Stop(g))
    /\ WF_vars(FireLate \/ \E g \in Goroutines : Fire(g))

FairSpec == Spec /\ Fairness

-----------------------------------------------------------------------------
(* Properties                                                              *)

TypeOK ==
    /\ version \in [Items -> 0..MaxVersion] /\ errors \in 0..MaxErrors
    /\ pc \in {"resolve", "running", "failed"}
    /\ next \in Keys /\ half \in {"yes", "no"}
    /\ seen \in [Keys -> 0..MaxVersion]
    /\ watch \in [Goroutines -> {"none", "on", "changed", "fire2", "fire", "done"}]
    /\ files \subseteq Items /\ detached \subseteq files
    /\ idle \in [Goroutines -> Nat] /\ alert \in [Goroutines -> Nat] /\ late \in Nat
    /\ event \in {"none", "change"}
    /\ missed \subseteq Keys

\* All keys of a secret come from one version of it in a configuration that
\* runs, however often the secret changes while the keys are resolved.
SecretConsistent ==
    pc = "running" =>
        \A k1, k2 \in Keys :
            Kind(k1) \in Vault /\ ItemOf[k1] = ItemOf[k2] => seen[k1] = seen[k2]

\* The directives that nothing in the code tells the collector about: those
\* without a watcher, those whose file was replaced, or written after it was
\* read and before it was watched, and those of a secret that is only read
\* again when its lease or its renewal ends, as long as a goroutine awaits that.
Unnoticed(k) ==
    \/ Kind(k) \in Unwatched \/ k \in missed
    \/ /\ Kind(k) \in {"lease", "renewable"}
       /\ \E g \in KeysOf(ItemOf[k]) : watch[g] = "on"

\* No other change is lost: while the configuration that runs holds an old
\* version, the event of one of its own watchers is on its way
\* (vaultconfigsource/source.go:148-288, includeconfigsource/source.go:82-142).
StaleIsPending ==
    pc = "running" =>
        \A k \in Keys :
            \/ seen[k] = version[ItemOf[k]] \/ Unnoticed(k)
            \/ event = "change"
            \/ \E g \in Goroutines : watch[g] \in {"changed", "fire", "fire2"}

\* The collector ends up running with the last version of everything it is
\* told about, whichever watchers fire first, late or twice, unless it ends.
Converges ==
    <>[](pc = "failed" \/
         /\ pc = "running" /\ event = "none"
         /\ \A k \in Keys : seen[k] = version[ItemOf[k]] \/ Unnoticed(k))

=============================================================================
