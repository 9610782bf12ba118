---------------------------- MODULE ClusterCache ----------------------------
(***************************************************************************)
(* What the Kubernetes cluster monitor knows of the cluster: State         *)
(* (cluster/clusterstate.go) with one reflector and one store per kind of  *)
(* object, the cache of datapoints (metrics/cache.go) and the handler of   *)
(* dimensions (metrics/dimensions.go with the caches of kubernetes/utils). *)
(*                                                                         *)
(* A pod has a label, a service selects one, and a pod belongs to a        *)
(* workload, a ReplicaSet or a Job, which the code treats alike.  The API  *)
(* server and client-go's reflector are external: a reflector lists its    *)
(* kind, replaces the store by the list and then delivers the events since *)
(* the list in their order, until the watch fails and it lists again.      *)
(***************************************************************************)
EXTENDS Naturals, Sequences

CONSTANTS Pods, Services, Workloads,
          Owner,       \* of a pod: its workload
          MaxEvents,   \* bound: events of the API server
          MaxBreaks    \* bound: failing watches

ASSUME ClusterAssumption ==
    /\ Owner \in [Pods -> Workloads]
    /\ Pods \intersect Services = {} /\ Pods \intersect Workloads = {}
    /\ Services \intersect Workloads = {}
    /\ MaxEvents \in Nat /\ MaxBreaks \in Nat

Kinds == {"pods", "services", "workloads"}
Of(kind) == CASE kind = "pods" -> Pods [] kind = "services" -> Services [] OTHER -> Workloads
Objects == Pods \union Services \union Workloads

\* The labels, and what an object is before and after it exists.
Labels == {1, 2}
Absent == 0
Gone == 3

VARIABLES
    api,        \* the objects of the cluster: Absent, a label, or Gone
    events,     \* of a kind: the events of the API server
    breaks,     \* failing watches so far
    sync,       \* "no", "yes", or "cancelled" by Stop
    reflector,  \* of a kind: where its reflector is
    position,   \* of a kind: events covered by the list or delivered
    list,       \* of a kind: the list to replace the store by
    keysSeen,   \* of a kind: keysSeen
    cached,     \* dpCache, and the caches of the dimension handler
    dims        \* what the dimension updates add up to

clusterVars == <<api, events, breaks, sync, reflector, position, list, keysSeen, cached,
                 dims>>
server == <<api, events>>
stores == <<keysSeen, cached, dims>>

\* What both handlers know: the datapoints of an object, and the label of an
\* object in the cache of its kind.
Knowledge == [dps : [Objects -> Labels \union {Absent}], cache : [Objects -> Labels \union {Absent}]]
\* What was sent of a pod: its services' tags and its workload.
Dimensions == [tags : [Pods -> SUBSET Services], workload : [Pods -> SUBSET Workloads]]

ClusterInit ==
    /\ api \in [Objects -> {Absent, 1}]
    /\ events = [k \in Kinds |-> <<>>] /\ breaks = 0
    /\ sync = "no" /\ reflector = [k \in Kinds |-> "none"]
    /\ position = [k \in Kinds |-> 0] /\ list = [k \in Kinds |-> [o \in {} |-> Absent]]
    /\ keysSeen = [k \in Kinds |-> {}]
    /\ cached = [dps |-> [o \in Objects |-> Absent], cache |-> [o \in Objects |-> Absent]]
    /\ dims = [tags |-> [p \in Pods |-> {}], workload |-> [p \in Pods |-> {}]]

-----------------------------------------------------------------------------
(* The handlers, on a record of what is known and sent.  They are told of  *)
(* objects of one kind, by a function from the objects to their labels; in *)
(* which order does not matter.  "now" is the cache with the new labels.   *)

With(labels, new) == [o \in Objects |-> IF o \in DOMAIN new THEN new[o] ELSE labels[o]]
Without(labels, old) == [o \in Objects |-> IF o \in old THEN Absent ELSE labels[o]]

\* handleAddPod sends the services that select the pod, and its workload.
AddPod(now, new, p) == {s \in Services : p \in DOMAIN new /\ now[s] = new[p]}
PodWorkload(now, new, p) == {w \in {Owner[p]} : p \in DOMAIN new /\ now[w] # Absent}

\* Mutant: a service reaches only the pods that come after it.
AddServiceEarly(now, new, p) == {}

\* handleAddService looks at the pods that are cached.
AddService(now, new, p) == {s \in Services \intersect DOMAIN new : now[p] = new[s]}

\* handleAddReplicaSet and handleAddJob look at them too.
AddWorkload(now, new, p) == {w \in {Owner[p]} \intersect DOMAIN new : now[p] # Absent}

\* HandleAdd of the cache of datapoints: services have none.
CacheAdd(dps, new) ==
    [o \in Objects |-> IF o \in DOMAIN new \ Services THEN new[o] ELSE dps[o]]

\* HandleAdd of both.
HandleAdd(st, new) ==
    LET now == With(st.known.cache, new)
        workload(p) == PodWorkload(now, new, p) \union AddWorkload(now, new, p)
    IN [known |-> [dps |-> CacheAdd(st.known.dps, new), cache |-> now],
        sent |-> [tags |-> [p \in Pods |->
                     st.sent.tags[p] \union AddPod(now, new, p) \union AddService(now, new, p)],
                  workload |-> [p \in Pods |->
                     IF workload(p) = {} THEN st.sent.workload[p] ELSE workload(p)]]]

\* handleDeleteService looks at the pods that are cached.
DeleteService(cache, old, p) ==
    {s \in Services \intersect old : cache[s] # Absent /\ cache[p] = cache[s]}

\* DeleteByKey of the cache of datapoints.
CacheDelete(dps, old) == Without(dps, old)

\* DeleteByKey of both.
DeleteByKey(st, old) ==
    [known |-> [dps |-> CacheDelete(st.known.dps, old), cache |-> Without(st.known.cache, old)],
     sent |-> [tags |-> [p \in Pods |->
                  st.sent.tags[p] \ DeleteService(st.known.cache, old, p)],
               workload |-> st.sent.workload]]

Handlers == [known |-> cached, sent |-> dims]
Handled(st) == cached' = st.known /\ dims' = st.sent

-----------------------------------------------------------------------------
(* The functions of a store, under the locks of both handlers              *)

AddFunc(k, o, label) ==
    /\ Handled(HandleAdd(Handlers, [x \in {o} |-> label]))
    /\ keysSeen' = [keysSeen EXCEPT ![k] = @ \union {o}]

DeleteFunc(k, o) ==
    /\ Handled(DeleteByKey(Handlers, {o}))
    /\ keysSeen' = [keysSeen EXCEPT ![k] = @ \ {o}]

\* Mutant: what the list lacks stays.
ReplaceAdds(k) ==
    /\ Handled(HandleAdd(Handlers, list[k]))
    /\ keysSeen' = [keysSeen EXCEPT ![k] = @ \union DOMAIN list[k]]

ReplaceFunc(k) ==
    /\ Handled(HandleAdd(DeleteByKey(Handlers, keysSeen[k]), list[k]))
    /\ keysSeen' = [keysSeen EXCEPT ![k] = DOMAIN list[k]]

-----------------------------------------------------------------------------
(* The API server and the reflectors                                       *)

Exists(o) == api[o] \in Labels

ObjectChanges(k, o) ==
    /\ sync = "yes"
    /\ Len(events["pods"]) + Len(events["services"]) + Len(events["workloads"]) < MaxEvents
    /\ \E to \in Labels \union {Gone} :
          /\ \/ api[o] = Absent /\ to = 1
             \/ Exists(o) /\ to # api[o] /\ (o \in Workloads => to = Gone)
          /\ api' = [api EXCEPT ![o] = to]
          /\ events' = [events EXCEPT ![k] = Append(@, [object |-> o, label |-> to])]
    /\ UNCHANGED <<breaks, sync, reflector, position, list, stores>>

ListKind(k) ==
    /\ reflector[k] = "list"
    /\ list' = [list EXCEPT ![k] = [o \in {x \in Of(k) : Exists(x)} |-> api[o]]]
    /\ position' = [position EXCEPT ![k] = Len(events[k])]
    /\ reflector' = [reflector EXCEPT ![k] = "replace"]
    /\ UNCHANGED <<server, breaks, sync, stores>>

ReplaceKind(k) ==
    /\ reflector[k] = "replace"
    /\ ReplaceFunc(k)
    /\ reflector' = [reflector EXCEPT ![k] = "watch"]
    /\ UNCHANGED <<server, breaks, sync, position, list>>

DeliverEvent(k) ==
    /\ reflector[k] = "watch" /\ position[k] < Len(events[k])
    /\ LET e == events[k][position[k] + 1]
       IN IF e.label = Gone THEN DeleteFunc(k, e.object) ELSE AddFunc(k, e.object, e.label)
    /\ position' = [position EXCEPT ![k] = @ + 1]
    /\ UNCHANGED <<server, breaks, sync, reflector, list>>

WatchBreaks(k) ==
    /\ reflector[k] = "watch" /\ breaks < MaxBreaks
    /\ breaks' = breaks + 1
    /\ reflector' = [reflector EXCEPT ![k] = "list"]
    /\ UNCHANGED <<server, sync, position, list, stores>>

\* A reflector notices the cancelled context after some more deliveries.
ReflectorEnds(k) ==
    /\ sync = "cancelled" /\ reflector[k] \in {"list", "watch"}
    /\ reflector' = [reflector EXCEPT ![k] = "ended"]
    /\ UNCHANGED <<server, breaks, sync, position, list, stores>>

-----------------------------------------------------------------------------
(* State.Start, when the monitor learns that it leads, and State.Stop      *)

StartSync ==
    /\ sync = "no"
    /\ sync' = "yes"
    /\ reflector' = [k \in Kinds |-> "list"]
    /\ UNCHANGED <<server, breaks, position, list, stores>>

StopSync ==
    /\ sync = "yes"
    /\ sync' = "cancelled"
    /\ UNCHANGED <<server, breaks, reflector, position, list, stores>>

-----------------------------------------------------------------------------
\* Weakly fair: reflectors run; lists and events are finite in number.
ReflectorStep ==
    \E k \in Kinds : ListKind(k) \/ ReplaceKind(k) \/ DeliverEvent(k) \/ ReflectorEnds(k)

ClusterNext ==
    \/ StartSync \/ StopSync \/ ReflectorStep
    \/ \E k \in Kinds : WatchBreaks(k) \/ \E o \in Of(k) : ObjectChanges(k, o)

-----------------------------------------------------------------------------
Lists == UNION {[S -> Labels] : S \in SUBSET Objects}

ClusterTypeOK ==
    /\ api \in [Objects -> Labels \union {Absent, Gone}]
    /\ events \in [Kinds -> Seq([object : Objects, label : Labels \union {Gone}])]
    /\ breaks \in 0..MaxBreaks /\ sync \in {"no", "yes", "cancelled"}
    /\ reflector \in [Kinds -> {"none", "list", "replace", "watch", "ended"}]
    /\ position \in [Kinds -> Nat] /\ list \in [Kinds -> Lists]
    /\ keysSeen \in [Kinds -> SUBSET Objects]
    /\ \A k \in Kinds :
          /\ position[k] <= Len(events[k]) /\ DOMAIN list[k] \union keysSeen[k] \subseteq Of(k)
          /\ \A i \in 1..Len(events[k]) : events[k][i].object \in Of(k)
    /\ cached \in Knowledge /\ dims \in Dimensions

\* In whatever order pods, services, ReplicaSets and Jobs arrive from their
\* reflectors, a cached pod has the tag of every cached service that selects it
\* and the workload that it belongs to, if that is cached
\* (metrics/dimensions.go:147-190, 195-258).
TagsComplete ==
    \A p \in Pods : cached.cache[p] # Absent =>
        /\ \A s \in Services : cached.cache[p] = cached.cache[s] => s \in dims.tags[p]
        /\ cached.cache[Owner[p]] # Absent => Owner[p] \in dims.workload[p]

\* While the monitor syncs, the caches get to the objects of the cluster, with
\* their last labels, whatever lists and events were interleaved or missed.
CacheConverges ==
    \A o \in Objects :
        <>[](\/ sync # "yes"
             \/ /\ cached.cache[o] = IF Exists(o) THEN api[o] ELSE Absent
                /\ o \notin Services => cached.dps[o] = cached.cache[o])
=============================================================================
