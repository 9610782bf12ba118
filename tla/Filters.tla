------------------------------ MODULE Filters -------------------------------
(***************************************************************************)
(* The filters that decide which datapoints of a monitor are sent: string  *)
(* and map filters (signalfx-agent utils/filter), datapoint filters and    *)
(* their sets (core/dpfilters, core/config/filters.go), and the filtering  *)
(* of the Smart Agent receiver (smartagentreceiver/filtering.go).          *)
(*                                                                         *)
(* An item of a filter is a literal, or a glob or a regular expression,    *)
(* which the code treats alike and which here is the set of strings that   *)
(* it matches.  A filter over a map takes the keys in no fixed order.      *)
(***************************************************************************)
EXTENDS Naturals, Sequences

CONSTANTS Metrics,         \* names of metrics
          Known,           \* those in the metadata of the monitor
          DefaultMetrics,  \* those that are sent by default
          DimKeys, DimValues

ASSUME FiltersAssumption == DefaultMetrics \subseteq Known /\ Known \subseteq Metrics

Items(strings) ==
    [literal : {TRUE}, strings : {{s} : s \in strings}, negated : BOOLEAN]
        \union [literal : {FALSE}, strings : SUBSET strings, negated : BOOLEAN]

\* The literals of a filter for s; staticSet has the last one.
Literals(items, s) == {i \in DOMAIN items : items[i].literal /\ s \in items[i].strings}
Patterns(items, s) == {i \in DOMAIN items : ~items[i].literal /\ s \in items[i].strings}
StaticNegated(items, s) ==
    \E i \in Literals(items, s) : items[i].negated /\ \A j \in Literals(items, s) : j <= i

\* BasicStringFilter.Matches.
BasicMatches(items, s) ==
    IF Literals(items, s) # {} THEN ~StaticNegated(items, s)
    ELSE \/ \E i \in DOMAIN items : items[i].literal /\ items[i].negated
         \/ \E i \in DOMAIN items :
               ~items[i].literal /\ (s \in items[i].strings) # items[i].negated

\* OverridableStringFilter.Matches.
OverridableMatches(items, s) ==
    /\ Literals(items, s) # {} => ~StaticNegated(items, s)
    /\ \A i \in Patterns(items, s) : ~items[i].negated
    /\ Literals(items, s) \union Patterns(items, s) # {}

\* fullStringMapFilter.Matches: its possible results.  The first key that is
\* missing or does not match decides.
MapMatches(filter, m) ==
    LET missing == DOMAIN filter \ DOMAIN m
        failing == {k \in DOMAIN filter \ missing : ~OverridableMatches(filter[k].items, m[k])}
    IN IF DOMAIN m = {} /\ \A k \in DOMAIN filter : ~filter[k].okMissing THEN {FALSE}
       ELSE IF missing \union failing = {} THEN {TRUE}
       ELSE {filter[k].okMissing : k \in missing} \union {FALSE : k \in failing}

\* overridableDatapointFilter.Matches: an empty part is no condition.
DatapointMatches(filter, dp) ==
    IF filter.metrics # <<>> /\ ~OverridableMatches(filter.metrics, dp.metric) THEN {FALSE}
    ELSE IF DOMAIN filter.dims = {} THEN {TRUE} ELSE MapMatches(filter.dims, dp.dims)

\* extraMetricsFilter.Matches, with the metrics it has computed in advance.
ExtraMatches(extra, sendUnknown, metric) ==
    LET items == SelectSeq(extra, LAMBDA i : ~(i.literal /\ ~i.negated /\ i.strings \subseteq DefaultMetrics))
        effective == {m \in Known : BasicMatches(items, m)}
    IN \/ metric \notin Known /\ sendUnknown
       \/ metric \in DefaultMetrics \/ metric \in effective
       \/ BasicMatches(items, metric)

\* FilterSet.Matches of the set that buildFilterSet makes: whether, possibly,
\* the datapoint is not sent.
FilterSetMatches(mon, dp) ==
    IF Known # {} /\ ~mon.sendAll /\ ~ExtraMatches(mon.extra, mon.sendUnknown, dp.metric) THEN {TRUE}
    ELSE {TRUE : f \in {g \in mon.excludes : TRUE \in DatapointMatches(g, dp)}}
            \union {FALSE : b \in {TRUE} \intersect
                                {\A g \in mon.excludes : FALSE \in DatapointMatches(g, dp)}}

\* Mutant: only the names in the filters are looked at.
LeftOutByName(mon) ==
    {m \in Known : \E f \in mon.excludes : f.metrics # <<>> /\ OverridableMatches(f.metrics, m)}

\* The metrics that EnabledMetrics may leave out; a group of such metrics is
\* not collected (HasEnabledMetricInGroup).
LeftOut(mon) ==
    {m \in Known : TRUE \in FilterSetMatches(mon, [metric |-> m, dims |-> <<>>])}

-----------------------------------------------------------------------------
(* A list of items, which grows, and a filter over dimensions              *)

VARIABLES items, dimFilter

filterVars == <<items, dimFilter>>

DimItems == {<<i>> : i \in {j \in Items(DimValues) : j.literal \/ (j.strings = DimValues /\ ~j.negated)}}
DimFilters == UNION {[ks -> [items : DimItems, okMissing : BOOLEAN]] : ks \in SUBSET DimKeys}
DimMaps == UNION {[ks -> DimValues] : ks \in SUBSET DimKeys}

AddItem == \E i \in Items(Metrics) : items' = Append(items, i) /\ UNCHANGED dimFilter

\* Monitors with the items as the extra metrics, and as names to exclude.
Monitors ==
    LET excludes == {[metrics |-> ms, dims |-> dimFilter] : ms \in {<<>>, items}}
    IN [extra : {<<>>, items}, sendUnknown : BOOLEAN, sendAll : BOOLEAN,
        excludes : SUBSET {f \in excludes : f.metrics # <<>> \/ DOMAIN f.dims # {}}]

-----------------------------------------------------------------------------
\* A metric that EnabledMetrics, which knows no dimensions, leaves out would not
\* be sent with any dimensions either: no group is left uncollected that has
\* datapoints to send.  Optional keys are again an exception.
LeftOutNeverSent ==
    (\A k \in DOMAIN dimFilter : ~dimFilter[k].okMissing) =>
        \A mon \in Monitors : \A m \in LeftOut(mon), dims \in DimMaps :
            FilterSetMatches(mon, [metric |-> m, dims |-> dims]) = {TRUE}
=============================================================================
