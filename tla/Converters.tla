----------------------------- MODULE Converters -----------------------------
(***************************************************************************)
(* The converters that every configuration passes through                  *)
(* (internal/configconverter, in the order of ConfMapConverters of         *)
(* internal/settings/settings.go).  A configuration is a function on its   *)
(* keys in confmap's flat form.  A key is <<section, type, name, field>>,  *)
(* "exporters::otlp/a::insecure" is <<"exporters", "otlp", "a",            *)
(* "insecure">>.  Most converters copy the keys one by one, in the order   *)
(* of AllKeys, into a new configuration: of several keys that are renamed  *)
(* to one the last wins.                                                   *)
(***************************************************************************)
EXTENDS Naturals, Sequences

CONSTANTS SortedKeys,   \* all keys there can be, in lexical order
          Inputs        \* the configurations and --set properties to convert

VARIABLES
    given,   \* [conf, set]: the configuration and the properties of --set
    confMap, \* the configuration so far
    ran      \* how many of the converters have run

convVars == <<given, confMap, ran>>

Section(k) == k[1]
Type(k) == k[2]
Name(k) == k[3]
Field(k) == k[4]
Has(k, type, field) == Type(k) = type /\ Field(k) = field

\* \w+ of the expressions matches the whole name, or a prefix of it.
IsWord(name) == name # "a-b"
WordPrefix(name) == IF IsWord(name) THEN name ELSE "a"

KeyRank(k) == CHOOSE i \in DOMAIN SortedKeys : SortedKeys[i] = k

\* A new configuration with the values of the keys that are kept, under their
\* new keys: the last one wins.
CopyKeys(kept, new, value) ==
    LET last(n) == CHOOSE k \in kept :
                       /\ new[k] = n
                       /\ \A k2 \in kept \ {k} : new[k2] = n => KeyRank(k2) < KeyRank(k)
    IN [n \in {new[k] : k \in kept} |-> value[last(n)]]

\* confmap.Conf.Merge: the second configuration wins.
Merge(c, d) == [k \in DOMAIN c \union DOMAIN d |-> IF k \in DOMAIN d THEN d[k] ELSE c[k]]

-----------------------------------------------------------------------------
(* The converters                                                          *)

\* The properties of --set are merged into the configuration.
OverwriteProperties(c) == Merge(c, given.set)

Extensions == <<"service", "", "", "extensions">>
MetricsReceivers == <<"service", "metrics", "", "receivers">>
DiscoExtensions == <<"service", "", "", "extensions/splunk.discovery">>
DiscoReceivers == <<"service", "", "", "receivers/splunk.discovery">>
Resource == <<"service", "telemetry", "", "splunk_autodiscovery">>

InList(e, list) == \E i \in DOMAIN list : list[i] = e

AppendUnique(components, disco) ==
    components \o SelectSeq(disco, LAMBDA e : ~InList(e, components))

ListOf(c, k) == IF k \in DOMAIN c THEN c[k] ELSE <<>>

\* What the discovery provider found joins the service.
Discovery(c) ==
    LET found == {DiscoExtensions, DiscoReceivers} \intersect DOMAIN c
        joined(k, disco) ==
            IF ListOf(c, disco) = <<>> THEN {}
            ELSE {<<k, AppendUnique(ListOf(c, k), c[disco])>>}
        new == joined(Extensions, DiscoExtensions)
                 \union joined(MetricsReceivers, DiscoReceivers) \union {<<Resource, "true">>}
        rest == [k \in DOMAIN c \ found |-> c[k]]
    IN IF found = {} THEN c
       ELSE Merge(rest, [k \in {p[1] : p \in new} |-> (CHOOSE p \in new : p[1] = k)[2]])

RemoveBallastKey(c) ==
    LET kept == {k \in DOMAIN c :
                    ~(Has(k, "memory_limiter", "ballast_size_mib") /\ IsWord(Name(k)))}
    IN CopyKeys(kept, [k \in kept |-> k], c)

\* The expression has no end: it also matches insecure_skip_verify.
OtlpInsecure(k) ==
    Type(k) = "otlp" /\ IsWord(Name(k)) /\ Field(k) \in {"insecure", "insecure_skip_verify"}

MoveOTLPInsecureKey(c) ==
    CopyKeys(DOMAIN c,
             [k \in DOMAIN c |-> IF OtlpInsecure(k)
                                 THEN <<Section(k), "otlp", Name(k), "tls::insecure">> ELSE k],
             c)

MoveHecTLS(c) ==
    CopyKeys(DOMAIN c,
             [k \in DOMAIN c |-> IF Has(k, "splunk_hec", "ca_file") /\ IsWord(Name(k))
                                 THEN <<Section(k), Type(k), Name(k), "tls::ca_file">> ELSE k],
             c)

\* An entry of a pipeline is a pair <<type, name>>.
PipelineEntry(e) == IF e[1] = "k8s_tagger" THEN <<"k8sattributes", WordPrefix(e[2])>> ELSE e

\* A key keeps the whole name, an entry only the word it starts with.
RenameK8sTagger(c) ==
    CopyKeys(DOMAIN c,
             [k \in DOMAIN c |-> IF Type(k) = "k8s_tagger"
                                 THEN <<Section(k), "k8sattributes", Name(k), Field(k)>> ELSE k],
             [k \in DOMAIN c |-> IF Field(k) = "processors"
                                 THEN [i \in DOMAIN c[k] |-> PipelineEntry(c[k][i])] ELSE c[k]])

Old(detector) == detector \in {"gce", "gke"}

\* The first of the old detectors becomes "gcp", further ones are dropped.
Normalize(detectors) ==
    LET first(i) == Old(detectors[i]) /\ \A j \in 1..(i - 1) : ~Old(detectors[j])
        new == [i \in DOMAIN detectors |-> IF first(i) THEN "gcp" ELSE detectors[i]]
    IN SelectSeq(new, LAMBDA d : ~Old(d))

NormalizeGcp(c) ==
    [k \in DOMAIN c |-> IF Has(k, "resourcedetection", "detectors")
                        THEN Normalize(c[k]) ELSE c[k]]

MapLevel(level) ==
    CASE level = "debug" -> "detailed" [] level = "info" -> "normal" [] OTHER -> "basic"

\* A loglevel gives way to a verbosity, and stays when it cannot be read.
LogLevelToVerbosity(c) ==
    LET verbosity(k) == <<Section(k), Type(k), Name(k), "verbosity">>
        old(k) == Has(k, "logging", "loglevel")
        moved(k) == old(k) /\ verbosity(k) \notin DOMAIN c /\ c[k] # "unreadable"
    IN CopyKeys({k \in DOMAIN c : ~(old(k) /\ verbosity(k) \in DOMAIN c)},
                [k \in DOMAIN c |-> IF moved(k) THEN verbosity(k) ELSE k],
                [k \in DOMAIN c |-> IF moved(k) THEN MapLevel(c[k]) ELSE c[k]])

-----------------------------------------------------------------------------
(* Metrics that are dropped at the receiver                                *)

UtilizationMetrics == {"node", "pod"}

\* FilterSet.Matches: the exporter drops the metric.  Without exclude_metrics
\* the default ones are excluded.
Excludes(c, exporter, metric) ==
    LET filter(field) == LET k == <<"exporters", "signalfx", exporter, field>>
                         IN IF k \in DOMAIN c THEN c[k] ELSE {}
        excluded == IF filter("exclude_metrics") = {} THEN UtilizationMetrics
                    ELSE filter("exclude_metrics")
    IN metric \in excluded /\ metric \notin filter("include_metrics")

\* The components of a type that a section of the configuration has.
NamesOf(c, section, type) ==
    {Name(k) : k \in {k2 \in DOMAIN c : Section(k2) = section /\ Type(k2) = type}}

SignalfxExporters(c) == NamesOf(c, "exporters", "signalfx")
KubeletReceivers(c) == NamesOf(c, "receivers", "kubeletstats")

\* Mutant: one exporter that drops the metric is enough.
DropsSome(c, metric) == \E e \in SignalfxExporters(c) : Excludes(c, e, metric)

Drops(c, metric) == \A e \in SignalfxExporters(c) : Excludes(c, e, metric)

\* The receiver's switch for a metric: TRUE and FALSE as the user has set it.
Switch(receiver, metric) == <<"receivers", "kubeletstats", receiver, metric>>

DisableKubeletUtilizationMetrics(c) ==
    LET off == {Switch(r, m) : r \in KubeletReceivers(c),
                               m \in {x \in UtilizationMetrics : Drops(c, x)}}
    IN IF SignalfxExporters(c) = {} THEN c
       ELSE Merge([k \in off |-> FALSE], c)

\* The patterns a job of the collector's own receiver does not have yet are
\* appended to its relabel configs; other jobs are left alone.
ExcessivePatterns == <<"rpc", "http", "batch">>

\* Mutant: they are appended every time.
AppendPatterns(c) ==
    [k \in DOMAIN c |-> IF Has(k, "prometheus", "otel-job") /\ Name(k) = "internal"
                        THEN c[k] \o ExcessivePatterns ELSE c[k]]

DisableExcessiveInternalMetrics(c) ==
    [k \in DOMAIN c |-> IF Has(k, "prometheus", "otel-job") /\ Name(k) = "internal"
                        THEN AppendUnique(c[k], ExcessivePatterns) ELSE c[k]]

-----------------------------------------------------------------------------
\* With --no-convert-config the conversion ends after the first two.
ConfMapConverters ==
    <<"OverwriteProperties", "Discovery", "RemoveBallastKey", "MoveOTLPInsecureKey",
      "MoveHecTLS", "RenameK8sTagger", "NormalizeGcp", "LogLevelToVerbosity",
      "DisableKubeletUtilizationMetrics", "DisableExcessiveInternalMetrics">>

Apply(name, c) ==
    CASE name = "OverwriteProperties" -> OverwriteProperties(c)
      [] name = "Discovery" -> Discovery(c)
      [] name = "RemoveBallastKey" -> RemoveBallastKey(c)
      [] name = "MoveOTLPInsecureKey" -> MoveOTLPInsecureKey(c)
      [] name = "MoveHecTLS" -> MoveHecTLS(c)
      [] name = "RenameK8sTagger" -> RenameK8sTagger(c)
      [] name = "NormalizeGcp" -> NormalizeGcp(c)
      [] name = "LogLevelToVerbosity" -> LogLevelToVerbosity(c)
      [] name = "DisableKubeletUtilizationMetrics" -> DisableKubeletUtilizationMetrics(c)
      [] name = "DisableExcessiveInternalMetrics" -> DisableExcessiveInternalMetrics(c)

ConvInit ==
    /\ given \in Inputs
    /\ confMap = given.conf
    /\ ran = 0

\* The resolver calls the converters one after the other.
Convert ==
    /\ ran < Len(ConfMapConverters)
    /\ confMap' = Apply(ConfMapConverters[ran + 1], confMap)
    /\ ran' = ran + 1
    /\ UNCHANGED given

-----------------------------------------------------------------------------
Converted == ran = Len(ConfMapConverters)

\* A utilization metric that one of the exporters would send is never switched
\* off at a receiver by a converter, and one that all of them drop is, unless
\* the user has set the switch, in the configuration or by --set.
KubeletSwitches ==
    LET conf == Merge(given.conf, given.set)
        exporters == SignalfxExporters(conf)
    IN Converted /\ exporters # {} =>
          \A r \in KubeletReceivers(conf), m \in UtilizationMetrics :
             IF Switch(r, m) \in DOMAIN conf
             THEN Switch(r, m) \in DOMAIN confMap /\ confMap[Switch(r, m)] = conf[Switch(r, m)]
             ELSE Switch(r, m) \notin DOMAIN confMap <=> \E e \in exporters : ~Excludes(conf, e, m)
=============================================================================
