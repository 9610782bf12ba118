-------------------------- MODULE MCConfiguration --------------------------
(***************************************************************************)
(* How a configuration comes about and what it lets through: the settings, *)
(* the expansion of strings, the encoding of discovery properties,         *)
(* discovery mode, the converters, and the filters.  A behaviour is about  *)
(* one of them.  Strings, texts and filters grow by one character or item  *)
(* in a step, so that every one up to a length is reached.                 *)
(***************************************************************************)
EXTENDS ExpandString, Wordify, Converters, Discoverer, Settings, Filters, SequencesExt

CONSTANTS MaxString, MaxText, MaxItems, r1, r2, o1, o2

VARIABLES mode, str, text

algorithmVars == <<mode, str, text, convVars, settingsVars, filterVars>>
allVars == <<algorithmVars, vars>>

-----------------------------------------------------------------------------
(* Discovery: a receiver with a default config, a block and a rule for     *)
(* each observer, and one that only the first observer has a rule and a    *)
(* block for.                                                              *)

MCReceivers == {r1, r2}
MCObservers == {o1, o2}
MCRule == {<<r1, o1>>, <<r1, o2>>, <<r2, o1>>}
MCBlock == {<<r1, o1>>, <<r1, o2>>, <<r2, o1>>}
MCDefault == {r1}

-----------------------------------------------------------------------------
(* The configurations.  A fragment is a set of variants of one part of a   *)
(* configuration; two fragments vary at a time.                            *)

Key(s, t, n, f) == <<s, t, n, f>>
Maybe(k, values) == {<<>>} \union {k :> v : v \in values}
Both(F, G) == {f @@ g : f \in F, g \in G}

OtlpFragment ==
    Both(Both(Maybe(Key("exporters", "otlp", "a", "insecure"), {"old"}),
              Maybe(Key("exporters", "otlp", "a", "insecure_skip_verify"), {"other"})),
         Maybe(Key("exporters", "otlp", "a", "tls::insecure"), {"new"}))
HecFragment ==
    Both(Both(Maybe(Key("exporters", "splunk_hec", "", "ca_file"), {"old"}),
              Maybe(Key("exporters", "splunk_hec", "a-b", "ca_file"), {"old"})),
         Maybe(Key("exporters", "splunk_hec", "", "tls::ca_file"), {"new"}))
LoggingFragment ==
    Both(Maybe(Key("exporters", "logging", "a-b", "loglevel"), {"debug", "info", "warn", "unreadable"}),
         Maybe(Key("exporters", "logging", "a-b", "verbosity"), {"set"}))
TaggerNames == {"", "a", "a-b"}
TaggerFragment ==
    LET def(t, n) == Maybe(Key("processors", t, n, "passthrough"), {t})
        entries == {<<t, n>> : t \in {"k8s_tagger", "k8sattributes"}, n \in TaggerNames}
        lists == {<<e, <<"batch", "">>>> : e \in entries}
                    \union {<<<<"k8s_tagger", "a">>, e>> : e \in entries}
    IN Both(Both(Both(def("k8s_tagger", ""), def("k8s_tagger", "a")), def("k8s_tagger", "a-b")),
            Both(def("k8sattributes", "a"),
                 Maybe(Key("service", "metrics", "", "processors"), lists)))
LimiterFragment ==
    Both(Maybe(Key("processors", "memory_limiter", "", "ballast_size_mib"), {"size"}),
         Maybe(Key("processors", "memory_limiter", "a-b", "ballast_size_mib"), {"size"}))
DetectorFragment ==
    Maybe(Key("processors", "resourcedetection", "a-b", "detectors"),
          UNION {[1..n -> {"gce", "gke", "gcp", "system"}] : n \in 0..3})
KubeletFragment ==
    LET filter(e, f) == Maybe(Key("exporters", "signalfx", e, f), {{"node"}, {"node", "pod"}})
    IN Both(Both(Both(Both(filter("", "exclude_metrics"), filter("", "include_metrics")),
                      Both(filter("a", "exclude_metrics"), filter("a", "include_metrics"))),
                 Maybe(Key("receivers", "signalfx", "", "endpoint"), {"host"})),
            Both(Maybe(Key("receivers", "kubeletstats", "", "interval"), {"10s"}),
                 Maybe(Key("receivers", "kubeletstats", "", "node"), {TRUE, FALSE})))
JobFragment ==
    LET lists == {<<>>, <<"rpc">>, <<"batch", "user", "rpc">>}
    IN Both(Maybe(Key("receivers", "prometheus", "internal", "otel-job"), lists),
            Maybe(Key("receivers", "prometheus", "internal", "job"), lists))
ServiceFragment ==
    LET lists == {<<>>, <<"x">>, <<"y", "x">>}
    IN Both(Both(Maybe(Extensions, lists), Maybe(DiscoExtensions, lists)),
            Both(Maybe(MetricsReceivers, {<<"x">>}), Maybe(DiscoReceivers, lists)))

Fragments == <<OtlpFragment, HecFragment, LoggingFragment, TaggerFragment, LimiterFragment,
               DetectorFragment, KubeletFragment, JobFragment, ServiceFragment>>

\* The part that varies, with --set for the keys that have two names.
SetKeys ==
    LET values == {"set"}
    IN Both(Both(Maybe(Key("exporters", "otlp", "a", "insecure"), values),
                 Maybe(Key("exporters", "otlp", "a", "tls::insecure"), values)),
            Both(Maybe(Key("exporters", "splunk_hec", "", "tls::ca_file"), values),
                 Maybe(Extensions, {<<"z">>})))

SetSwitches ==
    Both(Maybe(Key("receivers", "kubeletstats", "", "node"), {FALSE}),
         Maybe(Key("exporters", "signalfx", "a", "include_metrics"), {{"pod"}}))

MCInputs ==
    UNION {{[conf |-> c, set |-> <<>>] : c \in Fragments[i]} : i \in 3..9}
    \union {[conf |-> c, set |-> s] : c \in Both(OtlpFragment, HecFragment), s \in SetKeys}
    \union {[conf |-> c, set |-> s] : c \in ServiceFragment, s \in SetKeys}
    \union {[conf |-> c, set |-> s] : c \in KubeletFragment, s \in SetSwitches}

\* The keys in lexical order of their flat form.
MCSortedKeys == <<
    Key("exporters", "logging", "a-b", "loglevel"),
    Key("exporters", "logging", "a-b", "verbosity"),
    Key("exporters", "otlp", "a", "insecure"),
    Key("exporters", "otlp", "a", "insecure_skip_verify"),
    Key("exporters", "otlp", "a", "tls::insecure"),
    Key("exporters", "signalfx", "a", "exclude_metrics"),
    Key("exporters", "signalfx", "a", "include_metrics"),
    Key("exporters", "signalfx", "", "exclude_metrics"),
    Key("exporters", "signalfx", "", "include_metrics"),
    Key("exporters", "splunk_hec", "a-b", "ca_file"),
    Key("exporters", "splunk_hec", "", "ca_file"),
    Key("exporters", "splunk_hec", "", "tls::ca_file"),
    Key("processors", "k8s_tagger", "a-b", "passthrough"),
    Key("processors", "k8s_tagger", "a", "passthrough"),
    Key("processors", "k8s_tagger", "", "passthrough"),
    Key("processors", "k8sattributes", "a-b", "passthrough"),
    Key("processors", "k8sattributes", "a", "passthrough"),
    Key("processors", "k8sattributes", "", "passthrough"),
    Key("processors", "memory_limiter", "a-b", "ballast_size_mib"),
    Key("processors", "memory_limiter", "", "ballast_size_mib"),
    Key("processors", "resourcedetection", "a-b", "detectors"),
    Key("receivers", "kubeletstats", "", "interval"),
    Key("receivers", "kubeletstats", "", "node"),
    Key("receivers", "kubeletstats", "", "pod"),
    Key("receivers", "prometheus", "internal", "job"),
    Key("receivers", "prometheus", "internal", "otel-job"),
    Key("receivers", "signalfx", "", "endpoint"),
    Key("service", "", "", "extensions"),
    Key("service", "", "", "extensions/splunk.discovery"),
    Key("service", "metrics", "", "processors"),
    Key("service", "metrics", "", "receivers"),
    Key("service", "", "", "receivers/splunk.discovery"),
    Key("service", "telemetry", "", "splunk_autodiscovery")>>

-----------------------------------------------------------------------------
(* The command lines and environments                                      *)

Unset == [config |-> <<>>, envConfig |-> None, envYaml |-> FALSE, realm |-> TRUE, token |-> TRUE,
          gatewayExists |-> TRUE, listen |-> None, propertiesFile |-> FALSE, properties |-> FALSE,
          configD |-> FALSE, discovery |-> FALSE, total |-> 0, ballast |-> 0, limit |-> 0]

MCArguments ==
    {[Unset EXCEPT !.config = c, !.envConfig = e, !.envYaml = y, !.realm = r, !.token = t,
                   !.gatewayExists = g] :
        c \in {<<>>} \union {<<l>> : l \in Locations}, e \in {None} \union Files,
        y \in BOOLEAN, r \in BOOLEAN, t \in BOOLEAN, g \in BOOLEAN}
    \union {[Unset EXCEPT !.config = <<l, k>>, !.listen = i] :
                l \in Locations, k \in Locations, i \in {None, "set"}}
    \union {[Unset EXCEPT !.config = c, !.envConfig = e, !.envYaml = y, !.propertiesFile = p,
                          !.properties = s, !.configD = d, !.discovery = o] :
                c \in {<<>>, <<<<"plain", "own">>>>}, e \in {None, "own"}, y \in BOOLEAN,
                p \in BOOLEAN, s \in BOOLEAN, d \in BOOLEAN, o \in BOOLEAN}
    \union {[Unset EXCEPT !.total = t, !.ballast = b, !.limit = l] :
                t \in {0, 98, 512} \union 99..140, b \in {0, 32, 33, 34, 256}, l \in {0, 66, 460}}

-----------------------------------------------------------------------------
CodePoints == {95, 120, 50, 102, 47, 233, 128512}

\* A behaviour that is not about them has a conversion that does not end and a
\* filter with an optional key, of which nothing is said.
NoConversion ==
    given = [conf |-> <<>>, set |-> <<>>] /\ confMap = <<>> /\ ran = 0
Optional == "key" :> [items |-> <<>>, okMissing |-> TRUE]

MCInit ==
    /\ str = <<>> /\ text = <<>> /\ items = <<>> /\ Init
    /\ mode \in {"expand", "wordify", "discover", "convert", "settings", "filter"}
    /\ IF mode = "convert" THEN ConvInit ELSE NoConversion
    /\ IF mode = "settings" THEN SettingsInit ELSE args = None /\ settings = NotNew
    /\ IF mode = "filter" THEN dimFilter \in DimFilters ELSE dimFilter = Optional

GrowString ==
    /\ mode = "expand" /\ Len(str) < MaxString
    /\ \E c \in Characters : str' = Append(str, c)
    /\ UNCHANGED <<mode, text, convVars, settingsVars, filterVars, vars>>

GrowText ==
    /\ mode = "wordify" /\ Len(text) < MaxText
    /\ \E c \in CodePoints : text' = Append(text, c)
    /\ UNCHANGED <<mode, str, convVars, settingsVars, filterVars, vars>>

ConvertStep ==
    /\ mode = "convert" /\ Convert
    /\ UNCHANGED <<mode, str, text, settingsVars, filterVars, vars>>

SettingsStep ==
    /\ mode = "settings" /\ New
    /\ UNCHANGED <<mode, str, text, convVars, filterVars, vars>>

\* The longest lists of items go with no filter over dimensions.
FilterStep ==
    /\ mode = "filter" /\ Len(items) < IF dimFilter = <<>> THEN MaxItems ELSE 1
    /\ AddItem
    /\ UNCHANGED <<mode, str, text, convVars, settingsVars, vars>>

DiscoverStep == mode = "discover" /\ Next /\ UNCHANGED algorithmVars

MCNext ==
    GrowString \/ GrowText \/ ConvertStep \/ SettingsStep \/ FilterStep \/ DiscoverStep

MCSpec == MCInit /\ [][MCNext]_allVars

-----------------------------------------------------------------------------
ConvertWith(names, c) == FoldLeft(LAMBDA d, name : Apply(name, d), c, names)

\* A converted configuration stays as it is when the converters (other than
\* that for --set) run again.  DryRun runs them again, on maps whose lists
\* they have already changed in place, and what it prints is meant to be used
\* as a configuration.
ConvertIdempotent == Converted => ConvertWith(Tail(ConfMapConverters), confMap) = confMap

\* No "$" follows another, or names a variable.
SingleDollars(s) ==
    \A i \in 2..Len(s) : s[i] = "$" =>
        s[i - 1] # "$" /\ ~(i > 2 /\ s[i - 1] = "{" /\ s[i - 2] = "$")

\* Doubling every "$" of a string protects it: resolveStringValue restores the
\* string, whatever follows the "$".  While the older form of the directives
\* is accepted (the default) this is so of strings without a ":" only, for
\* "$${source:selector}" then is a directive.  A string that neither escapes
\* nor names a config source is expanded as os.ExpandEnv does it, the end of
\* the string and brackets that are empty or do not close included.
EscapeRestores ==
    LET plain == Find(str, 1, ":") = 0
    IN /\ \A compatible \in BOOLEAN :
             (compatible => plain) => ResolveStringValue(Doubled(str), compatible) = str
       /\ plain /\ SingleDollars(str) => ResolveStringValue(str, TRUE) = OsExpand(str)

\* unwordify inverts wordify: two properties never share an environment
\* variable, whatever characters they have.
WordifyInverts == UnwordifyText(WordifyText(text)) = text
=============================================================================
