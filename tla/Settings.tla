------------------------------ MODULE Settings ------------------------------
(***************************************************************************)
(* The collector's settings (internal/settings/settings.go): New checks    *)
(* the command line and the environment, chooses the configuration, and    *)
(* sets variables of the environment; ResolverURIs then tells the service  *)
(* where to find the configuration.                                        *)
(*                                                                         *)
(* A location of --config is a form and a file.  The forms are a plain     *)
(* path, a file: URI, a path that is not clean, and URIs of another and of *)
(* an unsupported provider.  The file of --discovery-properties is there.  *)
(***************************************************************************)
EXTENDS Naturals, Sequences

CONSTANT Arguments  \* the command lines and environments to start from

None == "none"
Gateway == "gateway"   \* DefaultGatewayConfig
Files == {Gateway, "otlp", "agent", "own", "missing"}
FileForms == {"plain", "file", "unclean"}
Locations == (FileForms \X Files) \union {<<"env", "X">>, <<"unsupported", "X">>}
FromFlags == {"propertiesFile", "properties", "configD", "discovery"}

ASSUME SettingsAssumption ==
    \A in \in Arguments : in.config \in Seq(Locations) /\ \A f \in FromFlags : in[f] \in BOOLEAN

VARIABLES args,     \* the command line and the environment at the start
          settings  \* what New has returned, with the environment it leaves

settingsVars == <<args, settings>>
NotNew == [ok |-> FALSE, paths |-> <<>>, ballast |-> 0, limit |-> 0, listen |-> None]

SettingsInit == args \in Arguments /\ settings = NotNew

-----------------------------------------------------------------------------
(* Choosing and checking the configuration                                 *)

Exists(file, in) == file # "missing" /\ (file = Gateway => in.gatewayExists)

\* confirmRequiredEnvVarsForDefaultConfigs: paths are compared as they are.
Required(paths, in) ==
    (\E p \in paths : p \in {<<"plain", Gateway>>, <<"plain", "otlp">>}) => in.realm /\ in.token

\* checkInputConfigs: the paths of the locations that are files.
InputFiles(in) ==
    {<<IF in.config[i][1] = "unclean" THEN "unclean" ELSE "plain", in.config[i][2]>> :
        i \in {j \in DOMAIN in.config : in.config[j][1] \in FileForms}}
CheckInputConfigs(in) ==
    (\A p \in InputFiles(in) : Exists(p[2], in)) /\ Required(InputFiles(in), in)

\* Mutant: the inline configuration has priority over the path.
CheckConfigYamlFirst(in) ==
    CASE in.config # <<>> -> [ok |-> CheckInputConfigs(in), paths |-> in.config]
      [] in.config = <<>> /\ in.envYaml -> [ok |-> TRUE, paths |-> <<>>]
      [] OTHER -> [ok |-> in.envConfig # None /\ Exists(in.envConfig, in),
                   paths |-> <<<<"plain", in.envConfig>>>>]

\* checkConfig, with checkConfigPathEnvVar and getExistingDefaultConfigPath.
CheckConfig(in) ==
    LET single(file) == [ok |-> Exists(file, in) /\ Required({<<"plain", file>>}, in),
                         paths |-> <<<<"plain", file>>>>]
    IN CASE in.config # <<>> -> [ok |-> CheckInputConfigs(in), paths |-> in.config]
         [] in.config = <<>> /\ in.envConfig # None -> single(in.envConfig)
         [] in.config = <<>> /\ in.envConfig = None /\ in.envYaml -> [ok |-> TRUE, paths |-> <<>>]
         [] OTHER -> single(Gateway)

-----------------------------------------------------------------------------
(* Memory, in MiB; 0 is a variable that is not set                         *)

Total(in) == IF in.total = 0 THEN 512 ELSE in.total
\* setMemoryBallast and setMemoryLimit.
Ballast(in) == IF in.ballast = 0 THEN (Total(in) * 33) \div 100 ELSE in.ballast
Limit(in) == IF in.limit = 0 THEN (Total(in) * 90) \div 100 ELSE in.limit

\* The conditions of checkRuntimeParams; log.Fatalf is a failure too.
MemoryAccepted(in) ==
    /\ in.total = 0 \/ in.total >= 99
    /\ in.ballast = 0 \/ in.ballast >= 33
    /\ 2 * Ballast(in) <= Limit(in)

-----------------------------------------------------------------------------
\* defaultListenAddr.
ListenAddr(paths) ==
    IF \E i \in DOMAIN paths : paths[i] \in FileForms \X {"agent"} THEN "loopback" ELSE "all"

\* New, with checkRuntimeParams and setDefaultEnvVars.
New ==
    /\ settings = NotNew
    /\ LET checked == CheckConfig(args)
       IN settings' =
            [ok |-> checked.ok /\ MemoryAccepted(args), paths |-> checked.paths,
             ballast |-> Ballast(args), limit |-> Limit(args),
             listen |-> IF args.listen = None THEN ListenAddr(checked.paths) ELSE args.listen]
    /\ UNCHANGED args

\* ResolverURIs: the locations of --config, or those that New put in their place,
\* then what the flags for discovery ask for.
Asked(in, flag) == IF in[flag] THEN <<<<flag, "">>>> ELSE <<>>
ResolverURIs ==
    LET uris == settings.paths \o Asked(args, "propertiesFile") \o Asked(args, "properties")
                    \o Asked(args, "configD") \o Asked(args, "discovery")
    IN IF uris = <<>> /\ args.envYaml THEN <<<<"env", "SPLUNK_CONFIG_YAML">>>> ELSE uris

-----------------------------------------------------------------------------
\* Where the documented priority has the configuration come from.
Prior ==
    CASE args.config # <<>> -> args.config
      [] args.config = <<>> /\ args.envConfig # None -> <<<<"plain", args.envConfig>>>>
      [] args.config = <<>> /\ args.envConfig = None /\ args.envYaml ->
            <<<<"env", "SPLUNK_CONFIG_YAML">>>>
      [] OTHER -> <<<<"plain", Gateway>>>>

\* The URIs are those given, in their order, then some for flags.
Told(first) ==
    /\ Len(first) <= Len(ResolverURIs)
    /\ \A i \in 1..Len(ResolverURIs) :
          IF i <= Len(first) THEN ResolverURIs[i] = first[i] ELSE ResolverURIs[i][1] \in FromFlags

\* What the service is told to resolve is what the documented priority says and
\* what checkConfig has checked, for every mix of flags and variables.  The
\* exception: flags for discovery make it forget SPLUNK_CONFIG_YAML.
ByPriority ==
    settings.ok =>
        \/ Told(Prior)
        \/ settings.paths = <<>> /\ (\E f \in FromFlags : args[f]) /\ Told(<<>>)

=============================================================================
