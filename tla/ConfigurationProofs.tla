------------------------ MODULE ConfigurationProofs -------------------------
(***************************************************************************)
(* How a configuration comes about: discovery mode, for any receivers,     *)
(* observers, rules and numbers of records per call; the settings, for any *)
(* command lines and environments; the filters of a monitor, for any lists *)
(* of items; and the converters, for any configurations.                   *)
(***************************************************************************)
EXTENDS Discoverer, Settings, Filters, Converters, SequenceTheorems, TLAPS

-----------------------------------------------------------------------------
(* Discovery mode                                                          *)

StatusOrNone == Statuses \union {"none"}

\* The last record of a call decides.
LastOf(recs) == recs[Len(recs)]

\* The last record of an evaluation has a status.
LEMMA RecordsLast == \A recs \in Records : LastOf(recs) \in Statuses
<1> SUFFICES ASSUME NEW n \in 1 .. MaxRecords, NEW recs \in [1 .. n -> Statuses]
             PROVE  LastOf(recs) \in Statuses
  BY Zenon DEF Records
<1>1. n \in Nat /\ n >= 1
  BY DiscovererAssumption
<1>2. Len(recs) = n
  BY <1>1
<1> QED
  BY <1>1, <1>2 DEF LastOf

\* determineCurrentStatus never goes back from success or from partial
\* success, and succeeds only on success.
LEMMA StatusMoves ==
    ASSUME NEW c \in StatusOrNone, NEW recs \in Records
    PROVE  /\ AfterRecords(c, recs) \in StatusOrNone
           /\ Rank(AfterRecords(c, recs)) >= Rank(c)
           /\ AfterRecords(c, recs) = "successful" <=>
                c = "successful" \/ LastOf(recs) = "successful"
<1>1. LastOf(recs) \in Statuses
  BY Zenon, RecordsLast
<1> QED
  BY <1>1 DEF LastOf, AfterRecords, DetermineCurrentStatus, Rank, StatusOrNone, Statuses

\* Statuses are ranked by numbers.
LEMMA Ranks == \A s \in StatusOrNone : Rank(s) \in Nat
  BY Zenon DEF Rank, StatusOrNone, Statuses

\* Entries exist only for receivers that are configured for a created
\* observer; a discovered config comes from an entry; what was built has
\* succeeded and has a config.
Configured(r, o) == r \in Enabled /\ o \in created /\ Used(r, o)

Built ==
    /\ \A r \in Receivers, o \in Observers : entry[r][o] # NoEntry => Configured(r, o)
    /\ \A r \in Receivers : conf[r] # NoConf => Configured(r, conf[r].src)
    /\ \A r \in out.receivers : rstat[r] = "successful" /\ conf[r] # NoConf

\* The receivers with a success are those of the successes reported, each of
\* which counts for the observer named with it and came with a config.
Counted ==
    /\ \A r \in Receivers : rstat[r] = "successful" => \E t \in okBy : t[1] = r
    /\ \A t \in okBy : /\ rstat[t[1]] = "successful" /\ conf[t[1]] # NoConf
                       /\ ostat[t[3]] = "successful"

IInv == TypeOK /\ Counted /\ Built /\ SuccessEmbedded

\* The initial states satisfy the inductive invariant.
LEMMA InitIInv == Init => IInv
<1> SUFFICES ASSUME Init PROVE IInv
  BY Zenon
<1>1. TypeOK
  BY Zenon DEF Init, TypeOK, NoEntry, NoConf, NoOutput, ObserverIDs
<1>2. Counted
  BY Zenon DEF Init, Counted
<1>3. Built
  BY Zenon DEF Init, Built, NoOutput
<1>4. phase # "done"
  BY DEF Init
<1> QED
  BY Zenon, <1>1, <1>2, <1>3, <1>4 DEF IInv, SuccessEmbedded

\* One turn of the loop over the observers keeps the entries well typed.
LEMMA CreateIInv == ASSUME IInv, NEW p \in Observers, CreateObserver(p) PROVE IInv'
<1> USE DEF IInv
<1>1. \A r \in Receivers : MergedDefault(r, p) \in SUBSET (Observers \union {"default"})
  BY Zenon DEF TypeOK, MergedDefault
<1>2. \A r \in Receivers : Entry(r, p) \in [kind : {"none", "copy", "alias"},
                                           blocks : SUBSET (Observers \union {"default"})]
  BY Zenon, <1>1 DEF Entry, NoEntry
<1>3. \A r \in Receivers, o \in Observers :
        entry'[r][o] = IF o = p THEN Entry(r, p) ELSE entry[r][o]
  BY Zenon DEF CreateObserver, TypeOK
<1>4. dflt' \in [Receivers -> SUBSET (Observers \union {"default"})]
  BY Zenon, <1>1 DEF CreateObserver
<1>5. entry' \in [Receivers -> [Observers -> [kind : {"none", "copy", "alias"},
                                            blocks : SUBSET (Observers \union {"default"})]]]
  BY Zenon, <1>2 DEF CreateObserver, TypeOK
<1>6. TypeOK'
  BY Zenon, <1>4, <1>5 DEF CreateObserver, TypeOK, found
<1>7. Counted' /\ phase' # "done"
  BY DEF CreateObserver, Counted, found
<1>8. Built'
  <2>1. \A r \in Receivers : Entry(r, p) # NoEntry => r \in Enabled /\ Used(r, p)
    BY Zenon DEF Entry
  <2>2. created' = created \union {p}
    BY Zenon DEF CreateObserver
  <2>3. \A r \in Receivers, o \in Observers : entry'[r][o] # NoEntry => Configured(r, o)'
    BY Zenon, <1>3, <2>1, <2>2 DEF Built, Configured, Used
  <2> QED
    BY Zenon, <2>2, <2>3 DEF CreateObserver, found, Built, Configured, Used
<1> QED
  BY Zenon, <1>6, <1>7, <1>8 DEF SuccessEmbedded

\* A call of ConsumeLogs.
LEMMA ConsumeIInv ==
    ASSUME IInv, NEW d \in Observers, NEW r \in Receivers, NEW o \in ObserverIDs,
           NEW recs \in Records, ConsumeLogs(d, r, o, recs)
    PROVE  /\ IInv'
           /\ \A q \in Receivers : Rank(rstat'[q]) >= Rank(rstat[q])
           /\ \A q \in ObserverIDs : Rank(ostat'[q]) >= Rank(ostat[q])
<1> USE DEF IInv
<1> DEFINE R == AfterRecords(rstat[r], recs)
           O == AfterRecords(ostat[o], recs)
<1>1. rstat[r] \in StatusOrNone /\ ostat[o] \in StatusOrNone
  BY Zenon DEF TypeOK, StatusOrNone
<1>2. /\ R \in StatusOrNone /\ Rank(R) >= Rank(rstat[r])
      /\ R = "successful" <=> rstat[r] = "successful" \/ LastOf(recs) = "successful"
  BY Zenon, <1>1, StatusMoves
<1>3. /\ O \in StatusOrNone /\ Rank(O) >= Rank(ostat[o])
      /\ O = "successful" <=> ostat[o] = "successful" \/ LastOf(recs) = "successful"
  BY Zenon, <1>1, StatusMoves
<1>4. phase' # "done" /\ conf'[r] # NoConf /\ \A q \in Receivers \ {r} : conf'[q] = conf[q]
  BY DEF ConsumeLogs, TypeOK, NoConf
<1>5. \/ rstat' = rstat /\ ostat' = ostat /\ rstat[r] = "successful" /\ ostat[o] = "successful"
      \/ rstat' = [rstat EXCEPT ![r] = R] /\ ostat' = [ostat EXCEPT ![o] = O]
  BY Zenon DEF ConsumeLogs, ObserverAfter
<1> HIDE DEF R, O
<1>6. /\ rstat' \in [Receivers -> StatusOrNone] /\ ostat' \in [ObserverIDs -> StatusOrNone]
      /\ \A q \in Receivers \ {r} : rstat'[q] = rstat[q]
      /\ \A q \in ObserverIDs \ {o} : ostat'[q] = ostat[q]
      /\ \/ /\ rstat'[r] = rstat[r] /\ ostat'[o] = ostat[o]
            /\ rstat[r] = "successful" /\ ostat[o] = "successful"
         \/ rstat'[r] = R /\ ostat'[o] = O
  <2>1. rstat \in [Receivers -> StatusOrNone] /\ ostat \in [ObserverIDs -> StatusOrNone]
    BY Zenon DEF TypeOK, StatusOrNone
  <2>2. CASE rstat' = rstat /\ ostat' = ostat /\ rstat[r] = "successful" /\ ostat[o] = "successful"
    BY Zenon, <2>1, <2>2
  <2>3. CASE rstat' = [rstat EXCEPT ![r] = R] /\ ostat' = [ostat EXCEPT ![o] = O]
    BY Zenon, <2>1, <2>3, <1>2, <1>3
  <2> QED
    BY Zenon, <2>2, <2>3, <1>5
<1>7. /\ \A q \in Receivers : Rank(rstat'[q]) >= Rank(rstat[q])
      /\ \A q \in ObserverIDs : Rank(ostat'[q]) >= Rank(ostat[q])
  <2>1. /\ \A q \in Receivers : Rank(rstat[q]) \in Nat
        /\ \A q \in ObserverIDs : Rank(ostat[q]) \in Nat
    BY Zenon, Ranks DEF TypeOK, StatusOrNone
  <2>2. \A m \in Nat : m >= m
    OBVIOUS
  <2>3. \A q \in Receivers : Rank(rstat'[q]) >= Rank(rstat[q])
    BY Zenon, <1>2, <1>6, <2>1, <2>2
  <2>4. \A q \in ObserverIDs : Rank(ostat'[q]) >= Rank(ostat[q])
    BY Zenon, <1>3, <1>6, <2>1, <2>2
  <2> QED
    BY Zenon, <2>3, <2>4
<1>8. /\ \A q \in Receivers : rstat'[q] = "successful" <=>
            rstat[q] = "successful" \/ (q = r /\ LastOf(recs) = "successful")
      /\ \A q \in ObserverIDs : ostat'[q] = "successful" <=>
            ostat[q] = "successful" \/ (q = o /\ LastOf(recs) = "successful")
  BY Zenon, <1>2, <1>3, <1>6
<1>9. /\ okBy' = IF LastOf(recs) = "successful" THEN okBy \union {<<r, d, o>>} ELSE okBy
      /\ okBy' \subseteq Receivers \X Observers \X ObserverIDs
  <2>1. okBy' = IF LastOf(recs) = "successful" THEN okBy \union {<<r, d, o>>} ELSE okBy
        BY Zenon DEF ConsumeLogs, LastOf
  <2>2. <<r, d, o>> \in Receivers \X Observers \X ObserverIDs
        BY Zenon
  <2> QED BY Zenon, <2>1, <2>2 DEF TypeOK
<1>10. Counted'
  <2>1. ASSUME NEW q \in Receivers, rstat'[q] = "successful"
        PROVE  \E t \in okBy' : t[1] = q
    <3>1. CASE rstat[q] = "successful"
          BY Zenon, <3>1, <1>9 DEF Counted
    <3>2. CASE q = r /\ LastOf(recs) = "successful"
      <4>1. <<r, d, o>> \in okBy' /\ <<r, d, o>>[1] = r
            BY Zenon, <3>2, <1>9
      <4> QED BY Zenon, <3>2, <4>1
    <3> QED BY Zenon, <2>1, <3>1, <3>2, <1>8
  <2>2. ASSUME NEW t \in okBy'
        PROVE  /\ rstat'[t[1]] = "successful" /\ conf'[t[1]] # NoConf
               /\ ostat'[t[3]] = "successful"
    <3>1. t[1] \in Receivers /\ t[3] \in ObserverIDs
          BY Zenon, <1>9
    <3>2. CASE t \in okBy
      <4>1. rstat[t[1]] = "successful" /\ conf[t[1]] # NoConf /\ ostat[t[3]] = "successful"
            BY Zenon, <3>2 DEF Counted
      <4> QED BY Zenon, <3>1, <4>1, <1>4, <1>8
    <3>3. CASE t = <<r, d, o>> /\ LastOf(recs) = "successful"
      <4>1. t[1] = r /\ t[3] = o
            BY Zenon, <3>3
      <4> QED BY Zenon, <3>3, <4>1, <1>4, <1>8
    <3> QED BY Zenon, <3>2, <3>3, <1>9
  <2> QED BY Zenon, <2>1, <2>2 DEF Counted
<1>11. conf' \in [Receivers -> [src : ObserverIDs, form : {"none", "unexpanded", "expanded"}]]
       /\ (\A q \in Receivers \ {r} : conf'[q] = conf[q])
       /\ conf'[r].src = d /\ conf'[r].form # "none"
  BY Zenon DEF ConsumeLogs, TypeOK, ObserverIDs
<1>12. TypeOK'
  BY Zenon, <1>6, <1>9, <1>11 DEF ConsumeLogs, TypeOK, StatusOrNone, setup
<1>13. Built'
  <2>1. Configured(r, d)
    BY Zenon DEF ConsumeLogs, Built
  <2>2. /\ entry' = entry /\ created' = created /\ out' = out
        /\ out.receivers \subseteq Receivers
    BY Zenon DEF ConsumeLogs, setup, TypeOK
  <2>3. \A q \in Receivers : rstat[q] = "successful" => rstat'[q] = "successful"
    BY Zenon, <1>8
  <2>4. conf'[r] # NoConf
    BY <1>11 DEF NoConf
  <2>5. \A q \in Receivers : conf'[q] # NoConf => Configured(q, conf'[q].src)
    BY Zenon, <1>11, <2>1 DEF Built
  <2>6. \A q \in out.receivers : rstat'[q] = "successful" /\ conf'[q] # NoConf
    BY Zenon, <1>11, <2>2, <2>3, <2>4 DEF Built
  <2> QED
    BY Zenon, <2>2, <2>5, <2>6 DEF Built, Configured, Used
<1> QED
  BY Zenon, <1>4, <1>7, <1>10, <1>12, <1>13 DEF SuccessEmbedded

\* The steps that create no entry and consume no record keep the statuses.
Other ==
    \/ \E o \in Observers : SkipObserver(o) \/ StopReceiver(o)
    \/ CreateFails
    \/ \E S \in SUBSET created : StartAll(S)
    \/ NoObservers \/ EndWait \/ DiscoveryConfig

\* Steps that consume no logs keep the invariant and all statuses.
LEMMA OtherIInv == ASSUME IInv, Other PROVE IInv' /\ UNCHANGED <<rstat, ostat>>
<1> USE DEF IInv, setup, found
<1>1. CASE \E o \in Observers : SkipObserver(o)
  BY <1>1 DEF SkipObserver, TypeOK, Counted, Built, Configured, Used, SuccessEmbedded
<1>2. CASE \E o \in Observers : StopReceiver(o)
  BY <1>2 DEF StopReceiver, TypeOK, Counted, Built, Configured, Used, SuccessEmbedded
<1>3. CASE CreateFails
  BY <1>3 DEF CreateFails, TypeOK, Counted, Built, Configured, Used, SuccessEmbedded
<1>4. CASE \E S \in SUBSET created : StartAll(S)
  BY <1>4 DEF StartAll, TypeOK, Counted, Built, Configured, Used, SuccessEmbedded
<1>5. CASE NoObservers
  BY <1>5 DEF NoObservers, TypeOK, Counted, Built, Configured, Used, SuccessEmbedded
<1>6. CASE EndWait
  BY <1>6 DEF EndWait, TypeOK, Counted, Built, Configured, Used, SuccessEmbedded
<1>7. CASE DiscoveryConfig
  <2>1. TypeOK'
    BY Zenon, <1>7 DEF DiscoveryConfig, TypeOK, Embedded
  <2>2. Counted'
    BY Zenon, <1>7 DEF DiscoveryConfig, Counted
  <2>3. Built'
    BY Zenon, <1>7 DEF DiscoveryConfig, Built, Configured, Used, Embedded
  <2>4. Embedded = {t[1] : t \in okBy}
    <3>1. \A t \in okBy : t[1] \in Receivers
      BY Zenon DEF TypeOK
    <3>2. \A r \in Embedded : \E t \in okBy : t[1] = r
      BY Zenon DEF Counted, Embedded
    <3>3. \A t \in okBy : t[1] \in Embedded
      BY Zenon, <3>1 DEF Counted, Embedded
    <3> QED
      BY Zenon, <3>2, <3>3
  <2>5. {t[3] : t \in okBy} \ {NoObserver}
            \subseteq {o \in Observers : ostat[o] \in {"partial", "successful"}}
    <3>1. \A t \in okBy : t[3] \in ObserverIDs /\ ostat[t[3]] = "successful"
      BY Zenon DEF TypeOK, Counted
    <3> QED
      BY <3>1 DEF ObserverIDs
  <2>6. SuccessEmbedded'
    BY Zenon, <1>7, <2>4, <2>5 DEF DiscoveryConfig, SuccessEmbedded
  <2> QED
    BY Zenon, <1>7, <2>1, <2>2, <2>3, <2>6 DEF DiscoveryConfig
<1> QED
  BY Zenon, <1>1, <1>2, <1>3, <1>4, <1>5, <1>6, <1>7 DEF Other

\* Every step keeps the invariant, and none lowers a status.
LEMMA NextIInv ==
    ASSUME IInv, [Next]_vars
    PROVE  /\ IInv'
           /\ \A q \in Receivers : Rank(rstat'[q]) >= Rank(rstat[q])
           /\ \A q \in ObserverIDs : Rank(ostat'[q]) >= Rank(ostat[q])
<1>1. /\ \A q \in Receivers : Rank(rstat[q]) >= Rank(rstat[q])
      /\ \A q \in ObserverIDs : Rank(ostat[q]) >= Rank(ostat[q])
  <2>1. /\ \A q \in Receivers : Rank(rstat[q]) \in Nat
        /\ \A q \in ObserverIDs : Rank(ostat[q]) \in Nat
    BY Zenon, Ranks DEF IInv, TypeOK, StatusOrNone
  <2>2. \A m \in Nat : m >= m
    OBVIOUS
  <2> QED
    BY Zenon, <2>1, <2>2
<1>2. CASE Other
  BY Zenon, <1>1, <1>2, OtherIInv
<1>3. CASE \E o \in Observers : CreateObserver(o)
  <2>1. rstat' = rstat /\ ostat' = ostat
    BY Zenon, <1>3 DEF CreateObserver, found
  <2> QED
    BY Zenon, <1>1, <1>3, <2>1, CreateIInv
<1>4. CASE \E d \in Observers, r \in Receivers, o \in ObserverIDs, recs \in Records :
             ConsumeLogs(d, r, o, recs)
  BY Zenon, <1>4, ConsumeIInv
<1>5. CASE UNCHANGED vars
  <2>1. IInv'
    BY <1>5 DEF vars, IInv, TypeOK, Counted, Built, Configured, Used, SuccessEmbedded
  <2> QED
    BY Zenon, <1>1, <1>5, <2>1 DEF vars
<1> QED
  BY Zenon, <1>2, <1>3, <1>4, <1>5 DEF Next, Other

\* IInv is an invariant of discovery mode.
LEMMA Invariant == Spec => []IInv
<1>1. IInv /\ [Next]_vars => IInv'
  BY Zenon, NextIInv
<1> QED
  BY <1>1, InitIInv, PTL DEF Spec

\* discover's state stays well typed; only created observers' receivers run.
THEOREM DiscovererTypeOK == Spec => []TypeOK
<1>1. IInv => TypeOK
  BY Zenon DEF IInv
<1> QED
  BY <1>1, Invariant, PTL

\* What was reported successful is embedded, with the observers named, and
\* nothing else is.
THEOREM DiscovererSuccessEmbedded == Spec => []SuccessEmbedded
<1>1. IInv => SuccessEmbedded
  BY Zenon DEF IInv
<1> QED
  BY <1>1, Invariant, PTL

\* An embedded config is one the receiver was configured with.
THEOREM DiscovererEmbeddedWasConfigured == Spec => []EmbeddedWasConfigured
<1>1. IInv => EmbeddedWasConfigured
  BY Zenon DEF IInv, TypeOK, Built, Configured, EmbeddedWasConfigured
<1> QED
  BY <1>1, Invariant, PTL

\* No call of ConsumeLogs makes a status worse.
THEOREM DiscovererStatusNeverWorsens == Spec => StatusNeverWorsens
<1>1. IInv /\ [Next]_vars =>
        [/\ \A r \in Receivers : Rank(rstat'[r]) >= Rank(rstat[r])
         /\ \A o \in ObserverIDs : Rank(ostat'[o]) >= Rank(ostat[o])]_vars
  BY Zenon, NextIInv
<1> QED
  BY <1>1, Invariant, PTL DEF Spec, StatusNeverWorsens

-----------------------------------------------------------------------------
(* The settings                                                            *)

SettingsSpec == SettingsInit /\ [][New]_settingsVars

\* What New has chosen is what checkConfig chooses for the arguments, which
\* nothing changes.
SettingsInv ==
    /\ args \in Arguments
    /\ settings = NotNew \/ settings.paths = CheckConfig(args).paths

\* URIs that flags ask for, and URIs that begin with some and go on with such.
FlagURIs == FromFlags \X {""}
ThenFlags(uris, first) ==
    /\ Len(first) <= Len(uris)
    /\ \A i \in 1..Len(uris) : IF i <= Len(first) THEN uris[i] = first[i] ELSE uris[i][1] \in FromFlags

\* Appending the URI of a flag keeps the shape of the list.
LEMMA AppendFlag ==
    ASSUME NEW S, NEW first \in Seq(S), NEW uris \in Seq(S), ThenFlags(uris, first),
           NEW u \in S, u[1] \in FromFlags
    PROVE  ThenFlags(Append(uris, u), first)
<1>1. /\ Len(Append(uris, u)) = Len(uris) + 1 /\ Append(uris, u)[Len(uris) + 1] = u
      /\ \A i \in 1..Len(uris) : Append(uris, u)[i] = uris[i]
      /\ Len(uris) \in Nat /\ Len(first) \in Nat
      BY AppendProperties
<1>2. ASSUME NEW i \in 1..Len(uris) + 1
      PROVE  IF i <= Len(first) THEN Append(uris, u)[i] = first[i]
             ELSE Append(uris, u)[i][1] \in FromFlags
      BY <1>1 DEF ThenFlags
<1> QED BY <1>1, <1>2 DEF ThenFlags

\* One more flag leaves the beginning alone.
LEMMA AddFlag ==
    ASSUME NEW S, NEW first \in Seq(S), NEW uris \in Seq(S), ThenFlags(uris, first),
           NEW in, NEW f \in FromFlags, FlagURIs \subseteq S
    PROVE  /\ uris \o Asked(in, f) \in Seq(S)
           /\ ThenFlags(uris \o Asked(in, f), first)
           /\ ~in[f] /\ uris = <<>> => uris \o Asked(in, f) = <<>>
<1>1. CASE in[f]
  <2>1. PICK u \in S : u[1] \in FromFlags /\ Asked(in, f) = <<u>>
    <3>1. <<f, "">> \in S /\ <<f, "">>[1] \in FromFlags
          BY DEF FlagURIs
    <3>2. Asked(in, f) = <<<<f, "">>>>
          BY Zenon, <1>1 DEF Asked
    <3> QED BY Zenon, <3>1, <3>2
  <2>2. uris \o Asked(in, f) = Append(uris, u)
        BY Zenon, <2>1, AppendIsConcat
  <2>3. Append(uris, u) \in Seq(S) /\ ThenFlags(Append(uris, u), first)
        BY Zenon, <2>1, AppendFlag, AppendProperties
  <2> QED BY Zenon, <1>1, <2>2, <2>3
<1>2. CASE ~in[f]
  <2>1. Asked(in, f) = <<>>
        BY Zenon, <1>2 DEF Asked
  <2>2. uris \o Asked(in, f) = uris
        BY Zenon, <2>1, ConcatEmptySeq
  <2> QED BY Zenon, <2>2
<1> QED BY Zenon, <1>1, <1>2

\* The URIs of settings.paths and of the flags.
Uris ==
    settings.paths \o Asked(args, "propertiesFile") \o Asked(args, "properties")
        \o Asked(args, "configD") \o Asked(args, "discovery")

\* ResolverURIs appends nothing but the URIs of flags.
LEMMA AllFlags ==
    ASSUME NEW S, settings.paths \in Seq(S), FlagURIs \subseteq S
    PROVE  /\ ThenFlags(Uris, settings.paths)
           /\ settings.paths = <<>> /\ (\A f \in FromFlags : ~args[f]) => Uris = <<>>
           /\ settings.paths # <<>> => Uris # <<>>
<1> DEFINE a == settings.paths \o Asked(args, "propertiesFile")
           b == a \o Asked(args, "properties")
           c == b \o Asked(args, "configD")
<1>0. ThenFlags(settings.paths, settings.paths)
      BY DEF ThenFlags
<1>f. /\ "propertiesFile" \in FromFlags /\ "properties" \in FromFlags
      /\ "configD" \in FromFlags /\ "discovery" \in FromFlags
      BY Zenon DEF FromFlags
<1>1. /\ a \in Seq(S) /\ ThenFlags(a, settings.paths)
      /\ ~args["propertiesFile"] /\ settings.paths = <<>> => a = <<>>
      BY <1>0, <1>f, AddFlag
<1> HIDE DEF a
<1>2. /\ b \in Seq(S) /\ ThenFlags(b, settings.paths)
      /\ ~args["properties"] /\ a = <<>> => b = <<>>
      BY <1>1, <1>f, AddFlag
<1> HIDE DEF b
<1>3. /\ c \in Seq(S) /\ ThenFlags(c, settings.paths)
      /\ ~args["configD"] /\ b = <<>> => c = <<>>
      BY <1>2, <1>f, AddFlag
<1> HIDE DEF c
<1>4. /\ ThenFlags(c \o Asked(args, "discovery"), settings.paths)
      /\ ~args["discovery"] /\ c = <<>> => c \o Asked(args, "discovery") = <<>>
      BY <1>3, <1>f, AddFlag
<1>5. Uris = c \o Asked(args, "discovery")
      BY Zenon DEF Uris, a, b, c
<1>6. ThenFlags(<<>>, settings.paths) => settings.paths = <<>>
      BY DEF ThenFlags
<1> QED BY Zenon, <1>1, <1>2, <1>3, <1>4, <1>5, <1>6, <1>f

\* What the priority says, case by case, beside what checkConfig chooses.
LEMMA PriorPaths ==
    \/ CheckConfig(args).paths = Prior /\ Prior # <<>>
    \/ CheckConfig(args).paths = <<>> /\ args.envYaml /\ Prior = <<<<"env", "SPLUNK_CONFIG_YAML">>>>
<1>1. CASE args.config # <<>>
      BY Zenon, <1>1 DEF CheckConfig, Prior
<1>2. CASE args.config = <<>> /\ args.envConfig # None
      BY <1>2 DEF CheckConfig, Prior
<1>3. CASE args.config = <<>> /\ args.envConfig = None /\ args.envYaml
      BY <1>3 DEF CheckConfig, Prior
<1>4. CASE args.config = <<>> /\ args.envConfig = None /\ ~args.envYaml
      BY <1>4 DEF CheckConfig, Prior
<1> QED BY Zenon, <1>1, <1>2, <1>3, <1>4

\* SettingsInv is an invariant of the settings.
LEMMA SettingsInvariant == SettingsSpec => []SettingsInv
<1>1. SettingsInit => SettingsInv
      BY Zenon DEF SettingsInit, SettingsInv
<1>2. SettingsInv /\ [New]_settingsVars => SettingsInv'
  <2> SUFFICES ASSUME SettingsInv, [New]_settingsVars PROVE SettingsInv'
      BY Zenon
  <2>1. CASE New
    <3>1. args' = args /\ settings'.paths = CheckConfig(args).paths
          BY <2>1 DEF New
    <3> QED BY Zenon, <3>1 DEF SettingsInv, CheckConfig, CheckInputConfigs, InputFiles,
               Exists, Required
  <2>2. CASE UNCHANGED settingsVars
        BY Zenon, <2>2 DEF settingsVars, SettingsInv, CheckConfig, CheckInputConfigs,
           InputFiles, Exists, Required
  <2> QED BY Zenon, <2>1, <2>2
<1> QED BY <1>1, <1>2, PTL DEF SettingsSpec

\* ResolverURIs hands the service what checkConfig has checked and what the
\* documented priority of --config, SPLUNK_CONFIG, SPLUNK_CONFIG_YAML and the
\* default says, then what the flags of discovery ask for, for every command
\* line and environment; only such flags make it forget SPLUNK_CONFIG_YAML.
THEOREM SettingsByPriority == SettingsSpec => []ByPriority
<1>1. SettingsInv => ByPriority
  <2> SUFFICES ASSUME SettingsInv, settings.ok
               PROVE  \/ Told(Prior)
                      \/ settings.paths = <<>> /\ (\E f \in FromFlags : args[f]) /\ Told(<<>>)
      BY Zenon DEF ByPriority
  <2>1. settings.paths = CheckConfig(args).paths
        BY DEF SettingsInv, NotNew
  <2>2. PICK S : settings.paths \in Seq(S) /\ FlagURIs \subseteq S
    <3>1. args.config \in Seq(Locations)
          BY Zenon, SettingsAssumption DEF SettingsInv
    <3> DEFINE S == Locations \union {<<"plain", args.envConfig>>, <<"plain", Gateway>>} \union FlagURIs
    <3>2. args.config \in Seq(S)
          BY <3>1, SeqMonotonic
    <3>3. <<<<"plain", args.envConfig>>>> \in Seq(S) /\ <<<<"plain", Gateway>>>> \in Seq(S) /\ <<>> \in Seq(S)
          OBVIOUS
    <3>4. CheckConfig(args).paths \in Seq(S)
          BY <3>2, <3>3 DEF CheckConfig
    <3> QED BY Zenon, <2>1, <3>4
  <2>3. /\ ThenFlags(Uris, settings.paths)
        /\ settings.paths = <<>> /\ (\A f \in FromFlags : ~args[f]) => Uris = <<>>
        /\ settings.paths # <<>> => Uris # <<>>
        BY <2>2, AllFlags
  <2>4. ResolverURIs = IF Uris = <<>> /\ args.envYaml THEN <<<<"env", "SPLUNK_CONFIG_YAML">>>> ELSE Uris
        BY Zenon DEF ResolverURIs, Uris
  <2>5. CASE settings.paths = Prior /\ Prior # <<>>
        BY Zenon, <2>3, <2>4, <2>5 DEF Told, ThenFlags
  <2>6. CASE settings.paths = <<>> /\ args.envYaml /\ Prior = <<<<"env", "SPLUNK_CONFIG_YAML">>>>
    <3>1. CASE Uris = <<>>
      <4>1. ResolverURIs = Prior
            BY Zenon, <2>4, <2>6, <3>1
      <4>2. Len(Prior) \in Nat
            BY <2>6
      <4> QED BY <4>1, <4>2 DEF Told
    <3>2. CASE Uris # <<>>
      <4>1. ResolverURIs = Uris
            BY Zenon, <2>4, <3>2
      <4> QED BY Zenon, <2>3, <2>6, <3>2, <4>1 DEF Told, ThenFlags
    <3> QED BY Zenon, <3>1, <3>2
  <2> QED BY Zenon, <2>1, <2>5, <2>6, PriorPaths
<1> QED BY <1>1, SettingsInvariant, PTL

-----------------------------------------------------------------------------
(* The filters                                                             *)

\* A datapoint without dimensions matches only filters without dimensions, if
\* all their keys are required: then the dimensions do not matter.
LEMMA MatchesAnyDims ==
    ASSUME NEW filter, \A k \in DOMAIN filter.dims : ~filter.dims[k].okMissing, NEW m, NEW dims,
           TRUE \in DatapointMatches(filter, [metric |-> m, dims |-> <<>>])
    PROVE  DatapointMatches(filter, [metric |-> m, dims |-> dims]) = {TRUE}
<1>1. DOMAIN <<>> = {}
      OBVIOUS
<1>2. MapMatches(filter.dims, <<>>) = {FALSE}
      BY Zenon, <1>1 DEF MapMatches
<1>3. ~(filter.metrics # <<>> /\ ~OverridableMatches(filter.metrics, m)) /\ DOMAIN filter.dims = {}
      BY Zenon, <1>2 DEF DatapointMatches
<1> QED BY Zenon, <1>3 DEF DatapointMatches

\* The same for the filters of a monitor, with any number of them.
LEMMA LeftOutWithAnyDims ==
    ASSUME NEW mon, \A f \in mon.excludes : \A k \in DOMAIN f.dims : ~f.dims[k].okMissing,
           NEW m, NEW dims, TRUE \in FilterSetMatches(mon, [metric |-> m, dims |-> <<>>])
    PROVE  FilterSetMatches(mon, [metric |-> m, dims |-> dims]) = {TRUE}
<1> DEFINE extra == Known # {} /\ ~mon.sendAll /\ ~ExtraMatches(mon.extra, mon.sendUnknown, m)
<1>1. CASE extra
      BY Zenon, <1>1 DEF FilterSetMatches
<1>2. CASE ~extra
  <2>1. PICK f \in mon.excludes : TRUE \in DatapointMatches(f, [metric |-> m, dims |-> <<>>])
        BY Zenon, <1>2 DEF FilterSetMatches
  <2>2. DatapointMatches(f, [metric |-> m, dims |-> dims]) = {TRUE}
        BY Zenon, <2>1, MatchesAnyDims
  <2>3. ~ \A g \in mon.excludes : FALSE \in DatapointMatches(g, [metric |-> m, dims |-> dims])
        BY Zenon, <2>2
  <2> QED BY Zenon, <1>2, <2>2, <2>3 DEF FilterSetMatches
<1> QED BY Zenon, <1>1, <1>2

\* EnabledMetrics, which knows no dimensions, leaves out only metrics that the
\* filters of the monitor keep from being sent with any dimensions, for every
\* list of items and every filter over dimensions without optional keys.
THEOREM FiltersLeftOutNeverSent == LeftOutNeverSent
<1> SUFFICES ASSUME \A k \in DOMAIN dimFilter : ~dimFilter[k].okMissing,
                    NEW mon \in Monitors, NEW m \in LeftOut(mon), NEW dims \in DimMaps
             PROVE  FilterSetMatches(mon, [metric |-> m, dims |-> dims]) = {TRUE}
    BY Zenon DEF LeftOutNeverSent
<1>1. \A f \in mon.excludes : f.dims = dimFilter
      BY DEF Monitors
<1>2. TRUE \in FilterSetMatches(mon, [metric |-> m, dims |-> <<>>])
      BY Zenon DEF LeftOut
<1> QED BY Zenon, <1>1, <1>2, LeftOutWithAnyDims

-----------------------------------------------------------------------------
(* The converters                                                          *)

ConvSpec == ConvInit /\ [][Convert]_convVars

\* What the converters of the utilization metrics look at.
Kubelet == {"signalfx", "kubeletstats"}

\* One configuration has the exporters and receivers of the other, with their
\* settings.
Untouched(c, ref) ==
    \A k \in DOMAIN c \union DOMAIN ref :
        Type(k) \in Kubelet =>
            /\ k \in DOMAIN c /\ k \in DOMAIN ref
            /\ Field(k) # "processors" => c[k] = ref[k]

LEMMA UntouchedTwice ==
    ASSUME NEW c, NEW d, NEW ref, Untouched(d, c), Untouched(c, ref)
    PROVE  Untouched(d, ref)
  BY Zenon DEF Untouched

\* A copy of a configuration leaves those keys alone when it keeps them under
\* their names and gives no other key such a name.
LEMMA CopyUntouched ==
    ASSUME NEW c, NEW kept \in SUBSET DOMAIN c, NEW new, NEW value,
           \A k \in DOMAIN c : Type(k) \in Kubelet =>
               k \in kept /\ new[k] = k /\ (Field(k) # "processors" => value[k] = c[k]),
           \A k \in kept : Type(new[k]) \in Kubelet => new[k] = k
    PROVE  Untouched(CopyKeys(kept, new, value), c)
<1> DEFINE last(n) == CHOOSE k \in kept :
                         /\ new[k] = n
                         /\ \A k2 \in kept \ {k} : new[k2] = n => KeyRank(k2) < KeyRank(k)
           res == CopyKeys(kept, new, value)
           names == {new[k] : k \in kept}
<1>1. res = [n \in names |-> value[last(n)]]
      BY Zenon DEF CopyKeys
<1>2. ASSUME NEW n \in kept, new[n] = n, \A k \in kept : new[k] = n => k = n
      PROVE  last(n) = n
      BY Zenon, <1>2
<1>3. \A k \in kept : new[k] \in names
      BY Zenon
<1>4. ASSUME NEW n \in names, Type(n) \in Kubelet
      PROVE  n \in DOMAIN c
  <2>1. PICK k \in kept : n = new[k]
        BY Zenon
  <2> HIDE DEF names
  <2> QED BY Zenon, <1>4, <2>1
<1> HIDE DEF last, res, names
<1>5. DOMAIN res = names /\ \A n \in names : res[n] = value[last(n)]
      BY Zenon, <1>1
<1>6. ASSUME NEW n \in DOMAIN c, Type(n) \in Kubelet
      PROVE  n \in DOMAIN res /\ (Field(n) # "processors" => res[n] = c[n])
  <2>1. n \in kept /\ new[n] = n /\ \A k \in kept : new[k] = n => k = n
        BY Zenon, <1>6
  <2>2. last(n) = n /\ n \in names
        BY Zenon, <1>2, <1>3, <2>1
  <2> QED BY Zenon, <1>5, <1>6, <2>1, <2>2
<1>7. Untouched(res, c)
      BY Zenon, <1>4, <1>5, <1>6 DEF Untouched
<1> QED BY Zenon, <1>7 DEF res

\* RemoveBallastKey drops keys of memory limiters only.
LEMMA BallastUntouched == ASSUME NEW c PROVE Untouched(RemoveBallastKey(c), c)
<1> DEFINE kept == {k \in DOMAIN c :
                       ~(Has(k, "memory_limiter", "ballast_size_mib") /\ IsWord(Name(k)))}
           new == [k \in kept |-> k]
<1>1. \A k \in DOMAIN c : Type(k) \in Kubelet => k \in kept
      BY DEF Has, Kubelet
<1>2. kept \in SUBSET DOMAIN c /\ \A k \in kept : new[k] = k
      BY Zenon
<1>3. RemoveBallastKey(c) = CopyKeys(kept, new, c)
      BY Zenon DEF RemoveBallastKey
<1> HIDE DEF kept, new
<1> QED BY <1>1, <1>2, <1>3, CopyUntouched

\* MoveOTLPInsecureKey renames keys of OTLP exporters only, MoveHecTLS keys of
\* HEC exporters.
LEMMA OtlpUntouched == ASSUME NEW c PROVE Untouched(MoveOTLPInsecureKey(c), c)
<1> DEFINE new == [k \in DOMAIN c |-> IF OtlpInsecure(k)
                                      THEN <<Section(k), "otlp", Name(k), "tls::insecure">> ELSE k]
<1>1. \A k \in DOMAIN c : Type(k) \in Kubelet => new[k] = k
      BY DEF OtlpInsecure, Kubelet
<1>2. \A k \in DOMAIN c : Type(new[k]) \in Kubelet => new[k] = k
      BY DEF Kubelet, Type
<1>3. MoveOTLPInsecureKey(c) = CopyKeys(DOMAIN c, new, c)
      BY Zenon DEF MoveOTLPInsecureKey
<1> HIDE DEF new
<1> QED BY <1>1, <1>2, <1>3, CopyUntouched

LEMMA HecUntouched == ASSUME NEW c PROVE Untouched(MoveHecTLS(c), c)
<1> DEFINE new == [k \in DOMAIN c |-> IF Has(k, "splunk_hec", "ca_file") /\ IsWord(Name(k))
                                      THEN <<Section(k), Type(k), Name(k), "tls::ca_file">> ELSE k]
<1>1. \A k \in DOMAIN c : Type(k) \in Kubelet => new[k] = k
      BY DEF Has, Kubelet
<1>2. \A k \in DOMAIN c : Type(new[k]) \in Kubelet => new[k] = k
      BY DEF Kubelet, Type, Has
<1>3. MoveHecTLS(c) = CopyKeys(DOMAIN c, new, c)
      BY Zenon DEF MoveHecTLS
<1> HIDE DEF new
<1> QED BY <1>1, <1>2, <1>3, CopyUntouched

\* RenameK8sTagger renames keys of one processor, and changes only the lists of
\* processors.
LEMMA TaggerUntouched == ASSUME NEW c PROVE Untouched(RenameK8sTagger(c), c)
<1> DEFINE new == [k \in DOMAIN c |-> IF Type(k) = "k8s_tagger"
                                      THEN <<Section(k), "k8sattributes", Name(k), Field(k)>> ELSE k]
           value == [k \in DOMAIN c |-> IF Field(k) = "processors"
                                        THEN [i \in DOMAIN c[k] |-> PipelineEntry(c[k][i])] ELSE c[k]]
<1>1. \A k \in DOMAIN c : Type(k) \in Kubelet => new[k] = k
      BY DEF Kubelet
<1>2. \A k \in DOMAIN c : Type(new[k]) \in Kubelet => new[k] = k
      BY DEF Kubelet, Type
<1>3. \A k \in DOMAIN c : Field(k) # "processors" => value[k] = c[k]
      BY Zenon
<1>4. RenameK8sTagger(c) = CopyKeys(DOMAIN c, new, value)
      BY Zenon DEF RenameK8sTagger
<1> HIDE DEF new, value
<1> QED BY <1>1, <1>2, <1>3, <1>4, CopyUntouched

\* LogLevelToVerbosity drops and renames keys of logging exporters only.
LEMMA VerbosityUntouched == ASSUME NEW c PROVE Untouched(LogLevelToVerbosity(c), c)
<1> DEFINE verbosity(k) == <<Section(k), Type(k), Name(k), "verbosity">>
           old(k) == Has(k, "logging", "loglevel")
           moved(k) == old(k) /\ verbosity(k) \notin DOMAIN c /\ c[k] # "unreadable"
           kept == {k \in DOMAIN c : ~(old(k) /\ verbosity(k) \in DOMAIN c)}
           new == [k \in DOMAIN c |-> IF moved(k) THEN verbosity(k) ELSE k]
           value == [k \in DOMAIN c |-> IF moved(k) THEN MapLevel(c[k]) ELSE c[k]]
<1>1. LogLevelToVerbosity(c) = CopyKeys(kept, new, value)
      BY Zenon DEF LogLevelToVerbosity
<1>2. \A k : old(k) => Type(k) \notin Kubelet
      BY DEF Has, Kubelet
<1>3. \A k : Type(verbosity(k)) = Type(k)
      BY DEF Type
<1> HIDE DEF verbosity, old
<1>4. \A k \in DOMAIN c : Type(k) \in Kubelet => k \in kept /\ new[k] = k /\ value[k] = c[k]
      BY Zenon, <1>2
<1>5. \A k \in kept : Type(new[k]) \in Kubelet => new[k] = k
      BY Zenon, <1>2, <1>3
<1>6. kept \in SUBSET DOMAIN c
      BY Zenon
<1> HIDE DEF kept, new, value
<1> QED BY <1>1, <1>4, <1>5, <1>6, CopyUntouched

\* Discovery changes keys of the service only, NormalizeGcp detectors of one
\* processor, OverwriteProperties is the configuration to start from.
LEMMA DiscoveryUntouched == ASSUME NEW c PROVE Untouched(Discovery(c), c)
<1>1. /\ Type(Extensions) \notin Kubelet /\ Type(MetricsReceivers) \notin Kubelet
      /\ Type(DiscoExtensions) \notin Kubelet /\ Type(DiscoReceivers) \notin Kubelet
      /\ Type(Resource) \notin Kubelet
      BY DEF Type, Kubelet, Extensions, MetricsReceivers, DiscoExtensions, DiscoReceivers, Resource
<1> DEFINE disc == {DiscoExtensions, DiscoReceivers} \intersect DOMAIN c
           joined(k, disco) ==
               IF ListOf(c, disco) = <<>> THEN {}
               ELSE {<<k, AppendUnique(ListOf(c, k), c[disco])>>}
           new == joined(Extensions, DiscoExtensions)
                    \union joined(MetricsReceivers, DiscoReceivers) \union {<<Resource, "true">>}
           rest == [k \in DOMAIN c \ disc |-> c[k]]
           names == {p[1] : p \in new}
           added == [k \in names |-> (CHOOSE p \in new : p[1] = k)[2]]
<1>2. Discovery(c) = IF disc = {} THEN c ELSE Merge(rest, added)
      BY Zenon DEF Discovery
<1>3. \A k \in disc : Type(k) \notin Kubelet
      BY Zenon, <1>1
<1>4. ASSUME NEW k \in names
      PROVE  Type(k) \notin Kubelet
  <2>1. PICK p \in new : k = p[1]
        BY Zenon
  <2>2. p[1] \in {Extensions, MetricsReceivers, Resource}
    <3> HIDE DEF names, added, rest, disc
    <3> QED BY <2>1
  <2> QED BY Zenon, <1>1, <2>1, <2>2
<1>5. DOMAIN added = names
      BY Zenon
<1> HIDE DEF names, added, new
<1>6. DOMAIN rest = DOMAIN c \ disc /\ \A k \in DOMAIN c \ disc : rest[k] = c[k]
      BY Zenon
<1> HIDE DEF rest, disc
<1>7. Untouched(Merge(rest, added), c)
  <2> DEFINE m == Merge(rest, added)
  <2>1. /\ DOMAIN m = (DOMAIN c \ disc) \union names
        /\ \A k \in DOMAIN c \ disc : k \notin names => m[k] = c[k]
        BY Zenon, <1>5, <1>6 DEF Merge
  <2> HIDE DEF m
  <2>2. Untouched(m, c)
        BY Zenon, <1>3, <1>4, <2>1 DEF Untouched
  <2> QED BY Zenon, <2>2 DEF m
<1>8. Untouched(c, c)
      BY Zenon DEF Untouched
<1> QED BY Zenon, <1>2, <1>7, <1>8

LEMMA GcpUntouched == ASSUME NEW c PROVE Untouched(NormalizeGcp(c), c)
<1>1. \A k : Type(k) \in Kubelet => ~Has(k, "resourcedetection", "detectors")
      BY DEF Has, Kubelet
<1> QED BY Zenon, <1>1 DEF Untouched, NormalizeGcp

-----------------------------------------------------------------------------
\* What KubeletSwitches says of a configuration that is fully converted.
Switched(c, ref) ==
    SignalfxExporters(ref) # {} =>
        \A r \in KubeletReceivers(ref), m \in UtilizationMetrics :
            IF Switch(r, m) \in DOMAIN ref
            THEN Switch(r, m) \in DOMAIN c /\ c[Switch(r, m)] = ref[Switch(r, m)]
            ELSE Switch(r, m) \notin DOMAIN c
                    <=> \E e \in SignalfxExporters(ref) : ~Excludes(ref, e, m)

\* The same exporters drop the same metrics.
LEMMA UntouchedDrops ==
    ASSUME NEW c, NEW ref, Untouched(c, ref), NEW m
    PROVE  /\ SignalfxExporters(c) = SignalfxExporters(ref)
           /\ KubeletReceivers(c) = KubeletReceivers(ref)
           /\ Drops(c, m) <=> \A e \in SignalfxExporters(ref) : Excludes(ref, e, m)
<1>1. ASSUME NEW s, NEW t \in Kubelet
      PROVE  NamesOf(c, s, t) = NamesOf(ref, s, t)
  <2>1. {k \in DOMAIN c : Section(k) = s /\ Type(k) = t}
           = {k \in DOMAIN ref : Section(k) = s /\ Type(k) = t}
        BY Zenon DEF Untouched
  <2> QED BY Zenon, <2>1 DEF NamesOf
<1>2. "signalfx" \in Kubelet /\ "kubeletstats" \in Kubelet
      BY DEF Kubelet
<1>3. ASSUME NEW e, NEW f \in {"include_metrics", "exclude_metrics"}
      PROVE  LET k == <<"exporters", "signalfx", e, f>>
             IN (k \in DOMAIN c <=> k \in DOMAIN ref) /\ (k \in DOMAIN c => c[k] = ref[k])
  <2> DEFINE k == <<"exporters", "signalfx", e, f>>
  <2>1. Type(k) = "signalfx" /\ Field(k) # "processors"
        BY DEF Type, Field
  <2> HIDE DEF k
  <2>2. (k \in DOMAIN c <=> k \in DOMAIN ref) /\ (k \in DOMAIN c => c[k] = ref[k])
        BY Zenon, <1>2, <2>1 DEF Untouched
  <2> QED BY Zenon, <2>2 DEF k
<1>4. ASSUME NEW e
      PROVE  Excludes(c, e, m) <=> Excludes(ref, e, m)
  <2> DEFINE inc == <<"exporters", "signalfx", e, "include_metrics">>
             exc == <<"exporters", "signalfx", e, "exclude_metrics">>
             at(d, k) == IF k \in DOMAIN d THEN d[k] ELSE {}
  <2>1. at(c, inc) = at(ref, inc) /\ at(c, exc) = at(ref, exc)
        BY Zenon, <1>3
  <2>2. \A d : Excludes(d, e, m) <=>
                  /\ m \in IF at(d, exc) = {} THEN UtilizationMetrics ELSE at(d, exc)
                  /\ m \notin at(d, inc)
        BY Zenon DEF Excludes
  <2> HIDE DEF at, inc, exc
  <2> QED BY <2>1, <2>2
<1>5. /\ SignalfxExporters(c) = SignalfxExporters(ref)
      /\ KubeletReceivers(c) = KubeletReceivers(ref)
      BY Zenon, <1>1, <1>2 DEF SignalfxExporters, KubeletReceivers
<1> QED BY Zenon, <1>4, <1>5 DEF Drops

\* The converter of the utilization metrics switches off what the exporters
\* drop, and nothing else.
LEMMA KubeletSwitched ==
    ASSUME NEW c, NEW ref, Untouched(c, ref)
    PROVE  Switched(DisableKubeletUtilizationMetrics(c), ref)
<1> SUFFICES ASSUME SignalfxExporters(ref) # {},
                    NEW r \in KubeletReceivers(ref), NEW m \in UtilizationMetrics
             PROVE  LET d == DisableKubeletUtilizationMetrics(c)
                    IN IF Switch(r, m) \in DOMAIN ref
                       THEN Switch(r, m) \in DOMAIN d /\ d[Switch(r, m)] = ref[Switch(r, m)]
                       ELSE Switch(r, m) \notin DOMAIN d
                               <=> \E e \in SignalfxExporters(ref) : ~Excludes(ref, e, m)
    BY Zenon DEF Switched
<1> DEFINE off == {Switch(q, n) : q \in KubeletReceivers(c),
                                  n \in {x \in UtilizationMetrics : Drops(c, x)}}
           d == DisableKubeletUtilizationMetrics(c)
           k == Switch(r, m)
<1>1. d = Merge([x \in off |-> FALSE], c)
  <2>1. SignalfxExporters(c) # {}
        BY Zenon, UntouchedDrops
  <2> QED BY <2>1 DEF DisableKubeletUtilizationMetrics
<1>2. DOMAIN d = off \union DOMAIN c /\ \A x \in DOMAIN c : d[x] = c[x]
  <2> HIDE DEF off, d
  <2> QED BY Zenon, <1>1 DEF Merge
<1>3. (k \in DOMAIN c <=> k \in DOMAIN ref) /\ (k \in DOMAIN c => c[k] = ref[k])
  <2>1. Type(k) \in Kubelet /\ Field(k) # "processors"
        BY DEF Switch, Type, Field, Kubelet, UtilizationMetrics
  <2> HIDE DEF k
  <2> QED BY Zenon, <2>1 DEF Untouched
<1>4. k \in off <=> Drops(c, m)
  <2>1. \A q, n : Switch(q, n) = Switch(r, m) => n = m
        BY DEF Switch
  <2>2. r \in KubeletReceivers(c)
        BY Zenon, UntouchedDrops
  <2>3. ASSUME k \in off
        PROVE  Drops(c, m)
    <3>1. PICK q \in KubeletReceivers(c), n \in {x \in UtilizationMetrics : Drops(c, x)} :
              k = Switch(q, n)
          BY <2>3
    <3> QED BY Zenon, <2>1, <3>1
  <2>4. ASSUME Drops(c, m)
        PROVE  k \in off
        BY <2>2, <2>4
  <2> QED BY <2>3, <2>4
<1>5. Drops(c, m) <=> \A e \in SignalfxExporters(ref) : Excludes(ref, e, m)
      BY Zenon, UntouchedDrops
<1> HIDE DEF off, d
<1>6. IF k \in DOMAIN ref
      THEN k \in DOMAIN d /\ d[k] = ref[k]
      ELSE k \notin DOMAIN d <=> \E e \in SignalfxExporters(ref) : ~Excludes(ref, e, m)
  <2> HIDE DEF k
  <2> QED BY Zenon, <1>2, <1>3, <1>4, <1>5
<1> QED BY Zenon, <1>6 DEF d

\* The last converter changes jobs of one receiver, none of them a switch.
LEMMA ExcessiveSwitched ==
    ASSUME NEW c, NEW ref, Switched(c, ref)
    PROVE  Switched(DisableExcessiveInternalMetrics(c), ref)
<1> DEFINE d == DisableExcessiveInternalMetrics(c)
<1>1. \A r, m : ~Has(Switch(r, m), "prometheus", "otel-job")
      BY DEF Switch, Has, Type
<1>2. /\ DOMAIN d = DOMAIN c
      /\ \A r, m : Switch(r, m) \in DOMAIN c => d[Switch(r, m)] = c[Switch(r, m)]
      BY Zenon, <1>1 DEF DisableExcessiveInternalMetrics
<1> HIDE DEF d
<1>3. Switched(d, ref)
      BY Zenon, <1>2 DEF Switched
<1> QED BY Zenon, <1>3 DEF d

-----------------------------------------------------------------------------
\* The first converter merges --set into the configuration, the next seven
\* leave the exporters and receivers alone, the ninth sets the switches, and
\* the last one leaves them alone.
ConvInv ==
    LET ref == Merge(given.conf, given.set)
    IN /\ ran \in 0..10
       /\ ran = 0 => confMap = given.conf
       /\ ran \in 1..8 => Untouched(confMap, ref)
       /\ ran \in 9..10 => Switched(confMap, ref)

\* A switch of a receiver is off after the conversion exactly when all exporters
\* drop its metric, and the user's own setting is kept (KubeletSwitches), for
\* every configuration and every set of properties.
THEOREM ConvertersKubeletSwitches == ConvSpec => []KubeletSwitches
<1> DEFINE ref == Merge(given.conf, given.set)
<1>1. ConvInit => ConvInv
      BY DEF ConvInit, ConvInv
<1>2. ConvInv /\ [Convert]_convVars => ConvInv'
  <2> SUFFICES ASSUME ConvInv, [Convert]_convVars
               PROVE  ConvInv'
      OBVIOUS
  <2>1. CASE UNCHANGED convVars
        BY <2>1 DEF ConvInv, convVars
  <2>2. CASE Convert
    <3>1. ran \in 0..9 /\ ran' = ran + 1
          BY <2>2 DEF Convert, ConvInv, ConfMapConverters
    <3>2. given' = given /\ ref' = ref
          BY <2>2 DEF Convert
    <3> DEFINE name == ConfMapConverters[ran + 1]
    <3>3. confMap' = Apply(name, confMap)
          BY <2>2 DEF Convert
    <3>4. CASE ran = 0
      <4>1. name = "OverwriteProperties"
            BY <3>4 DEF ConfMapConverters
      <4>2. confMap' = ref
            BY <3>3, <3>4, <4>1 DEF Apply, ConvInv, OverwriteProperties
      <4>3. Untouched(ref, ref)
            BY Zenon DEF Untouched
      <4> QED BY <3>1, <3>2, <3>4, <4>2, <4>3 DEF ConvInv
    <3>5. CASE ran \in 1..7
      <4>1. name \in {"Discovery", "RemoveBallastKey", "MoveOTLPInsecureKey", "MoveHecTLS",
                      "RenameK8sTagger", "NormalizeGcp", "LogLevelToVerbosity"}
            BY <3>5 DEF ConfMapConverters
      <4>2. confMap' \in {Discovery(confMap), RemoveBallastKey(confMap),
                          MoveOTLPInsecureKey(confMap), MoveHecTLS(confMap),
                          RenameK8sTagger(confMap), NormalizeGcp(confMap),
                          LogLevelToVerbosity(confMap)}
            BY <3>3, <4>1 DEF Apply
      <4>3. Untouched(confMap', confMap)
            BY Zenon, <4>2, DiscoveryUntouched, BallastUntouched, OtlpUntouched, HecUntouched,
               TaggerUntouched, GcpUntouched, VerbosityUntouched
      <4>4. Untouched(confMap, ref)
            BY <3>5 DEF ConvInv
      <4>5. Untouched(confMap', ref')
            BY Zenon, <3>2, <4>3, <4>4, UntouchedTwice
      <4> QED BY <3>1, <3>5, <4>5 DEF ConvInv
    <3>6. CASE ran = 8
      <4>1. name = "DisableKubeletUtilizationMetrics"
            BY <3>6 DEF ConfMapConverters
      <4>2. confMap' = DisableKubeletUtilizationMetrics(confMap)
            BY <3>3, <4>1 DEF Apply
      <4>3. Untouched(confMap, ref)
            BY <3>6 DEF ConvInv
      <4>4. Switched(confMap', ref')
            BY Zenon, <3>2, <4>2, <4>3, KubeletSwitched
      <4> QED BY <3>1, <3>6, <4>4 DEF ConvInv
    <3>7. CASE ran = 9
      <4>1. name = "DisableExcessiveInternalMetrics"
            BY <3>7 DEF ConfMapConverters
      <4>2. confMap' = DisableExcessiveInternalMetrics(confMap)
            BY <3>3, <4>1 DEF Apply
      <4>3. Switched(confMap, ref)
            BY <3>7 DEF ConvInv
      <4>4. Switched(confMap', ref')
            BY Zenon, <3>2, <4>2, <4>3, ExcessiveSwitched
      <4> QED BY <3>1, <3>7, <4>4 DEF ConvInv
    <3> QED BY <3>1, <3>4, <3>5, <3>6, <3>7
  <2> QED BY <2>1, <2>2
<1>3. ConvInv => KubeletSwitches
  <2> SUFFICES ASSUME ConvInv, Converted
               PROVE  Switched(confMap, ref)
      BY Zenon DEF KubeletSwitches, Switched
  <2>1. ran = 10
        BY DEF Converted, ConfMapConverters
  <2> QED BY <2>1 DEF ConvInv
<1> QED BY <1>1, <1>2, <1>3, PTL DEF ConvSpec
=============================================================================
