----------------------------- MODULE Discoverer -----------------------------
(***************************************************************************)
(* Discovery mode's preflight service                                      *)
(* (internal/confmapprovider/discovery/discoverer.go): discover creates an *)
(* observer and a discovery receiver for every observer of the config,     *)
(* consumes the discovery receivers' status records for a while, stops     *)
(* them and builds the config of what was discovered.                      *)
(*                                                                         *)
(* A receiver's config is abstracted to the set of blocks merged into it:  *)
(* "default" and the observer specific ones.  The default block is a map   *)
(* that entries share, so an entry either aliases it or has a copy.        *)
(* ConsumeLogs runs under the discoverer's mutex and is one step.          *)
(***************************************************************************)
EXTENDS Naturals, Sequences

CONSTANTS Receivers,   \* ReceiversToDiscover
          Observers,   \* DiscoveryObservers
          NoObserver,  \* a record's observer when it names none
          Rule,        \* <<r, o>>: receiver r has a rule for o
          Default,     \* the receivers with a default config block
          Block,       \* <<r, o>>: r has a config block for o
          Properties,  \* the receivers that discovery properties configure
          Enabled,     \* the receivers that are not disabled
          MaxRecords   \* bound: status records in one ConsumeLogs call

ObserverIDs == Observers \union {NoObserver}

ASSUME DiscovererAssumption ==
    /\ NoObserver \notin Observers
    /\ "default" \notin Observers
    /\ Rule \subseteq Receivers \X Observers /\ Block \subseteq Receivers \X Observers
    /\ Default \subseteq Receivers /\ Properties \subseteq Receivers
    /\ Enabled \subseteq Receivers
    /\ MaxRecords \in Nat \ {0}

VARIABLES phase,    \* where discover is
          todo,     \* the observers not yet created
          created,  \* the observers created, with a discovery receiver each
          dflt,     \* dflt[r]: the blocks in r's default config map
          entry,    \* unexpandedReceiverEntries
          running,  \* the observers whose discovery receivers run
          rstat,    \* discoveredReceivers
          ostat,    \* discoveredObservers
          conf,     \* discoveredConfig: the observer whose entry it is from
          out,      \* the discovery config that was built
          okBy      \* history: <<r, d, o>>, d's receiver reported success of r with o,
                    \* in the last record of a call

vars == <<phase, todo, created, dflt, entry, running, rstat, ostat, conf, out, okBy>>
setup == <<todo, created, dflt, entry>>
found == <<rstat, ostat, conf, okBy>>

Statuses == {"failed", "partial", "successful"}
NoEntry == [kind |-> "none", blocks |-> {}]
NoConf == [src |-> NoObserver, form |-> "none"]
NoOutput == [receivers |-> {}, observers |-> {}]

Init ==
    /\ phase = "create"
    /\ todo = Observers /\ created = {}
    /\ dflt = [r \in Receivers |-> IF r \in Default THEN {"default"} ELSE {}]
    /\ entry = [r \in Receivers |-> [o \in Observers |-> NoEntry]]
    /\ running = {}
    /\ rstat = [r \in Receivers |-> "none"]
    /\ ostat = [o \in ObserverIDs |-> "none"]
    /\ conf = [r \in Receivers |-> NoConf]
    /\ out = NoOutput
    /\ okBy = {}

-----------------------------------------------------------------------------
(* createDiscoveryReceiversAndObservers.                                   *)

\* updateReceiverForObserver: r is used with observer o.
Used(r, o) == <<r, o>> \in Rule /\ (r \in Default \/ <<r, o>> \in Block)

\* MergeMaps writes the observer's block into the default config map itself.
MergedDefault(r, o) ==
    IF Used(r, o) /\ r \in Default /\ <<r, o>> \in Block
      THEN dflt[r] \union {o} ELSE dflt[r]

\* The unexpanded entry: the default map itself, unless merging the
\* receiver's properties has copied it, or else the observer's block.
Entry(r, o) ==
    IF ~Used(r, o) \/ r \notin Enabled THEN NoEntry
    ELSE IF r \notin Default THEN [kind |-> "copy", blocks |-> {o}]
    ELSE IF r \in Properties THEN [kind |-> "copy", blocks |-> MergedDefault(r, o)]
    ELSE [kind |-> "alias", blocks |-> {}]

\* One turn of the loop over the observers, in Go's random map order.
CreateObserver(o) ==
    /\ phase = "create" /\ o \in todo
    /\ todo' = todo \ {o}
    /\ created' = created \union {o}
    /\ dflt' = [r \in Receivers |-> MergedDefault(r, o)]
    /\ entry' = [r \in Receivers |-> [entry[r] EXCEPT ![o] = Entry(r, o)]]
    /\ UNCHANGED <<phase, running, found, out>>

\* The observer cannot be created, or a property disables it.
SkipObserver(o) ==
    /\ phase = "create" /\ o \in todo
    /\ todo' = todo \ {o}
    /\ UNCHANGED <<phase, created, dflt, entry, running, found, out>>

\* The discovery receiver's config cannot be resolved: discover fails.
CreateFails ==
    /\ phase = "create" /\ todo # {}
    /\ phase' = "failed"
    /\ UNCHANGED <<setup, running, found, out>>

-----------------------------------------------------------------------------
(* Starting, waiting, stopping.                                            *)

\* The components are started; those in S come up.
StartAll(S) ==
    /\ phase = "create" /\ todo = {} /\ created # {}
    /\ phase' = "wait" /\ running' = S
    /\ UNCHANGED <<setup, found, out>>

NoObservers ==
    /\ phase = "create" /\ todo = {} /\ created = {}
    /\ phase' = "none"
    /\ UNCHANGED <<setup, running, found, out>>

\* The discovery duration has passed.
EndWait ==
    /\ phase = "wait"
    /\ phase' = "stop"
    /\ UNCHANGED <<setup, running, found, out>>

\* receiver.Shutdown waits for the discovery receiver's consumer loop.
StopReceiver(o) ==
    /\ phase = "stop" /\ o \in running
    /\ running' = running \ {o}
    /\ UNCHANGED <<phase, setup, found, out>>

-----------------------------------------------------------------------------
(* ConsumeLogs.                                                            *)

DetermineCurrentStatus(current, observed) ==
    IF current = "successful" \/ observed = "successful" THEN "successful"
    ELSE IF current = "partial" THEN "partial"
    ELSE observed

\* Both current statuses are read before the loop over the records, so each
\* record's result overwrites that of the one before it.
AfterRecords(current, recs) == DetermineCurrentStatus(current, recs[Len(recs)])

\* Mutant: only the receiver's status is recorded.
ObserverAfterNone(o, recs) == ostat[o]

ObserverAfter(o, recs) == AfterRecords(ostat[o], recs)

\* The records of one evaluation by the discovery receiver of observer d for
\* receiver r; its correlation names d, or no observer yet.  The embedded
\* config takes rule and config from the unexpanded entry that is found.
ConsumeLogs(d, r, o, recs) ==
    /\ phase \in {"wait", "stop"} /\ d \in running
    /\ entry[r][d] # NoEntry
    /\ o \in {d, NoObserver}
    /\ conf' = [conf EXCEPT ![r] =
                  [src |-> d, form |-> IF o = d THEN "unexpanded" ELSE "expanded"]]
    /\ IF rstat[r] = "successful" /\ ostat[o] = "successful"
         THEN UNCHANGED <<rstat, ostat>>
         ELSE /\ rstat' = [rstat EXCEPT ![r] = AfterRecords(rstat[r], recs)]
              /\ ostat' = [ostat EXCEPT ![o] = ObserverAfter(o, recs)]
    /\ okBy' = IF recs[Len(recs)] = "successful" THEN okBy \union {<<r, d, o>>} ELSE okBy
    /\ UNCHANGED <<phase, setup, running, out>>

-----------------------------------------------------------------------------
(* discoveryConfig.                                                        *)

Embedded == {r \in Receivers : rstat[r] = "successful" /\ conf[r] # NoConf}

DiscoveryConfig ==
    /\ phase = "stop" /\ running = {}
    /\ phase' = "done"
    /\ out' = [receivers |-> Embedded,
               observers |-> {o \in Observers : ostat[o] \in {"partial", "successful"}}]
    /\ UNCHANGED <<setup, running, found>>

Records == UNION {[1 .. n -> Statuses] : n \in 1 .. MaxRecords}

Next ==
    \/ \E o \in Observers : CreateObserver(o) \/ SkipObserver(o) \/ StopReceiver(o)
    \/ CreateFails
    \/ \E S \in SUBSET created : StartAll(S)
    \/ NoObservers \/ EndWait \/ DiscoveryConfig
    \/ \E d \in Observers, r \in Receivers, o \in ObserverIDs, recs \in Records :
         ConsumeLogs(d, r, o, recs)

Spec == Init /\ [][Next]_vars

-----------------------------------------------------------------------------
(* Properties.                                                             *)

TypeOK ==
    /\ phase \in {"create", "wait", "stop", "done", "none", "failed"}
    /\ todo \subseteq Observers /\ created \subseteq Observers \ todo
    /\ running \subseteq created
    /\ dflt \in [Receivers -> SUBSET (Observers \union {"default"})]
    /\ entry \in [Receivers -> [Observers -> [kind : {"none", "copy", "alias"},
                                              blocks : SUBSET (Observers \union {"default"})]]]
    /\ rstat \in [Receivers -> Statuses \union {"none"}]
    /\ ostat \in [ObserverIDs -> Statuses \union {"none"}]
    /\ conf \in [Receivers -> [src : ObserverIDs, form : {"none", "unexpanded", "expanded"}]]
    /\ out \in [receivers : SUBSET Receivers, observers : SUBSET Observers]
    /\ okBy \subseteq Receivers \X Observers \X ObserverIDs

Rank(s) == CASE s = "none" -> 0 [] s = "failed" -> 1
             [] s = "partial" -> 2 [] s = "successful" -> 3

\* No ConsumeLogs call makes the status of a receiver or of an observer worse
\* than it was before the call, whatever the order in which the discovery
\* receivers report (determineCurrentStatus).
StatusNeverWorsens ==
    [][/\ \A r \in Receivers : Rank(rstat'[r]) >= Rank(rstat[r])
       /\ \A o \in ObserverIDs : Rank(ostat'[o]) >= Rank(ostat[o])]_vars

\* What was discovered is what is built: exactly the receivers that a call of
\* ConsumeLogs has reported successful in its last record are embedded, and
\* with each of them every observer that was named with its success.  Neither
\* of the two status maps loses a success to a later or an earlier failure of
\* the same receiver with another observer, or of another receiver with the
\* same observer.  (A success that names no observer embeds the receiver
\* alone.)
SuccessEmbedded ==
    phase = "done" =>
        /\ out.receivers = {t[1] : t \in okBy}
        /\ {t[3] : t \in okBy} \ {NoObserver} \subseteq out.observers

\* A receiver is embedded with the config of an observer that was created,
\* that it has a rule for and for which it is enabled.
EmbeddedWasConfigured ==
    \A r \in out.receivers : r \in Enabled /\ conf[r].src \in created /\ Used(r, conf[r].src)

=============================================================================
