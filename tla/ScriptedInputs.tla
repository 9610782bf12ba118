--------------------------- MODULE ScriptedInputs ---------------------------
(***************************************************************************)
(* The scripted inputs receiver (scriptedinputsreceiver/operator.go and    *)
(* commander.go): the loop that runs a script in every interval, and for   *)
(* every run the goroutine that waits for the process (watch), the one     *)
(* that ends the run, the kill timer of Stop, and the one that reads the   *)
(* output.                                                                 *)
(*                                                                         *)
(* os/exec is external: it reaps the process, copies its output into the   *)
(* writer of an unbuffered pipe, kills the process when the context of the *)
(* run is cancelled, and Wait returns once the process is reaped and its   *)
(* output copied.  The output ends when nobody holds its pipe: the         *)
(* shell's children inherit the pipe, and no signal is sent to them.       *)
(***************************************************************************)
EXTENDS Integers, FiniteSets

CONSTANTS MaxCycles,   \* bound: runs of the script
          MaxLines,    \* bound: pieces of output of one run
          ScanMayFail  \* whether the scanner may give up: when max_log_size is 0

Cycles == 1..MaxCycles

ASSUME ScriptedAssumption ==
    MaxCycles \in Nat \ {0} /\ MaxLines \in Nat /\ ScanMayFail \in BOOLEAN

VARIABLES
    loop,    \* the goroutine of Start: where it is
    cycle,   \* the run it is at
    root,    \* the context that Stop cancels
    over,    \* the runs whose own context is cancelled
    script,  \* the state of every run
    host     \* the caller of Stop: "up", "waiting" or "stopped"

scriptVars == <<loop, cycle, root, over, script, host>>

\* sh       the process; ended with status zero or "failed"
\* heirs    whether children of the shell hold the pipe of the output
\* reaped   whether Process.Wait has returned: a signal is an error from then on
\* copier   the copying of the output: holds a line until it is read
\* watch    the goroutine watch; "closed": waitCh is closed
\* done     doneCh
\* ender    the goroutine that ends the run, timer its kill timer, err innerErr
\* closed   whether the writer of the pipe is closed
\* reader   the goroutine readOutput
Script ==
    [sh : {"none", "alive", "zero", "failed"}, heirs : BOOLEAN, reaped : BOOLEAN,
     copier : {"idle", "line", "eof"}, lines : 0..MaxLines,
     watch : {"none", "wait", "closed"}, done : 0..1,
     ender : {"none", "select", "signal", "await", "over"},
     timer : {"armed", "fired"}, err : BOOLEAN, closed : BOOLEAN,
     reader : {"none", "scan", "write", "over"}]

NoScript ==
    [sh |-> "none", heirs |-> FALSE, reaped |-> FALSE, copier |-> "idle", lines |-> 0,
     watch |-> "none", done |-> 0, ender |-> "none", timer |-> "armed", err |-> FALSE,
     closed |-> FALSE, reader |-> "none"]

Started == [NoScript EXCEPT !.sh = "alive", !.watch = "wait", !.ender = "select",
                            !.reader = "scan"]

ScriptsInit ==
    /\ loop = "idle" /\ cycle = 0 /\ root = "live" /\ over = {}
    /\ script = [i \in Cycles |-> NoScript]
    /\ host = "up"

CtxDone(i) == root = "cancelled" \/ i \in over

\* The counter of the wait group is zero.
NoneUnderWay ==
    \A i \in Cycles : script[i].ender \in {"none", "over"} /\ script[i].reader \in {"none", "over"}

\* A step of run i's goroutines and process only.
Becomes(i, s) ==
    /\ script' = [script EXCEPT ![i] = s]
    /\ UNCHANGED <<loop, cycle, root, over, host>>

-----------------------------------------------------------------------------
(* The loop of Start, with beginCycle                                      *)

StartOperator ==
    /\ loop = "idle"
    /\ loop' = "begin"
    /\ UNCHANGED <<cycle, root, over, script, host>>

\* cmd.Start looks at the context first.
BeginCycle ==
    /\ loop = "begin" /\ cycle < MaxCycles
    /\ cycle' = cycle + 1
    /\ loop' = IF root = "cancelled" THEN "select" ELSE "starting"
    /\ UNCHANGED <<root, over, script, host>>

StartScript ==
    /\ loop = "starting"
    /\ script' = [script EXCEPT ![cycle] = Started]
    /\ loop' = "select"
    /\ UNCHANGED <<cycle, root, over, host>>

StartFails ==
    /\ loop = "starting"
    /\ loop' = "select"
    /\ UNCHANGED <<cycle, root, over, script, host>>

LoopEnds ==
    /\ loop = "select" /\ root = "cancelled"
    /\ loop' = "ended" /\ over' = over \union {cycle}
    /\ UNCHANGED <<cycle, root, script, host>>

IntervalEnds ==
    /\ loop = "select"
    /\ loop' = "drain" /\ over' = over \union {cycle}
    /\ UNCHANGED <<cycle, root, script, host>>

NextCycle ==
    /\ loop = "drain" /\ NoneUnderWay
    /\ loop' = "begin"
    /\ UNCHANGED <<cycle, root, over, script, host>>

-----------------------------------------------------------------------------
(* The process and os/exec                                                 *)

\* The shell runs a command, in the foreground or in the background.
ScriptForks(i) ==
    /\ script[i].sh = "alive" /\ ~script[i].heirs
    /\ Becomes(i, [script[i] EXCEPT !.heirs = TRUE])

HeirsEnd(i) ==
    /\ script[i].heirs
    /\ Becomes(i, [script[i] EXCEPT !.heirs = FALSE])

ScriptPrints(i) ==
    LET s == script[i]
    IN /\ s.sh = "alive" \/ s.heirs
       /\ s.copier = "idle" /\ s.lines < MaxLines
       /\ Becomes(i, [s EXCEPT !.copier = "line", !.lines = @ + 1])

ScriptExits(i) ==
    /\ script[i].sh = "alive"
    /\ \E status \in {"zero", "failed"} : Becomes(i, [script[i] EXCEPT !.sh = status])

ContextKills(i) ==
    /\ script[i].sh = "alive" /\ CtxDone(i)
    /\ Becomes(i, [script[i] EXCEPT !.sh = "failed"])

Reap(i) ==
    /\ script[i].sh \in {"zero", "failed"} /\ ~script[i].reaped
    /\ Becomes(i, [script[i] EXCEPT !.reaped = TRUE])

CopyEnds(i) ==
    /\ script[i].sh \in {"zero", "failed"} /\ ~script[i].heirs
    /\ script[i].copier = "idle"
    /\ Becomes(i, [script[i] EXCEPT !.copier = "eof"])

-----------------------------------------------------------------------------
(* The goroutines of a run                                                 *)

\* Mutant: watch waits for the process, not for its output.
WatchProcess(i) ==
    LET s == script[i]
    IN /\ s.watch = "wait" /\ s.reaped
       /\ Becomes(i, [s EXCEPT !.watch = "closed", !.done = IF s.sh = "zero" THEN 1 ELSE 0])

\* Mutant: waitCh is closed only when the script succeeds.
WatchLeavesOpen(i) ==
    LET s == script[i]
    IN /\ s.watch = "wait" /\ s.reaped /\ s.copier = "eof" /\ s.sh = "zero"
       /\ Becomes(i, [s EXCEPT !.watch = "closed", !.done = 1])

\* Done is signalled only when the script exits with status zero.
Watch(i) ==
    LET s == script[i]
    IN /\ s.watch = "wait" /\ s.reaped /\ s.copier = "eof"
       /\ Becomes(i, [s EXCEPT !.watch = "closed", !.done = IF s.sh = "zero" THEN 1 ELSE 0])

EndOnDone(i) ==
    /\ script[i].ender = "select" /\ script[i].done = 1
    /\ Becomes(i, [script[i] EXCEPT !.done = @ - 1, !.closed = TRUE, !.ender = "over"])

EndOnContext(i) ==
    /\ script[i].ender = "select" /\ CtxDone(i)
    /\ Becomes(i, [script[i] EXCEPT !.ender = "signal"])

\* commander.Stop: once the process is reaped SIGTERM is an error, and the
\* writer stays open.
StopSignals(i) ==
    /\ script[i].ender = "signal"
    /\ Becomes(i, [script[i] EXCEPT !.ender = IF script[i].reaped THEN "over" ELSE "await"])

\* Ten seconds later: SIGKILL, which fails likewise.
KillTimer(i) ==
    LET s == script[i]
    IN /\ s.ender = "await" /\ s.timer = "armed"
       /\ Becomes(i, [s EXCEPT !.timer = "fired", !.err = s.reaped,
                               !.sh = IF s.sh = "alive" THEN "failed" ELSE s.sh])

StopReturnsTo(i) ==
    /\ script[i].ender = "await" /\ script[i].watch = "closed"
    /\ Becomes(i, [script[i] EXCEPT !.ender = "over", !.closed = ~script[i].err])

ReadLine(i) ==
    /\ script[i].reader = "scan" /\ script[i].copier = "line"
    /\ Becomes(i, [script[i] EXCEPT !.reader = "write", !.copier = "idle"])

WriteEntry(i) ==
    /\ script[i].reader = "write"
    /\ Becomes(i, [script[i] EXCEPT !.reader = "scan"])

ReadEOF(i) ==
    /\ script[i].reader = "scan" /\ script[i].closed
    /\ Becomes(i, [script[i] EXCEPT !.reader = "over"])

\* The scanner gives up before it has read everything.
ScanFails(i) ==
    /\ ScanMayFail /\ script[i].reader = "scan"
    /\ Becomes(i, [script[i] EXCEPT !.reader = "over"])

-----------------------------------------------------------------------------
(* The operator's Stop                                                     *)

StopOperator ==
    /\ loop # "idle" /\ host = "up"
    /\ host' = "waiting" /\ root' = "cancelled"
    /\ UNCHANGED <<loop, cycle, over, script>>

OperatorStopped ==
    /\ host = "waiting" /\ NoneUnderWay
    /\ host' = "stopped"
    /\ UNCHANGED <<loop, cycle, root, over, script>>

-----------------------------------------------------------------------------
\* The steps of goroutines, os/exec and timers, which are taken (weak fairness);
\* every run has finitely many.  A script and its children may run for ever,
\* and Stop need not be called.
CollectorStep ==
    \/ BeginCycle \/ StartScript \/ LoopEnds \/ IntervalEnds \/ NextCycle
    \/ OperatorStopped
    \/ \E i \in Cycles :
          \/ ContextKills(i) \/ Reap(i) \/ CopyEnds(i) \/ Watch(i)
          \/ EndOnDone(i) \/ EndOnContext(i) \/ StopSignals(i) \/ KillTimer(i)
          \/ StopReturnsTo(i) \/ ReadLine(i) \/ WriteEntry(i) \/ ReadEOF(i)

ScriptsNext ==
    \/ CollectorStep
    \/ StartOperator \/ StartFails \/ StopOperator
    \/ \E i \in Cycles :
          \/ ScriptForks(i) \/ HeirsEnd(i) \/ ScriptPrints(i) \/ ScriptExits(i)
          \/ ScanFails(i)

-----------------------------------------------------------------------------
ScriptsTypeOK ==
    /\ loop \in {"idle", "begin", "starting", "select", "drain", "ended"}
    /\ cycle \in 0..MaxCycles /\ over \subseteq 0..MaxCycles
    /\ root \in {"live", "cancelled"} /\ host \in {"up", "waiting", "stopped"}
    /\ script \in [Cycles -> Script]

\* The pipe is closed only after everything the script printed has been read:
\* no output is cut off, on either way out of the run.
NothingCutOff ==
    \A i \in Cycles : script[i].closed => script[i].copier = "eof"

\* A run is wedged when its process ended before it was signalled, so that the
\* reader waits at a pipe nobody closes, or when nobody reads what it printed.
Wedged ==
    \E i \in Cycles :
        \/ script[i].ender = "over" /\ ~script[i].closed /\ script[i].reader = "scan"
        \/ script[i].reader = "over" /\ script[i].copier = "line"

\* Children that the shell has left behind hold the pipe.
Orphaned == \E i \in Cycles : script[i].heirs /\ script[i].sh \in {"zero", "failed"}

\* However long the shell would run, Stop returns, unless a run is wedged or
\* as long as there are orphans: Stop ends the shell only, and Wait goes on
\* until they have closed the pipe.  When the last of them ends Stop returns
\* after all.
StopReturns == host = "waiting" ~> host = "stopped" \/ Wedged \/ Orphaned
=============================================================================
