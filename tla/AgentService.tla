---------------------------- MODULE AgentService ----------------------------
(***************************************************************************)
(* internal/service/agent_service.go: Start and Stop, called from any      *)
(* goroutine, around the run loops of the collector and the dispatcher.    *)
(* Each Start that is not refused makes a new run with a context and an    *)
(* exit channel of its own; the struct remembers those of the current run. *)
(***************************************************************************)
EXTENDS Naturals

CONSTANTS
    Caller,      \* goroutines that call Start and Stop
    Part,        \* the loops of a run: runner, and dispatcher if configured
    MaxRuns      \* bound: runs

ASSUME PartAssumption == Part # {}
ASSUME RunsAssumption == MaxRuns \in Nat

VARIABLES
    current,     \* the run whose cancel and exitCh the struct holds, or 0 (nil)
    runs,        \* number of runs made so far
    cancelled,   \* runs whose context is cancelled
    running,     \* << run, part >>: loops that have not returned
    exited,      \* runs whose exit channel is closed
    cpc,         \* where a caller is: "none", "cancel", "wait", or how it returned
    target,      \* the run a Stop has taken out of the struct
    timedOut     \* history: some Stop has given up waiting

serviceVars == << current, runs, cancelled, running, exited, cpc, target, timedOut >>

Run == 1 .. MaxRuns

Returned == {"none", "started", "nothing", "clean", "timeout"}

TypeOK == /\ current \in 0 .. MaxRuns
          /\ runs \in 0 .. MaxRuns
          /\ cancelled \subseteq Run
          /\ running \subseteq Run \X Part
          /\ exited \subseteq Run
          /\ cpc \in [Caller -> Returned \cup {"cancel", "wait"}]
          /\ target \in [Caller -> 0 .. MaxRuns]
          /\ timedOut \in BOOLEAN

Init == /\ current = 0
        /\ runs = 0
        /\ cancelled = {}
        /\ running = {}
        /\ exited = {}
        /\ cpc = [c \in Caller |-> "none"]
        /\ target = [c \in Caller |-> 0]
        /\ timedOut = FALSE

------------------------------------------------------------------------------
(* Start *)

\* Variant: a second Start is not refused.
MutStart(c) ==
    /\ cpc[c] \in Returned
    /\ runs < MaxRuns
    /\ runs' = runs + 1
    /\ current' = runs + 1
    /\ running' = running \cup ({runs + 1} \X Part)
    /\ cpc' = [cpc EXCEPT ![c] = "started"]
    /\ UNCHANGED << cancelled, exited, target, timedOut >>

\* wg.Add precedes every go statement, so a loop counts as running from here.
Start(c) ==
    /\ cpc[c] \in Returned
    /\ current = 0
    /\ runs < MaxRuns
    /\ runs' = runs + 1
    /\ current' = runs + 1
    /\ running' = running \cup ({runs + 1} \X Part)
    /\ cpc' = [cpc EXCEPT ![c] = "started"]
    /\ UNCHANGED << cancelled, exited, target, timedOut >>

StartAgain(c) ==
    /\ cpc[c] \in Returned
    /\ current # 0
    /\ cpc' = [cpc EXCEPT ![c] = "started"]
    /\ UNCHANGED << current, runs, cancelled, running, exited, target, timedOut >>

------------------------------------------------------------------------------
(* Stop *)

\* Variant: Stop does not look for nil.
MutStopTake(c) ==
    /\ cpc[c] \in Returned
    /\ target' = [target EXCEPT ![c] = current]
    /\ current' = 0
    /\ cpc' = [cpc EXCEPT ![c] = "cancel"]
    /\ UNCHANGED << runs, cancelled, running, exited, timedOut >>

\* Under mu: take cancel and exitCh and leave nil.
StopTake(c) ==
    /\ cpc[c] \in Returned
    /\ current # 0
    /\ target' = [target EXCEPT ![c] = current]
    /\ current' = 0
    /\ cpc' = [cpc EXCEPT ![c] = "cancel"]
    /\ UNCHANGED << runs, cancelled, running, exited, timedOut >>

\* There is nothing to take: nil at once.
StopNothing(c) ==
    /\ cpc[c] \in Returned
    /\ current = 0
    /\ cpc' = [cpc EXCEPT ![c] = "nothing"]
    /\ UNCHANGED << current, runs, cancelled, running, exited, target, timedOut >>

StopCancel(c) ==
    /\ cpc[c] = "cancel"
    /\ cancelled' = cancelled \cup {target[c]}
    /\ cpc' = [cpc EXCEPT ![c] = "wait"]
    /\ UNCHANGED << current, runs, running, exited, target, timedOut >>

\* Variant: Stop does not wait for the exit channel.
MutStopClean(c) ==
    /\ cpc[c] = "wait"
    /\ cpc' = [cpc EXCEPT ![c] = "clean"]
    /\ target' = [target EXCEPT ![c] = 0]
    /\ UNCHANGED << current, runs, cancelled, running, exited, timedOut >>

StopClean(c) ==
    /\ cpc[c] = "wait"
    /\ target[c] \in exited
    /\ cpc' = [cpc EXCEPT ![c] = "clean"]
    /\ target' = [target EXCEPT ![c] = 0]
    /\ UNCHANGED << current, runs, cancelled, running, exited, timedOut >>

\* The timer of stopTimeout; it may also win a select both can win.
StopTimeout(c) ==
    /\ cpc[c] = "wait"
    /\ cpc' = [cpc EXCEPT ![c] = "timeout"]
    /\ target' = [target EXCEPT ![c] = 0]
    /\ timedOut' = TRUE
    /\ UNCHANGED << current, runs, cancelled, running, exited >>

------------------------------------------------------------------------------
(* The goroutines of a run *)

\* "Runner is the core loop that should stop when ctx is cancelled."
LoopReturns(g, part) ==
    /\ << g, part >> \in running
    /\ g \in cancelled
    /\ running' = running \ {<< g, part >>}
    /\ UNCHANGED << current, runs, cancelled, exited, cpc, target, timedOut >>

\* Variant: wg.Add(1) for two loops.
MutCloseExitEarly(g) ==
    /\ g \in (1 .. runs) \ exited
    /\ \E part \in Part : << g, part >> \notin running
    /\ exited' = exited \cup {g}
    /\ UNCHANGED << current, runs, cancelled, running, cpc, target, timedOut >>

\* Variant: the channel is read from the struct, where Stop has left nil.
MutCloseExitOfStruct(g) ==
    /\ g \in (1 .. runs) \ exited
    /\ g = current
    /\ \A part \in Part : << g, part >> \notin running
    /\ exited' = exited \cup {g}
    /\ UNCHANGED << current, runs, cancelled, running, cpc, target, timedOut >>

\* wg.Wait, then close(exitCh).
CloseExit(g) ==
    /\ g \in (1 .. runs) \ exited
    /\ \A part \in Part : << g, part >> \notin running
    /\ exited' = exited \cup {g}
    /\ UNCHANGED << current, runs, cancelled, running, cpc, target, timedOut >>

CallerStep(c) == \/ Start(c) \/ StartAgain(c) \/ StopTake(c) \/ StopNothing(c)
                 \/ StopCancel(c) \/ StopClean(c) \/ StopTimeout(c)

RunStep(g) == (\E part \in Part : LoopReturns(g, part)) \/ CloseExit(g)

Next == (\E c \in Caller : CallerStep(c)) \/ (\E g \in Run : RunStep(g))

Spec == Init /\ [][Next]_serviceVars

\* A loop that is cancelled returns some time, and a call that is under way
\* goes on: its timer expires if nothing else happens.
Fairness == /\ \A g \in Run : WF_serviceVars(RunStep(g))
            /\ \A g \in Run : \A part \in Part : WF_serviceVars(LoopReturns(g, part))
            /\ \A c \in Caller : WF_serviceVars(StopCancel(c))
                                 /\ WF_serviceVars(StopClean(c) \/ StopTimeout(c))

FairSpec == Spec /\ Fairness

------------------------------------------------------------------------------
(* Properties *)

(* No loop runs that nobody can stop any more (agent_service.go:56-70,     *)
(* 103-116): its run is the current one, or cancelled, or taken by a Stop  *)
(* that is about to cancel it, whatever Starts and Stops race.             *)
NoOrphan ==
    \A g \in Run : (\E part \in Part : << g, part >> \in running) =>
        \/ g = current
        \/ g \in cancelled
        \/ \E c \in Caller : cpc[c] = "cancel" /\ target[c] = g

(* "Stopped cleanly" (agent_service.go:121-124) is said only when every    *)
(* loop of the run that was stopped has returned.                          *)
CleanStopIsComplete ==
    [][\A c \in Caller : cpc[c] = "wait" /\ cpc'[c] = "clean"
          => /\ target[c] \in cancelled
             /\ \A part \in Part : << target[c], part >> \notin running]_serviceVars

(* While no Stop is under way and none has timed out, the loops of two     *)
(* runs never share the buffer (agent_service.go:56-62, 103-124), although *)
(* Stop forgets a run before it has ended and a Start may follow at once.  *)
OneRunUnlessTimedOut ==
    ~timedOut /\ (\A c \in Caller : cpc[c] \in Returned)
        => \A x, y \in running : x[1] = y[1]

(* Every run that was told to stop closes its exit channel, whichever      *)
(* Stops and Starts have changed the struct since (agent_service.go:91-95). *)
CancelledRunsExit == \A g \in Run : g \in cancelled ~> g \in exited
==============================================================================
