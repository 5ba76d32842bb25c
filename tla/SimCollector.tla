---------------------------- MODULE SimCollector ----------------------------
(***************************************************************************)
(* internal/service/sim_collector.go: the scheduler that starts the scans  *)
(* of the low and medium tier in goroutines of their own, each kind        *)
(* guarded by a "running" flag, and takes the host metrics itself.         *)
(*                                                                         *)
(* One SimCollector serves every run of the service: each Start calls Run  *)
(* again, with a context of its own.  The flags, and the scans that a run  *)
(* has left behind, are shared by all; and a Stop that timed out leaves    *)
(* two loops side by side.                                                 *)
(*                                                                         *)
(* A ticker holds at most one tick, and drops the others.  The scan of the *)
(* operating system and the buffer are external: a scan yields a snapshot  *)
(* or an error, a Save succeeds or fails.                                  *)
(***************************************************************************)
EXTENDS Naturals

CONSTANTS
    Kind,        \* the kinds of scans that are looked at
    Content,     \* what a process snapshot can show
    Failing,     \* the kinds whose scan may return an error
    MaxRuns,     \* bound: runs of the service
    MaxScans     \* bound: process snapshots taken

Hardware == "hardware_details"
Process == "process_snapshot"
Network == "network_connections"
Software == "software_inventory"
Security == "security_snapshot"
AllKinds == {Hardware, Process, Network, Software, Security}

ASSUME KindAssumption == {Hardware, Process} \subseteq Kind /\ Kind \subseteq AllKinds
\* The collectors of the hardware and of the security return no error for a context
\* that is not nil; the retry timer of a failed hardware scan is never armed.
ASSUME FailingAssumption == Failing \subseteq Kind \ {Hardware, Security}
ASSUME BoundAssumption == MaxRuns \in Nat \ {0} /\ MaxScans \in Nat

VARIABLES
    loop,        \* where Run is, for each run of the service
    ticks,       \* tickers of a run with a tick in their channel
    cancelled,   \* runs whose context is done
    running,     \* kinds whose running flag is set
    owner,       \* scans that will reset the flag of their kind when they end
    scan,        \* the stage of each scan
    shot,        \* the process snapshot being saved: [content, at]
    lastHash,    \* lastProcessHash: the snapshot it was computed from
    buffered     \* history: the content of the last buffered process snapshot

collectorVars == << loop, ticks, cancelled, running, owner, scan, shot, lastHash, buffered >>

Run == 1 .. MaxRuns

\* Where a scan runs: in the loop of a run, at startup, or in a goroutine.  Two
\* goroutines are enough to see a kind scanned twice at once.
Goroutine == {MaxRuns + 1, MaxRuns + 2}
Scan == ({Hardware} \X Run) \cup (Kind \X Goroutine)

LoopStage == {"idle", "startup", "hardware", "rest", "select", "host", "stopped"}
ScanStage == {"none", "check", "mark", "collect", "save", "service"}

\* The host metrics are taken by the loop itself.
Ticker == {"T2"} \cup (Kind \ {Process, Network})

\* Variant: a tick triggers a kind that is not configured.
MutKindsOf(t) == IF t = "T2" THEN {Process, Network} ELSE {t} \cap Kind

\* The kinds a tick triggers.
KindsOf(t) == IF t = "T2" THEN Kind \cap {Process, Network} ELSE {t} \cap Kind

Snapshot == [content : Content, at : 1 .. MaxScans]
NoSnapshot == [content |-> "none", at |-> 0]

Scanning(k) == \E x \in Scan : x[1] = k /\ scan[x] # "none"

TypeOK ==
    /\ loop \in [Run -> LoopStage]
    /\ ticks \in [Run -> SUBSET Ticker]
    /\ cancelled \subseteq Run
    /\ running \subseteq Kind
    /\ owner \subseteq Scan
    /\ scan \in [Scan -> ScanStage]
    /\ {shot, lastHash} \subseteq Snapshot \cup {NoSnapshot}
    /\ buffered \in Content \cup {"none"}

Init ==
    /\ loop = [r \in Run |-> "idle"] /\ ticks = [r \in Run |-> {}] /\ cancelled = {}
    /\ running = {} /\ owner = {} /\ scan = [x \in Scan |-> "none"]
    /\ shot = NoSnapshot /\ lastHash = NoSnapshot /\ buffered = "none"

GoTo(r, stage) == loop' = [loop EXCEPT ![r] = stage]

------------------------------------------------------------------------------
(* Starting a scan *)

\* The goroutines that scan the kinds of K.
Launched(K) ==
    {x \in Kind \X Goroutine :
        x[1] \in K /\ x[2] = (IF scan[<< x[1], MaxRuns + 1 >>] = "none" THEN MaxRuns + 1
                             ELSE MaxRuns + 2)}

\* A scan of the hardware begins with runHardwareScan, which looks at the flag.
FirstStage(k) == IF k = Hardware THEN "check" ELSE "collect"

\* The trigger functions: a kind whose flag is set is left alone, the others are
\* scanned in goroutines that own it.  `here` are scans the loop begins in place.
Trigger(K, here) ==
    LET new == Launched(K \ running)
    IN  /\ running' = running \cup K
        /\ owner' = owner \cup new
        /\ scan' = [x \in Scan |-> IF x \in new \cup here THEN FirstStage(x[1]) ELSE scan[x]]

\* AgentService.Start: the run before has been taken by a Stop, which cancels it.  A
\* Start between the two loses nothing: a cancellation only adds the return of the loop.
StartRun(r) ==
    /\ loop[r] = "idle"
    /\ r = 1 \/ r - 1 \in cancelled
    /\ GoTo(r, "startup")
    /\ UNCHANGED << ticks, cancelled, running, owner, scan, shot, lastHash, buffered >>

\* The startup triggers the software and scans the hardware in place,
Startup(r) ==
    /\ loop[r] = "startup"
    /\ Trigger(Kind \cap {Software}, {<< Hardware, r >>})
    /\ GoTo(r, "hardware")
    /\ UNCHANGED << ticks, cancelled, shot, lastHash, buffered >>

\* and then triggers the rest, which waits for nothing.
StartupRest(r) ==
    /\ loop[r] = "rest"
    /\ Trigger(Kind \cap {Security, Process, Network}, {})
    /\ GoTo(r, "select")
    /\ UNCHANGED << ticks, cancelled, shot, lastHash, buffered >>

------------------------------------------------------------------------------
(* The loop *)

TickerFires(r, t) ==
    /\ loop[r] \notin {"idle", "stopped"}
    /\ ticks' = [ticks EXCEPT ![r] = @ \cup {t}]
    /\ UNCHANGED << loop, cancelled, running, owner, scan, shot, lastHash, buffered >>

TakeTick(r, t) ==
    /\ loop[r] = "select"
    /\ t \in ticks[r]
    /\ ticks' = [ticks EXCEPT ![r] = @ \ {t}]
    /\ Trigger(KindsOf(t), {})
    /\ UNCHANGED << loop, cancelled, shot, lastHash, buffered >>

\* A tick of T1, whenever it comes: the loop takes and saves the host metrics,
HostTick(r) ==
    /\ loop[r] = "select"
    /\ GoTo(r, "host")
    /\ UNCHANGED << ticks, cancelled, running, owner, scan, shot, lastHash, buffered >>

\* or gets an error of either.
HostMetricsDone(r) ==
    /\ loop[r] = "host"
    /\ GoTo(r, "select")
    /\ UNCHANGED << ticks, cancelled, running, owner, scan, shot, lastHash, buffered >>

\* Stop cancels the context, whatever the loop is doing.
Cancel(r) ==
    /\ loop[r] # "idle" /\ r \notin cancelled
    /\ cancelled' = cancelled \cup {r}
    /\ UNCHANGED << loop, ticks, running, owner, scan, shot, lastHash, buffered >>

\* The return stops the tickers.  The scans go on.
LoopStops(r) ==
    /\ loop[r] = "select"
    /\ r \in cancelled
    /\ GoTo(r, "stopped")
    /\ ticks' = [ticks EXCEPT ![r] = {}]
    /\ UNCHANGED << cancelled, running, owner, scan, shot, lastHash, buffered >>

------------------------------------------------------------------------------
(* A scan.  It ends with the deferred reset of the flag if it owns it; a    *)
(* startup scan of the hardware gives the loop back to its startup.         *)

\* Variant: the startup waits for a scan that has ended.
MutLoopAfter(x) == loop

LoopAfter(x) == [r \in Run |-> IF x = << Hardware, r >> THEN "rest" ELSE loop[r]]

FlagsAfter(x) == IF x \in owner THEN running \ {x[1]} ELSE running

\* Variant: the flag is reset only when the service ends.
MutFinishKeepsFlag(x) ==
    /\ scan' = [scan EXCEPT ![x] = "none"]
    /\ owner' = owner \ {x}
    /\ loop' = LoopAfter(x)
    /\ UNCHANGED running

Finish(x) ==
    /\ scan' = [scan EXCEPT ![x] = "none"]
    /\ owner' = owner \ {x}
    /\ running' = FlagsAfter(x)
    /\ loop' = LoopAfter(x)

\* runHardwareScan reads the flag and unlocks.  It finds it set when a trigger function
\* has set it for this goroutine; but at startup it may be that of another scan.
ReadFlag(x) ==
    /\ scan[x] = "check"
    /\ scan' = [scan EXCEPT ![x] = IF Hardware \in running THEN "collect" ELSE "mark"]
    /\ UNCHANGED << loop, ticks, cancelled, running, owner, shot, lastHash, buffered >>

\* Variant: there is no second look at the flag.
MutMarkFlag(x) ==
    /\ scan[x] = "mark"
    /\ scan' = [scan EXCEPT ![x] = "collect"]
    /\ running' = running \cup {Hardware}
    /\ owner' = owner \cup {x}
    /\ UNCHANGED << loop, ticks, cancelled, shot, lastHash, buffered >>

\* Locked again, it takes the flag, or returns if another scan has taken it.
MarkFlag(x) ==
    /\ scan[x] = "mark"
    /\ IF Hardware \in running THEN Finish(x)
       ELSE /\ scan' = [scan EXCEPT ![x] = "collect"]
            /\ running' = running \cup {Hardware}
            /\ owner' = owner \cup {x}
            /\ UNCHANGED loop
    /\ UNCHANGED << ticks, cancelled, shot, lastHash, buffered >>

ScanFails(x) ==
    /\ scan[x] = "collect"
    /\ x[1] \in Failing
    /\ Finish(x)
    /\ UNCHANGED << ticks, cancelled, shot, lastHash, buffered >>

ScanYields(x) ==
    /\ scan[x] = "collect"
    /\ x[1] # Process
    /\ scan' = [scan EXCEPT ![x] = "save"]
    /\ UNCHANGED << loop, ticks, cancelled, running, owner, shot, lastHash, buffered >>

\* The hashed payload holds CollectedAt, an instant of this snapshot alone.
Unchanged(snap) == snap = lastHash

\* A process snapshot is hashed, and the hash is kept before the Save.
ProcessSnapshot(x, c) ==
    LET snap == [content |-> c, at |-> shot.at + 1]
    IN  /\ scan[x] = "collect"
        /\ x[1] = Process
        /\ shot.at < MaxScans
        /\ shot' = snap
        /\ IF Unchanged(snap)
           THEN Finish(x) /\ UNCHANGED lastHash
           ELSE /\ scan' = [scan EXCEPT ![x] = "save"]
                /\ lastHash' = snap
                /\ UNCHANGED << running, owner, loop >>
        /\ UNCHANGED << ticks, cancelled, buffered >>

\* A Save ends the scan, with or without an error: the error is logged only.  A
\* process snapshot that is saved goes on to its services.
SaveEnds(x) ==
    /\ scan[x] \in {"save", "service"}
    /\ Finish(x)
    /\ UNCHANGED << ticks, cancelled, shot, lastHash, buffered >>

ProcessSaved(x) ==
    /\ scan[x] = "save"
    /\ x[1] = Process
    /\ buffered' = shot.content
    /\ scan' = [scan EXCEPT ![x] = "service"]
    /\ UNCHANGED << loop, ticks, cancelled, running, owner, shot, lastHash >>

ScanStep(x) ==
    \/ ReadFlag(x) \/ MarkFlag(x)
    \/ ScanFails(x) \/ ScanYields(x) \/ (\E c \in Content : ProcessSnapshot(x, c))
    \/ ProcessSaved(x) \/ SaveEnds(x)

------------------------------------------------------------------------------
LoopStep(r) == \/ Startup(r) \/ StartupRest(r)
               \/ (\E t \in Ticker : TakeTick(r, t)) \/ HostTick(r) \/ HostMetricsDone(r)
               \/ LoopStops(r)

Next == \/ \E r \in Run : StartRun(r) \/ Cancel(r) \/ LoopStep(r)
        \/ \E r \in Run, t \in Ticker : TickerFires(r, t)
        \/ \E x \in Scan : ScanStep(x)

Spec == Init /\ [][Next]_collectorVars

\* The loops and the goroutines run, and the select is fair to a ready channel;
\* neither a ticker nor a Start or a Stop has to come.
Fairness == /\ \A r \in Run : /\ WF_collectorVars(Startup(r) \/ StartupRest(r))
                               /\ WF_collectorVars(HostMetricsDone(r))
                               /\ SF_collectorVars(LoopStops(r))
            /\ \A r \in Run, t \in Ticker : SF_collectorVars(TakeTick(r, t))
            /\ \A x \in Scan : WF_collectorVars(ScanStep(x))

FairSpec == Spec /\ Fairness

------------------------------------------------------------------------------
(* Properties *)

\* A scan that has got past the flag.
UnderWay(x) == scan[x] \in {"collect", "save", "service"}

(* The flags guard the scans (sim_collector.go:205-212, 278-297, "with a    *)
(* mutex to prevent reentry" at 351), over every interleaving of the reads *)
(* and writes of two loops.  A flag is set exactly while one scan owns it, *)
(* and that scan is alive.  Every scan under way owns its flag, so that no *)
(* kind is scanned twice at once, with one exception: a hardware scan that *)
(* a startup makes in place beside the scan of another run, whose flag it  *)
(* takes for its own.  While there is only one run, there is none.         *)
FlagGuardsScan ==
    /\ \A k \in Kind : k \in running <=> \E x \in owner : x[1] = k
    /\ \A x, y \in owner : x[1] = y[1] => x = y
    /\ \A x \in owner : scan[x] # "none"
    /\ \A x \in Scan : UnderWay(x) /\ x \notin owner =>
          /\ x \in {Hardware} \X Run
          /\ \E r \in Run \ {1} : loop[r] # "idle"

(* Every tick of the medium and low tier a loop gets is answered by a scan *)
(* of its kinds, one that is under way included, unless the loop stops     *)
(* (sim_collector.go:186-195): no kind is shut out for good.               *)
TicksAreAnswered ==
    \A r \in Run : \A t \in Ticker :
        t \in ticks[r] ~> (\A k \in KindsOf(t) : Scanning(k)) \/ loop[r] = "stopped"

(* A cancelled loop returns, in the middle of the startup scan as well     *)
(* (runner.go:5, sim_collector.go:164-167).                                *)
CancelledLoopStops == \A r \in Run : r \in cancelled ~> loop[r] = "stopped"

(* "If full snapshot unchanged, skip buffering" (sim_collector.go:385).    *)
UnchangedIsSkipped ==
    [][\A x \in Scan : scan[x] = "save" /\ scan'[x] = "service"
          => shot.content # buffered]_collectorVars
==============================================================================
