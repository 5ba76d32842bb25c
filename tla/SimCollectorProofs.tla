------------------------- MODULE SimCollectorProofs -------------------------
(***************************************************************************)
(* Proofs about SimCollector: the running flags, for any set of kinds and  *)
(* contents and any number of runs and snapshots.                          *)
(***************************************************************************)
EXTENDS SimCollector, TLAPS

LEMMA KindsAreConfigured == ASSUME NEW t \in Ticker PROVE KindsOf(t) \subseteq Kind
BY DEF KindsOf

\* The slots of the goroutines are none of a run.
LEMMA Slots == /\ Run \cap Goroutine = {} /\ MaxRuns + 1 \in Goroutine /\ 1 \in Run
               /\ Hardware \in Kind /\ Hardware # Process
               /\ Scan \subseteq Kind \X (Run \cup Goroutine)
               /\ \A r \in Run : << Hardware, r >> \in Scan
               /\ \A k \in Kind, g \in Goroutine : << k, g >> \in Scan
BY KindAssumption, BoundAssumption DEF Run, Goroutine, Scan, Hardware, Process

------------------------------------------------------------------------------
(* The flags *)

\* What the flags and the scans need of TypeOK.
FlagType == /\ running \subseteq Kind
            /\ owner \subseteq Scan
            /\ scan \in [Scan -> ScanStage]
            /\ loop \in [Run -> LoopStage]

\* A flag has one owner, which is alive; whoever has none is a startup in place.
OwnerInv ==
    /\ \A k \in Kind : k \in running <=> \E x \in owner : x[1] = k
    /\ \A x, y \in owner : x[1] = y[1] => x = y
    /\ \A x \in owner : scan[x] # "none"
    /\ \A x \in Scan : scan[x] # "none" /\ x \notin owner => x \in {Hardware} \X Run
    /\ \A x \in Scan : scan[x] \in {"check", "mark"} => x[1] = Hardware

\* A loop waits for the scan it makes in place.
PlaceInv == \A r \in Run : scan[<< Hardware, r >>] # "none" => loop[r] = "hardware"

OneRun == \A r \in Run \ {1} : loop[r] = "idle"

\* In the first run the startup scan is the first to ask for its flag.
FirstInv ==
    OneRun =>
        /\ \/ loop[1] \in {"idle", "startup"}
           \/ scan[<< Hardware, 1 >>] \in {"check", "mark"}
           => Hardware \notin running
        /\ UnderWay(<< Hardware, 1 >>) => << Hardware, 1 >> \in owner

FlagInv == FlagType /\ OwnerInv /\ PlaceInv /\ FirstInv

LEMMA FlagsAreGuards == FlagInv => FlagGuardsScan
<1> SUFFICES ASSUME FlagInv, NEW x \in Scan, UnderWay(x), x \notin owner
             PROVE  x \in {Hardware} \X Run /\ ~OneRun
  BY DEF FlagInv, OwnerInv, FlagGuardsScan, OneRun
<1>1. x \in {Hardware} \X Run
  BY DEF FlagInv, OwnerInv, UnderWay
<1>2. PICK r \in Run : x = << Hardware, r >>
  BY <1>1
<1>3. loop[r] = "hardware"
  BY <1>2 DEF FlagInv, PlaceInv, UnderWay
<1>4. CASE r = 1
  BY <1>1, <1>2, <1>4 DEF FlagInv, FirstInv
<1>5. CASE r # 1
  BY <1>1, <1>3, <1>5 DEF OneRun
<1> QED
  BY <1>4, <1>5

LEMMA FlagInit == Init => FlagInv
<1> SUFFICES ASSUME Init PROVE FlagInv
  OBVIOUS
<1>1. FlagType /\ OwnerInv
  BY DEF Init, FlagType, OwnerInv, ScanStage, LoopStage
<1>2. PlaceInv /\ FirstInv
  BY Slots DEF Init, PlaceInv, FirstInv, UnderWay
<1> QED
  BY <1>1, <1>2 DEF FlagInv

------------------------------------------------------------------------------
\* A flag that is set together with the start of a goroutine is owned by it.
LEMMA TriggerKeepsOwners ==
    ASSUME FlagType, OwnerInv, NEW K \in SUBSET Kind, NEW here \in SUBSET ({Hardware} \X Run),
           Trigger(K, here)
    PROVE  /\ running' \subseteq Kind /\ owner' \subseteq Scan /\ scan' \in [Scan -> ScanStage]
           /\ OwnerInv'
           /\ \A r \in Run : scan'[<< Hardware, r >>] =
                 IF << Hardware, r >> \in here THEN "check" ELSE scan[<< Hardware, r >>]
           /\ running' = running \cup K
           /\ owner \subseteq owner'
<1> DEFINE new == (K \ running) \X {MaxRuns + 1}
<1> USE DEF FlagType
<1>1. Launched(K \ running) = new
  <2>1. ASSUME NEW k \in K \ running PROVE scan[<< k, MaxRuns + 1 >>] = "none"
    BY <2>1, Slots DEF OwnerInv
  <2>2. ASSUME NEW x \in Kind \X Goroutine
        PROVE  x \in Launched(K \ running) <=> x[1] \in K \ running /\ x[2] = MaxRuns + 1
    BY <2>1 DEF Launched
  <2>3. new \subseteq Kind \X Goroutine
    BY Slots
  <2> QED
    BY <2>2, <2>3 DEF Launched
<1>2. /\ running' = running \cup K
      /\ owner' = owner \cup new
      /\ scan' = [x \in Scan |-> IF x \in new \cup here THEN FirstStage(x[1]) ELSE scan[x]]
  BY <1>1 DEF Trigger
<1> HIDE DEF new
<1>3. /\ new \subseteq Scan /\ here \subseteq Scan /\ new \cap ({Hardware} \X Run) = {}
      /\ \A x \in new : x[1] \in K \ running
      /\ \A k \in K \ running : << k, MaxRuns + 1 >> \in new
      /\ \A x, y \in new : x[1] = y[1] => x = y
  BY Slots DEF new
<1>4. running' \subseteq Kind /\ owner' \subseteq Scan /\ scan' \in [Scan -> ScanStage]
  BY <1>2, <1>3 DEF FirstStage, ScanStage
<1>5. \A k \in Kind : k \in running' <=> \E x \in owner' : x[1] = k
  <2>1. ASSUME NEW k \in K \ running PROVE \E x \in owner' : x[1] = k
    BY <1>2, <1>3
  <2> QED
    BY <1>2, <1>3, <2>1 DEF OwnerInv
<1>6. \A x, y \in owner' : x[1] = y[1] => x = y
  <2>1. \A x \in owner, y \in new : x[1] # y[1]
    BY <1>3, Slots DEF OwnerInv
  <2> QED
    BY <1>2, <1>3, <2>1 DEF OwnerInv
<1>7. \A x \in owner' : scan'[x] # "none"
  BY <1>2, <1>3, <1>4 DEF OwnerInv, FirstStage
<1>8. \A x \in Scan : scan'[x] # "none" /\ x \notin owner' => x \in {Hardware} \X Run
  BY <1>2, <1>3 DEF OwnerInv
<1>9. \A x \in Scan : scan'[x] \in {"check", "mark"} => x[1] = Hardware
  BY <1>2, <1>3, Slots DEF OwnerInv, FirstStage
<1>10. \A r \in Run : scan'[<< Hardware, r >>] =
          IF << Hardware, r >> \in here THEN "check" ELSE scan[<< Hardware, r >>]
  BY <1>2, <1>3, Slots DEF FirstStage
<1> QED
  BY <1>2, <1>4, <1>5, <1>6, <1>7, <1>8, <1>9, <1>10 DEF OwnerInv

LEMMA TriggerKeepsFlags ==
    ASSUME FlagInv, NEW K \in SUBSET Kind, NEW r \in Run, NEW stage \in LoopStage \ {"idle", "startup"},
           Trigger(K, {}), GoTo(r, stage) \/ UNCHANGED loop, loop[r] \in {"rest", "select"}
    PROVE  FlagInv'
<1> USE DEF FlagInv, FlagType
<1>1. /\ running' \subseteq Kind /\ owner' \subseteq Scan /\ scan' \in [Scan -> ScanStage]
      /\ OwnerInv' /\ owner \subseteq owner' /\ running' = running \cup K
  BY TriggerKeepsOwners
<1>2. \A q \in Run : scan'[<< Hardware, q >>] = scan[<< Hardware, q >>]
  <2>1. PICK here \in SUBSET ({Hardware} \X Run) : here = {}
    OBVIOUS
  <2>2. Trigger(K, here)
    BY <2>1
  <2>3. \A q \in Run : scan'[<< Hardware, q >>] =
            IF << Hardware, q >> \in here THEN "check" ELSE scan[<< Hardware, q >>]
    BY <2>2, TriggerKeepsOwners
  <2> QED
    BY <2>1, <2>3
<1>3. loop' \in [Run -> LoopStage] /\ \A q \in Run \ {r} : loop'[q] = loop[q]
  BY DEF GoTo
<1>4. loop'[r] \notin {"idle", "startup"}
  BY DEF GoTo
<1>5. PlaceInv'
  BY <1>2, <1>3 DEF PlaceInv
<1>6. FirstInv'
  <2>1. SUFFICES ASSUME OneRun'
                 PROVE  /\ loop'[1] \notin {"idle", "startup"}
                        /\ scan'[<< Hardware, 1 >>] \notin {"check", "mark"}
                        /\ UnderWay(<< Hardware, 1 >>)' => << Hardware, 1 >> \in owner'
    BY DEF FirstInv
  <2>2. r = 1
    BY <1>4, <2>1 DEF OneRun
  <2>3. scan[<< Hardware, 1 >>] = "none"
    BY <2>2 DEF PlaceInv
  <2> QED
    BY <1>2, <1>4, <2>2, <2>3 DEF UnderWay
<1> QED
  BY <1>1, <1>3, <1>5, <1>6

\* The end of a scan resets the flag it owns, and no other scan relies on it.
LEMMA FinishKeepsFlags ==
    ASSUME FlagInv, NEW x \in Scan, scan[x] # "none", Finish(x)
    PROVE  FlagInv'
<1> USE DEF FlagInv, FlagType
<1>1. /\ scan' = [scan EXCEPT ![x] = "none"] /\ owner' = owner \ {x}
      /\ running' = IF x \in owner THEN running \ {x[1]} ELSE running
      /\ loop' = [r \in Run |-> IF x = << Hardware, r >> THEN "rest" ELSE loop[r]]
  BY DEF Finish, FlagsAfter, LoopAfter
<1>2. FlagType'
  BY <1>1 DEF ScanStage, LoopStage
<1>3. OwnerInv'
  <2>1. \A k \in Kind : k \in running' <=> \E y \in owner' : y[1] = k
    <3>1. CASE x \in owner
      BY <1>1, <3>1 DEF OwnerInv
    <3>2. CASE x \notin owner
      BY <1>1, <3>2 DEF OwnerInv
    <3> QED
      BY <3>1, <3>2
  <2>2. \A y \in Scan \ {x} : scan'[y] = scan[y]
    BY <1>1
  <2>3. scan'[x] = "none"
    BY <1>1
  <2> QED
    BY <1>1, <2>1, <2>2, <2>3 DEF OwnerInv
<1>4. \A r \in Run : << Hardware, r >> # x =>
          loop'[r] = loop[r] /\ scan'[<< Hardware, r >>] = scan[<< Hardware, r >>]
  BY <1>1, Slots
<1>5. PlaceInv'
  BY <1>1, <1>4, Slots DEF PlaceInv
<1>6. FirstInv'
  <2>1. SUFFICES ASSUME OneRun' PROVE FirstInv'
    BY DEF FirstInv
  <2>2. OneRun
    BY <1>1, <2>1 DEF OneRun
  <2>3. CASE x = << Hardware, 1 >>
    BY <1>1, <2>3, Slots DEF FirstInv, UnderWay
  <2>4. CASE x # << Hardware, 1 >>
    BY <1>1, <1>4, <2>2, <2>4, Slots DEF FirstInv, UnderWay
  <2> QED
    BY <2>3, <2>4
<1> QED
  BY <1>2, <1>3, <1>5, <1>6

\* A scan that goes on is the same scan; past the flag it stays there.
LEMMA MoveKeepsFlags ==
    ASSUME FlagInv, NEW x \in Scan, scan[x] \in {"collect", "save"},
           NEW stage \in {"save", "service"}, scan' = [scan EXCEPT ![x] = stage],
           UNCHANGED << running, owner, loop >>
    PROVE  FlagInv'
<1> USE DEF FlagInv, FlagType
<1>1. scan' \in [Scan -> ScanStage]
  BY DEF ScanStage
<1>2. \A y \in Scan : /\ scan'[y] = "none" <=> scan[y] = "none"
                      /\ scan'[y] \in {"check", "mark"} <=> scan[y] \in {"check", "mark"}
                      /\ UnderWay(y)' <=> UnderWay(y)
  BY DEF UnderWay
<1> QED
  BY <1>1, <1>2, Slots DEF OwnerInv, PlaceInv, FirstInv, OneRun

\* The flag is read in a critical section of its own.
LEMMA ReadKeepsFlags ==
    ASSUME FlagInv, NEW x \in Scan, ReadFlag(x)
    PROVE  FlagInv'
<1> USE DEF FlagInv, FlagType
<1>1. /\ scan[x] = "check" /\ UNCHANGED << running, owner, loop >>
      /\ scan' = [scan EXCEPT ![x] = IF Hardware \in running THEN "collect" ELSE "mark"]
  BY DEF ReadFlag
<1>2. scan' \in [Scan -> ScanStage]
  BY <1>1 DEF ScanStage
<1>3. \A y \in Scan : scan'[y] = "none" <=> scan[y] = "none"
  BY <1>1
<1>4. FirstInv'
  <2>1. SUFFICES ASSUME OneRun' PROVE FirstInv'
    BY DEF FirstInv
  <2>2. OneRun
    BY <1>1, <2>1 DEF OneRun
  <2>3. CASE x = << Hardware, 1 >>
    BY <1>1, <2>2, <2>3 DEF FirstInv, UnderWay
  <2>4. CASE x # << Hardware, 1 >>
    BY <1>1, <2>2, <2>4, Slots DEF FirstInv, UnderWay
  <2> QED
    BY <2>3, <2>4
<1> QED
  BY <1>1, <1>2, <1>3, <1>4, Slots DEF OwnerInv, PlaceInv

\* The second look finds the flag free: only then does the scan take it.
LEMMA MarkKeepsFlags ==
    ASSUME FlagInv, NEW x \in Scan, MarkFlag(x)
    PROVE  FlagInv'
<1> USE DEF FlagInv, FlagType
<1>1. scan[x] = "mark"
  BY DEF MarkFlag
<1>2. CASE Hardware \in running
  BY <1>1, <1>2, FinishKeepsFlags DEF MarkFlag
<1>3. CASE Hardware \notin running
  <2>1. /\ scan' = [scan EXCEPT ![x] = "collect"] /\ running' = running \cup {Hardware}
        /\ owner' = owner \cup {x} /\ UNCHANGED loop
    BY <1>3 DEF MarkFlag
  <2>2. \A y \in owner : y[1] # Hardware
    BY <1>3, Slots DEF OwnerInv
  <2>3. x[1] = Hardware /\ x \notin owner
    BY <1>1, <2>2 DEF OwnerInv
  <2>4. PICK r \in Run : x = << Hardware, r >>
    BY <1>1, <2>3 DEF OwnerInv
  <2>5. FlagType'
    BY <2>1, Slots DEF ScanStage
  <2>6. OwnerInv'
    <3>1. \A k \in Kind : k \in running' <=> \E y \in owner' : y[1] = k
      BY <2>1, <2>3 DEF OwnerInv
    <3>2. \A y, z \in owner' : y[1] = z[1] => y = z
      BY <2>1, <2>2, <2>3 DEF OwnerInv
    <3>3. \A y \in Scan \ {x} : scan'[y] = scan[y]
      BY <2>1
    <3>4. scan'[x] = "collect" /\ x \in owner'
      BY <2>1
    <3> QED
      BY <2>1, <3>1, <3>2, <3>3, <3>4 DEF OwnerInv
  <2>7. loop[r] = "hardware"
    BY <1>1, <2>4 DEF PlaceInv
  <2>8. PlaceInv'
    BY <2>1, <2>4, <2>7, Slots DEF PlaceInv
  <2>9. FirstInv'
    <3>1. SUFFICES ASSUME OneRun' PROVE r = 1
      BY <2>1, <2>4, <2>7, <3>1, Slots DEF FirstInv, UnderWay
    <3> QED
      BY <2>1, <2>7, <3>1 DEF OneRun
  <2> QED
    BY <2>5, <2>6, <2>8, <2>9
<1> QED
  BY <1>2, <1>3

LEMMA ScanStepKeepsFlags ==
    ASSUME FlagInv, NEW x \in Scan, ScanStep(x)
    PROVE  FlagInv'
<1>1. CASE ReadFlag(x) \/ MarkFlag(x)
  BY <1>1, ReadKeepsFlags, MarkKeepsFlags
<1>2. CASE ScanFails(x)
  BY <1>2, FinishKeepsFlags DEF ScanFails
<1>3. CASE SaveEnds(x)
  BY <1>3, FinishKeepsFlags DEF SaveEnds
<1>4. CASE ScanYields(x)
  BY <1>4, MoveKeepsFlags DEF ScanYields
<1>5. CASE ProcessSaved(x)
  BY <1>5, MoveKeepsFlags DEF ProcessSaved
<1>6. ASSUME NEW c \in Content, ProcessSnapshot(x, c) PROVE FlagInv'
  <2>1. scan[x] = "collect"
    BY <1>6 DEF ProcessSnapshot
  <2>2. \/ Finish(x)
        \/ scan' = [scan EXCEPT ![x] = "save"] /\ UNCHANGED << running, owner, loop >>
    BY <1>6 DEF ProcessSnapshot
  <2> QED
    BY <2>1, <2>2, FinishKeepsFlags, MoveKeepsFlags
<1> QED
  BY <1>1, <1>2, <1>3, <1>4, <1>5, <1>6 DEF ScanStep

\* The startup begins its scan where no other scan in place can be.
LEMMA StartupKeepsFlags ==
    ASSUME FlagInv, NEW r \in Run, Startup(r)
    PROVE  FlagInv'
<1> USE DEF FlagInv, FlagType
<1> DEFINE K == Kind \cap {Software}
<1>1. loop[r] = "startup" /\ GoTo(r, "hardware") /\ Trigger(K, {<< Hardware, r >>})
  BY DEF Startup
<1>2. K \in SUBSET Kind /\ {<< Hardware, r >>} \in SUBSET ({Hardware} \X Run) /\ Hardware \notin K
  BY DEF Hardware, Software
<1> HIDE DEF K
<1>3. /\ running' \subseteq Kind /\ owner' \subseteq Scan /\ scan' \in [Scan -> ScanStage]
      /\ OwnerInv' /\ running' = running \cup K
  BY <1>1, <1>2, TriggerKeepsOwners
<1>4. \A q \in Run : scan'[<< Hardware, q >>] =
          IF << Hardware, q >> \in {<< Hardware, r >>} THEN "check" ELSE scan[<< Hardware, q >>]
  BY <1>1, <1>2, TriggerKeepsOwners
<1>5. loop' = [loop EXCEPT ![r] = "hardware"]
  BY <1>1 DEF GoTo
<1>6. FlagType'
  BY <1>3, <1>5 DEF LoopStage
<1>7. PlaceInv'
  BY <1>4, <1>5 DEF PlaceInv
<1>8. FirstInv'
  <2>1. SUFFICES ASSUME OneRun' PROVE FirstInv'
    BY DEF FirstInv
  <2>2. r = 1 /\ OneRun
    BY <1>1, <1>5, <2>1 DEF OneRun
  <2>3. Hardware \notin running'
    BY <1>1, <1>2, <1>3, <2>2 DEF FirstInv
  <2>4. scan'[<< Hardware, 1 >>] = "check"
    BY <1>4, <2>2
  <2> QED
    BY <2>3, <2>4 DEF FirstInv, UnderWay
<1> QED
  BY <1>3, <1>6, <1>7, <1>8

\* A loop moves and neither starts nor ends a scan.
LEMMA LoopKeepsFlags ==
    ASSUME FlagInv, NEW r \in Run, NEW stage \in LoopStage \ {"idle"}, GoTo(r, stage),
           UNCHANGED << running, owner, scan >>,
           \/ loop[r] = "idle" /\ stage = "startup"
           \/ loop[r] \in {"select", "host"} /\ stage \notin {"idle", "startup"}
    PROVE  FlagInv'
<1> USE DEF FlagInv, FlagType
<1>1. loop' = [loop EXCEPT ![r] = stage] /\ loop' \in [Run -> LoopStage]
  BY DEF GoTo
<1>2. PlaceInv'
  BY <1>1 DEF PlaceInv
<1>3. FirstInv'
  <2>1. SUFFICES ASSUME OneRun' PROVE FirstInv'
    BY DEF FirstInv
  <2>2. r = 1 /\ OneRun
    BY <1>1, <2>1 DEF OneRun
  <2>3. loop'[1] = stage
    BY <1>1, <2>2
  <2> QED
    BY <2>2, <2>3 DEF FirstInv, UnderWay
<1> QED
  BY <1>1, <1>2, <1>3 DEF OwnerInv

LEMMA IdleKeepsFlags == FlagInv /\ UNCHANGED << running, owner, scan, loop >> => FlagInv'
BY DEF FlagInv, FlagType, OwnerInv, PlaceInv, FirstInv, OneRun, UnderWay

LEMMA FlagStep == FlagInv /\ [Next]_collectorVars => FlagInv'
<1> SUFFICES ASSUME FlagInv, [Next]_collectorVars PROVE FlagInv'
  OBVIOUS
<1> USE DEF LoopStage
<1>1. ASSUME NEW r \in Run, StartRun(r) PROVE FlagInv'
  BY <1>1, LoopKeepsFlags DEF StartRun
<1>2. ASSUME NEW r \in Run, HostTick(r) \/ HostMetricsDone(r) \/ LoopStops(r) PROVE FlagInv'
  BY <1>2, LoopKeepsFlags DEF HostTick, HostMetricsDone, LoopStops
<1>3. ASSUME NEW r \in Run, StartupRest(r) PROVE FlagInv'
  <2>1. Kind \cap {Security, Process, Network} \in SUBSET Kind
    OBVIOUS
  <2> QED
    BY <1>3, <2>1, TriggerKeepsFlags DEF StartupRest
<1>4. ASSUME NEW r \in Run, NEW t \in Ticker, TakeTick(r, t) PROVE FlagInv'
  <2>1. KindsOf(t) \in SUBSET Kind
    BY KindsAreConfigured
  <2>2. "select" \in LoopStage \ {"idle", "startup"}
    OBVIOUS
  <2> QED
    BY <1>4, <2>1, <2>2, TriggerKeepsFlags DEF TakeTick
<1>5. ASSUME NEW r \in Run, Cancel(r) \/ (\E t \in Ticker : TickerFires(r, t)) PROVE FlagInv'
  BY <1>5, IdleKeepsFlags DEF Cancel, TickerFires
<1>6. CASE UNCHANGED collectorVars
  BY <1>6, IdleKeepsFlags DEF collectorVars
<1> QED
  BY <1>1, <1>2, <1>3, <1>4, <1>5, <1>6, StartupKeepsFlags, ScanStepKeepsFlags DEF Next, LoopStep

(* A flag is set exactly while one live scan owns it, and the scans that   *)
(* own none are startup scans of the hardware beside those of another run, *)
(* however many runs overlap and wherever their loops are.                 *)
THEOREM FlagsGuardScans == Spec => []FlagGuardsScan
BY FlagInit, FlagStep, FlagsAreGuards, PTL DEF Spec

------------------------------------------------------------------------------
(* Type correctness *)

\* The snapshots: the one at hand, the one hashed, the one buffered.
ShotType == /\ {shot, lastHash} \subseteq Snapshot \cup {NoSnapshot}
            /\ buffered \in Content \cup {"none"}

LEMMA ShotStep == ShotType /\ [Next]_collectorVars => ShotType'
<1> SUFFICES ASSUME ShotType, [Next]_collectorVars PROVE ShotType'
  OBVIOUS
<1>1. ASSUME NEW x \in Scan, NEW c \in Content, ProcessSnapshot(x, c) PROVE ShotType'
  <2>1. shot.at \in 0 .. MaxScans /\ shot.at < MaxScans
    BY <1>1, BoundAssumption DEF ProcessSnapshot, ShotType, Snapshot, NoSnapshot
  <2>2. shot' = [content |-> c, at |-> shot.at + 1]
    BY <1>1 DEF ProcessSnapshot
  <2>3. shot' \in Snapshot
    BY <2>1, <2>2, BoundAssumption DEF Snapshot
  <2>4. lastHash' \in {shot', lastHash} /\ buffered' = buffered
    BY <1>1 DEF ProcessSnapshot
  <2> QED
    BY <2>3, <2>4 DEF ShotType
<1>2. ASSUME NEW x \in Scan, ProcessSaved(x) PROVE ShotType'
  <2>1. buffered' = shot.content /\ UNCHANGED << shot, lastHash >>
    BY <1>2 DEF ProcessSaved
  <2>2. shot.content \in Content \cup {"none"}
    BY DEF ShotType, Snapshot, NoSnapshot
  <2> QED
    BY <2>1, <2>2 DEF ShotType
<1>3. ASSUME \A x \in Scan : ~ProcessSaved(x) /\ \A c \in Content : ~ProcessSnapshot(x, c)
      PROVE  ShotType'
  <2>1. UNCHANGED << shot, lastHash, buffered >>
    BY <1>3 DEF Next, LoopStep, StartRun, Startup, StartupRest, TakeTick, HostTick,
       HostMetricsDone, LoopStops, TickerFires, Cancel, ScanStep, ReadFlag, MarkFlag, ScanFails,
       ScanYields, SaveEnds, collectorVars
  <2> QED
    BY <2>1 DEF ShotType
<1> QED
  BY <1>1, <1>2, <1>3

\* The tickers and the contexts.
LoopType == ticks \in [Run -> SUBSET Ticker] /\ cancelled \subseteq Run

LEMMA LoopStepType == LoopType /\ [Next]_collectorVars => LoopType'
<1> SUFFICES ASSUME LoopType, [Next]_collectorVars PROVE LoopType'
  OBVIOUS
<1> USE DEF LoopType
<1>1. ASSUME NEW r \in Run, NEW t \in Ticker, TakeTick(r, t) \/ TickerFires(r, t) PROVE LoopType'
  BY <1>1 DEF TakeTick, TickerFires
<1>2. ASSUME NEW r \in Run, Cancel(r) \/ LoopStops(r) PROVE LoopType'
  BY <1>2 DEF Cancel, LoopStops
<1>3. ASSUME NEW r \in Run, StartRun(r) \/ Startup(r) \/ StartupRest(r) \/ HostTick(r)
                            \/ HostMetricsDone(r)
      PROVE  LoopType'
  BY <1>3 DEF StartRun, Startup, StartupRest, HostTick, HostMetricsDone
<1>4. ASSUME NEW x \in Scan, ScanStep(x) PROVE LoopType'
  BY <1>4 DEF ScanStep, ReadFlag, MarkFlag, ScanFails, ScanYields, ProcessSnapshot, ProcessSaved,
     SaveEnds
<1>5. CASE UNCHANGED collectorVars
  BY <1>5 DEF collectorVars
<1> QED
  BY <1>1, <1>2, <1>3, <1>4, <1>5 DEF Next, LoopStep

(* Every variable of the scheduler keeps its type.                          *)
THEOREM TypeCorrect == Spec => []TypeOK
<1> DEFINE TInv == FlagInv /\ ShotType /\ LoopType
<1>1. Init => TInv
  BY FlagInit DEF Init, ShotType, LoopType
<1>2. TInv /\ [Next]_collectorVars => TInv'
  BY FlagStep, ShotStep, LoopStepType
<1>3. TInv => TypeOK
  BY DEF FlagInv, FlagType, ShotType, LoopType, TypeOK
<1> QED
  BY <1>1, <1>2, <1>3, PTL DEF Spec

==============================================================================
