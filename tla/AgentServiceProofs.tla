------------------------- MODULE AgentServiceProofs -------------------------
(***************************************************************************)
(* Proofs about AgentService, for any number of callers, parts and runs.   *)
(***************************************************************************)
EXTENDS AgentService, TLAPS

\* Runs are numbered in the order of their Starts; a closed exit channel means
\* that every loop of the run has returned; a Stop that waits has cancelled.
RunInv == /\ current \in 0 .. runs
          /\ running \subseteq (1 .. runs) \X Part
          /\ exited \subseteq 1 .. runs
          /\ \A x \in running : x[1] \notin exited
          /\ \A c \in Caller : cpc[c] = "wait" => target[c] \in cancelled
          /\ \A c \in Caller : cpc[c] = "cancel" => target[c] # 0

IInv == TypeOK /\ RunInv /\ NoOrphan

LEMMA IInvInit == Init => IInv
<1> SUFFICES ASSUME Init PROVE IInv
  OBVIOUS
<1>1. TypeOK
  <2>1. 0 \in 0 .. MaxRuns
    BY RunsAssumption
  <2>2. current \in 0 .. MaxRuns /\ runs \in 0 .. MaxRuns /\ timedOut \in BOOLEAN
    BY <2>1 DEF Init
  <2>3. cancelled \subseteq Run /\ running \subseteq Run \X Part /\ exited \subseteq Run
    BY DEF Init
  <2>4. cpc \in [Caller -> Returned \cup {"cancel", "wait"}]
    BY DEF Init, Returned
  <2>5. target \in [Caller -> 0 .. MaxRuns]
    BY <2>1 DEF Init
  <2> QED
    BY <2>2, <2>3, <2>4, <2>5 DEF TypeOK
<1>2. RunInv
  BY DEF Init, RunInv
<1>3. NoOrphan
  BY DEF Init, NoOrphan
<1> QED
  BY <1>1, <1>2, <1>3 DEF IInv

LEMMA IInvStep == IInv /\ [Next]_serviceVars => IInv'
<1> SUFFICES ASSUME IInv, [Next]_serviceVars PROVE IInv'
  OBVIOUS
<1> USE RunsAssumption DEF IInv, TypeOK, RunInv, NoOrphan, Returned, Run
<1>1. ASSUME NEW c \in Caller, Start(c) PROVE IInv'
  <2>1. /\ runs' = runs + 1 /\ runs' \in 1 .. MaxRuns /\ current' = runs'
        /\ running' = running \cup ({runs'} \X Part)
        /\ cpc' = [cpc EXCEPT ![c] = "started"]
        /\ UNCHANGED << cancelled, exited, target, timedOut >>
    BY <1>1 DEF Start
  <2>2. TypeOK'
    BY <1>1, <2>1 DEF Start
  <2>3. RunInv'
    BY <2>1
  <2>4. ASSUME NEW g \in Run, NEW part \in Part, << g, part >> \in running'
        PROVE  \/ g = current' \/ g \in cancelled'
               \/ \E d \in Caller : cpc'[d] = "cancel" /\ target'[d] = g
    <3>1. CASE g = runs'
      BY <2>1, <3>1
    <3>2. CASE g # runs'
      <4>1. << g, part >> \in running /\ current = 0 /\ g # 0
        BY <1>1, <2>1, <2>4, <3>2 DEF Start
      <4>2. g \in cancelled \/ \E d \in Caller : cpc[d] = "cancel" /\ target[d] = g
        BY <4>1
      <4> QED
        BY <1>1, <2>1, <4>2 DEF Start
    <3> QED
      BY <3>1, <3>2
  <2> QED
    BY <2>2, <2>3, <2>4
<1>2. ASSUME NEW c \in Caller, StartAgain(c) PROVE IInv'
  BY <1>2 DEF StartAgain
<1>3. ASSUME NEW c \in Caller, StopTake(c) PROVE IInv'
  <2>1. TypeOK' /\ RunInv'
    BY <1>3 DEF StopTake
  <2>2. cpc'[c] = "cancel" /\ target'[c] = current
    BY <1>3 DEF StopTake
  <2>3. \A d \in Caller : cpc[d] = "cancel" => cpc'[d] = "cancel" /\ target'[d] = target[d]
    BY <1>3 DEF StopTake
  <2>4. UNCHANGED << running, cancelled >>
    BY <1>3 DEF StopTake
  <2>5. NoOrphan'
    BY <2>2, <2>3, <2>4
  <2> QED
    BY <2>1, <2>5
<1>4. ASSUME NEW c \in Caller, StopNothing(c) PROVE IInv'
  BY <1>4 DEF StopNothing
<1>5. ASSUME NEW c \in Caller, StopCancel(c) PROVE IInv'
  <2>0. /\ UNCHANGED << current, runs, running, exited >>
        /\ cancelled \subseteq cancelled'
    BY <1>5 DEF StopCancel
  <2>a. TypeOK'
    <3>1. cpc' \in [Caller -> Returned \cup {"cancel", "wait"}]
      BY <1>5 DEF StopCancel
    <3>2. target' \in [Caller -> 0 .. MaxRuns] /\ timedOut' \in BOOLEAN
      BY <1>5 DEF StopCancel
    <3>3. cancelled' \subseteq Run
      <4>1. target[c] \in 0 .. MaxRuns /\ target[c] # 0
        BY <1>5 DEF StopCancel
      <4>2. target[c] \in Run
        BY <4>1
      <4> QED
        BY <1>5, <4>2 DEF StopCancel
    <3> QED
      BY <2>0, <3>1, <3>2, <3>3
  <2>b. /\ \A d \in Caller : cpc'[d] = "wait" => target'[d] \in cancelled'
        /\ \A d \in Caller : cpc'[d] = "cancel" => target'[d] # 0
    BY <1>5 DEF StopCancel
  <2>1. TypeOK' /\ RunInv'
    BY <2>0, <2>a, <2>b
  <2>2. ASSUME NEW g \in Run, NEW part \in Part, << g, part >> \in running'
        PROVE  \/ g = current' \/ g \in cancelled'
               \/ \E d \in Caller : cpc'[d] = "cancel" /\ target'[d] = g
    <3>1. g = current \/ g \in cancelled
          \/ \E d \in Caller : cpc[d] = "cancel" /\ target[d] = g
      BY <1>5, <2>2 DEF StopCancel
    <3> QED
      BY <1>5, <3>1 DEF StopCancel
  <2> QED
    BY <2>1, <2>2
<1>6. ASSUME NEW c \in Caller, StopClean(c) \/ StopTimeout(c) PROVE IInv'
  <2>0. /\ UNCHANGED << current, runs, running, exited >>
        /\ cancelled \subseteq cancelled'
    BY <1>6 DEF StopClean, StopTimeout
  <2>a. TypeOK'
    <3>1. cpc' \in [Caller -> Returned \cup {"cancel", "wait"}]
      BY <1>6 DEF StopClean, StopTimeout
    <3>2. target' \in [Caller -> 0 .. MaxRuns] /\ timedOut' \in BOOLEAN
      <4>1. 0 \in 0 .. MaxRuns
        OBVIOUS
      <4>2. target' = [target EXCEPT ![c] = 0] /\ timedOut' \in {TRUE, timedOut}
        BY <1>6 DEF StopClean, StopTimeout
      <4>3. target' \in [Caller -> 0 .. MaxRuns]
        BY <4>1, <4>2
      <4> QED
        BY <4>2, <4>3
    <3>3. cancelled' \subseteq Run
      BY <1>6 DEF StopClean, StopTimeout
    <3> QED
      BY <2>0, <3>1, <3>2, <3>3
  <2>b. /\ \A d \in Caller : cpc'[d] = "wait" => target'[d] \in cancelled'
        /\ \A d \in Caller : cpc'[d] = "cancel" => target'[d] # 0
    BY <1>6 DEF StopClean, StopTimeout
  <2>1. TypeOK' /\ RunInv'
    BY <2>0, <2>a, <2>b
  <2>2. \A d \in Caller : cpc[d] = "cancel" => cpc'[d] = "cancel" /\ target'[d] = target[d]
    BY <1>6 DEF StopClean, StopTimeout
  <2>3. UNCHANGED << running, cancelled, current >>
    BY <1>6 DEF StopClean, StopTimeout
  <2>4. NoOrphan'
    BY <2>2, <2>3
  <2> QED
    BY <2>1, <2>4
<1>7. ASSUME NEW g \in Run, NEW part \in Part, LoopReturns(g, part) PROVE IInv'
  BY <1>7 DEF LoopReturns
<1>8. ASSUME NEW g \in Run, CloseExit(g) PROVE IInv'
  <2>1. \A x \in running : x[1] # g
    BY <1>8 DEF CloseExit
  <2> QED
    BY <1>8, <2>1 DEF CloseExit
<1>9. ASSUME UNCHANGED serviceVars PROVE IInv'
  BY <1>9 DEF serviceVars
<1> QED
  BY <1>1, <1>2, <1>3, <1>4, <1>5, <1>6, <1>7, <1>8, <1>9
  DEF Next, CallerStep, RunStep

(* Every variable of the service keeps its type.                            *)
THEOREM TypeCorrect == Spec => []TypeOK
BY IInvInit, IInvStep, PTL DEF Spec, IInv

(* However Starts and Stops race, no loop runs that no Stop can reach.      *)
THEOREM NoRunIsOrphaned == Spec => []NoOrphan
BY IInvInit, IInvStep, PTL DEF Spec, IInv

(* A Stop that reports a clean stop has cancelled its run, and every loop of *)
(* the run has returned.                                                    *)
THEOREM CleanStopsAreComplete == Spec => CleanStopIsComplete
<1>1. IInv /\ [Next]_serviceVars
        => [\A c \in Caller : cpc[c] = "wait" /\ cpc'[c] = "clean"
              => /\ target[c] \in cancelled
                 /\ \A part \in Part : << target[c], part >> \notin running]_serviceVars
  <2> SUFFICES ASSUME IInv, [Next]_serviceVars, NEW c \in Caller,
                      cpc[c] = "wait", cpc'[c] = "clean"
               PROVE  /\ target[c] \in cancelled
                      /\ \A part \in Part : << target[c], part >> \notin running
    OBVIOUS
  <2>1. target[c] \in cancelled /\ \A x \in running : x[1] \notin exited
    BY DEF IInv, RunInv
  <2>2. target[c] \in exited
    BY DEF IInv, TypeOK, Next, CallerStep, RunStep, Start, StartAgain, StopTake,
       StopNothing, StopCancel, StopClean, StopTimeout, LoopReturns, CloseExit, serviceVars
  <2> QED
    BY <2>1, <2>2
<1> QED
  BY IInvInit, IInvStep, <1>1, PTL DEF Spec, CleanStopIsComplete

------------------------------------------------------------------------------
(* Runs do not overlap *)

\* A run the struct holds, or that a Stop has taken and not finished with.
Known(g) == g = current \/ \E c \in Caller : cpc[c] \in {"cancel", "wait"} /\ target[c] = g

\* Until a Stop times out, every loop belongs to a known run.
KnownRuns == ~timedOut => \A x \in running : Known(x[1])

LEMMA KnownRunsInit == Init => KnownRuns
BY DEF Init, KnownRuns

LEMMA KnownRunsStep == IInv /\ KnownRuns /\ [Next]_serviceVars => KnownRuns'
<1> SUFFICES ASSUME IInv, KnownRuns, [Next]_serviceVars, ~timedOut', NEW x \in running'
             PROVE  Known(x[1])'
  BY DEF KnownRuns
<1> USE DEF IInv, TypeOK, RunInv, Returned
<1>1. ~timedOut
  BY DEF Next, CallerStep, RunStep, Start, StartAgain, StopTake, StopNothing, StopCancel,
     StopClean, StopTimeout, LoopReturns, CloseExit, serviceVars
<1>2. x \in running => Known(x[1])
  BY <1>1 DEF KnownRuns
<1>3. ASSUME NEW c \in Caller, Start(c) PROVE Known(x[1])'
  <2>1. CASE x \in running
    <3>1. current = 0 /\ x[1] # 0
      BY <1>3, <2>1 DEF Start
    <3>2. PICK d \in Caller : cpc[d] \in {"cancel", "wait"} /\ target[d] = x[1]
      BY <1>2, <2>1, <3>1 DEF Known
    <3>3. d # c /\ cpc'[d] = cpc[d] /\ target'[d] = target[d]
      BY <1>3, <3>2 DEF Start
    <3> QED
      BY <3>2, <3>3 DEF Known
  <2>2. CASE x \in {runs + 1} \X Part
    BY <1>3, <2>2 DEF Start, Known
  <2> QED
    BY <1>3, <2>1, <2>2 DEF Start
<1>4. ASSUME NEW c \in Caller, StartAgain(c) \/ StopNothing(c) PROVE Known(x[1])'
  BY <1>2, <1>4 DEF StartAgain, StopNothing, Known
<1>5. ASSUME NEW c \in Caller, StopTake(c) PROVE Known(x[1])'
  <2>1. x \in running /\ cpc'[c] = "cancel" /\ target'[c] = current
    BY <1>5 DEF StopTake
  <2>2. \A d \in Caller : cpc[d] \in {"cancel", "wait"} => cpc'[d] = cpc[d] /\ target'[d] = target[d]
    BY <1>5 DEF StopTake
  <2> QED
    BY <1>2, <2>1, <2>2 DEF Known
<1>6. ASSUME NEW c \in Caller, StopCancel(c) PROVE Known(x[1])'
  <2>1. x \in running /\ UNCHANGED << current, target >>
    BY <1>6 DEF StopCancel
  <2>2. \A d \in Caller : cpc[d] \in {"cancel", "wait"} => cpc'[d] \in {"cancel", "wait"}
    BY <1>6 DEF StopCancel
  <2> QED
    BY <1>2, <2>1, <2>2 DEF Known
<1>7. ASSUME NEW c \in Caller, StopClean(c) PROVE Known(x[1])'
  <2>1. x \in running /\ current' = current /\ x[1] # target[c]
    BY <1>7 DEF StopClean
  <2>2. \A d \in Caller \ {c} : cpc'[d] = cpc[d] /\ target'[d] = target[d]
    BY <1>7 DEF StopClean
  <2> QED
    BY <1>2, <2>1, <2>2 DEF Known
<1>8. ASSUME NEW c \in Caller, StopTimeout(c) PROVE FALSE
  BY <1>8 DEF StopTimeout
<1>9. ASSUME NEW g \in Run, RunStep(g) PROVE Known(x[1])'
  BY <1>2, <1>9 DEF RunStep, LoopReturns, CloseExit, Known
<1>10. ASSUME UNCHANGED serviceVars PROVE Known(x[1])'
  BY <1>2, <1>10 DEF serviceVars, Known
<1> QED
  BY <1>3, <1>4, <1>5, <1>6, <1>7, <1>8, <1>9, <1>10 DEF Next, CallerStep

(* Until a Stop times out, the loops of two runs never run side by side     *)
(* while no Stop is under way.                                              *)
THEOREM RunsDoNotOverlap == Spec => []OneRunUnlessTimedOut
<1>1. KnownRuns => OneRunUnlessTimedOut
  <2> SUFFICES ASSUME KnownRuns, ~timedOut, \A c \in Caller : cpc[c] \in Returned,
                      NEW x \in running
               PROVE  x[1] = current
    BY DEF OneRunUnlessTimedOut
  <2> QED
    BY DEF KnownRuns, Known, Returned
<1> QED
  BY IInvInit, IInvStep, KnownRunsInit, KnownRunsStep, <1>1, PTL DEF Spec
==============================================================================
