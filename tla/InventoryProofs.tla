-------------------------- MODULE InventoryProofs --------------------------
(***************************************************************************)
(* Proofs about Inventory, for all periods, delays and lifetimes: types,   *)
(* the bound on the age of what is shown, and the bound on the time a hash *)
(* can outlive the discovery of the UUID.                                  *)
(***************************************************************************)
EXTENDS Inventory, TLAPS

\* A scan is under way for a short time after its tick only, and its snapshot is
\* not older than that tick.
RunInv ==
    \A k \in Cached :
        /\ pc[k] # "idle" => Elapsed <= Delay
        /\ pc[k] \in {"queries", "uuid", "details"} =>
               run[k].fp # "none" /\ run[k].age <= Elapsed

\* The age of what is shown, measured against the last tick: when that tick has
\* been answered it is less than the lifetime older than the tick.
AgeInv ==
    \A k \in Cached :
        shown[k].age < TTL[k] + Elapsed + (IF pc[k] = "idle" THEN 0 ELSE Period)

\* A hash is at least as old as the knowledge of the UUID, in every place it can
\* be, and so is a scan that is still reading the table.
HashInv ==
    /\ known \/ knownFor = 0
    /\ tries["hardware"] > 0 =>
           pc["hardware"] = "uuid" /\ knownFor <= run["hardware"].age
    /\ pc["hardware"] = "details" => run["hardware"].fp # "blank"
    /\ run["hardware"].fp = "hash" => knownFor <= run["hardware"].age
    /\ cache["hardware"].fp # "blank"
    /\ cache["hardware"].fp = "hash" => knownFor <= cache["hardware"].age
    /\ shown["hardware"].fp # "blank"
    /\ shown["hardware"].fp = "hash" => knownFor <= shown["hardware"].age
    /\ shown["hardware"].fp = "none" => pc["hardware"] # "idle" /\ knownFor <= Elapsed

IInv == TypeOK /\ RunInv /\ AgeInv /\ HashInv

\* Ageing keeps a snapshot what it is, adds at most one unit, and never falls
\* behind another age that grows by the same rule.
LEMMA AgedSnap ==
    ASSUME NEW s \in Snapshot \cup {NoSnap}
    PROVE  /\ Aged(s) \in Snapshot \cup {NoSnap}
           /\ Aged(s).fp = s.fp
           /\ s.age \in Nat /\ Aged(s).age \in Nat /\ Aged(s).age <= s.age + 1
           /\ \A n \in 0 .. AgeCap :
                  s.fp # "none" /\ n <= s.age => Older(n) <= Aged(s).age
<1> USE TTLAssumption DEF Aged, Older, Snapshot, NoSnap
<1>1. CASE s \in Snapshot
  <2>1. s.age \in 0 .. AgeCap /\ s.fp \in {"blank", "uuid", "hash"}
    BY <1>1
  <2>2. Older(s.age) \in 0 .. AgeCap /\ Older(s.age) <= s.age + 1
    BY <2>1
  <2>3. Aged(s) \in Snapshot
    BY <2>1, <2>2
  <2> QED
    BY <2>1, <2>2, <2>3
<1>2. CASE s = NoSnap
  BY <1>2
<1> QED
  BY <1>1, <1>2

LEMMA IInvInit == Init => IInv
<1> SUFFICES ASSUME Init PROVE IInv
  OBVIOUS
<1> USE PeriodAssumption, TTLAssumption, AttemptsAssumption
        DEF Init, Cached, Fingerprinted, Collection
<1>1. TypeOK
  <2>1. Period \in 1 .. Period /\ 0 \in 0 .. Attempts /\ 0 \in 0 .. AgeCap
    OBVIOUS
  <2> QED
    BY <2>1 DEF TypeOK
<1>2. RunInv
  BY DEF RunInv, Elapsed
<1>3. AgeInv
  BY DEF AgeInv, Elapsed, NoSnap
<1>4. HashInv
  BY DEF HashInv, NoSnap, Elapsed
<1> QED
  BY <1>1, <1>2, <1>3, <1>4 DEF IInv

LEMMA TimeStep == IInv /\ Time => IInv'
<1> SUFFICES ASSUME IInv, Time PROVE IInv'
  OBVIOUS
<1> USE PeriodAssumption, TTLAssumption DEF IInv
<1>1. /\ \A k \in Cached : cache[k] \in Snapshot \cup {NoSnap}
      /\ \A k \in Cached : run[k] \in Snapshot \cup {NoSnap}
      /\ \A c \in Collection : shown[c] \in Snapshot \cup {NoSnap}
      /\ knownFor \in 0 .. AgeCap /\ till \in 1 .. Period
  BY DEF TypeOK
<1>2. /\ \A k \in Cached : cache'[k] = Aged(cache[k]) /\ run'[k] = Aged(run[k])
      /\ \A k \in Cached : shown'[k] = Aged(shown[k])
      /\ till' = IF till = 1 THEN Period ELSE till - 1
      /\ UNCHANGED << tries, known >>
  BY DEF Time, Cached, Collection, Fingerprinted
<1>3. knownFor' \in 0 .. AgeCap /\ knownFor' <= knownFor + 1
  BY <1>1 DEF Time, Older
<1>4. till' \in 1 .. Period
  BY <1>1, <1>2
<1>5. TypeOK'
  <2>1. cache' \in [Cached -> Snapshot \cup {NoSnap}]
    BY <1>1, AgedSnap DEF Time
  <2>2. run' \in [Cached -> Snapshot \cup {NoSnap}]
    BY <1>1, AgedSnap DEF Time
  <2>3. shown' \in [Collection -> Snapshot \cup {NoSnap}]
    BY <1>1, AgedSnap DEF Time
  <2>4. pc' \in [Collection -> {"idle", "due", "queries", "uuid", "details"}]
    BY DEF Time, TypeOK
  <2> QED
    BY <2>1, <2>2, <2>3, <2>4, <1>2, <1>3, <1>4 DEF TypeOK
<1>6. CASE till = 1
  <2>1. \A k \in Cached : pc[k] = "idle"
    BY <1>6 DEF Time, Elapsed
  <2>2. Elapsed = Period - 1 /\ Elapsed' = 0
    BY <1>2, <1>6 DEF Elapsed
  <2>3. \A k \in Cached : pc'[k] = "due"
    BY <1>6 DEF Time, Collection
  <2>4. RunInv'
    BY <2>2, <2>3 DEF RunInv
  <2>5. AgeInv'
    <3> SUFFICES ASSUME NEW k \in Cached
                 PROVE  shown'[k].age < TTL[k] + Period
      BY <2>2, <2>3 DEF AgeInv
    <3>1. shown[k].age < TTL[k] + Period - 1
      BY <2>1, <2>2 DEF AgeInv
    <3>2. shown[k] \in Snapshot \cup {NoSnap} /\ shown[k].age \in Nat
      BY <1>1, AgedSnap DEF Collection
    <3>3. shown'[k].age \in Nat /\ shown'[k].age <= shown[k].age + 1
      BY <1>2, <3>2, AgedSnap
    <3> QED
      BY <3>1, <3>2, <3>3
  <2>6. HashInv'
    BY <1>1, <1>2, <1>6, <2>1, <2>3, AgedSnap
       DEF HashInv, Time, Cached, Collection, Older
  <2> QED
    BY <1>5, <2>4, <2>5, <2>6
<1>7. CASE till # 1
  <2>1. Elapsed \in Nat /\ Elapsed' = Elapsed + 1 /\ pc' = pc
    BY <1>1, <1>2, <1>7 DEF Elapsed, Time
  <2>2. \A k \in Cached : pc[k] # "idle" => Elapsed' <= Delay
    BY <2>1 DEF Time
  <2>3. RunInv'
    <3> SUFFICES ASSUME NEW k \in Cached, pc[k] \in {"queries", "uuid", "details"}
                 PROVE  run'[k].fp # "none" /\ run'[k].age <= Elapsed'
      BY <2>1, <2>2 DEF RunInv
    <3>1. run[k].fp # "none" /\ run[k].age <= Elapsed /\ run[k].age \in Nat
      BY <1>1, AgedSnap DEF RunInv
    <3>2. run'[k].age \in Nat /\ run'[k].age <= run[k].age + 1 /\ run'[k].fp = run[k].fp
      BY <1>1, <1>2, AgedSnap
    <3> QED
      BY <2>1, <3>1, <3>2
  <2>4. AgeInv'
    <3> SUFFICES ASSUME NEW k \in Cached
                 PROVE  shown'[k].age < TTL[k] + Elapsed'
                                        + (IF pc[k] = "idle" THEN 0 ELSE Period)
      BY <2>1 DEF AgeInv
    <3>1. shown[k].age < TTL[k] + Elapsed + (IF pc[k] = "idle" THEN 0 ELSE Period)
      BY DEF AgeInv
    <3>2. shown[k] \in Snapshot \cup {NoSnap} /\ shown[k].age \in Nat
      BY <1>1, AgedSnap DEF Collection
    <3>3. shown'[k].age \in Nat /\ shown'[k].age <= shown[k].age + 1
      BY <1>2, <3>2, AgedSnap
    <3> QED
      BY <2>1, <3>1, <3>2, <3>3
  <2>5. HashInv'
    BY <1>1, <1>2, <1>3, <2>1, AgedSnap
       DEF HashInv, RunInv, Time, Cached, Collection, Older
  <2> QED
    BY <1>5, <2>3, <2>4, <2>5
<1> QED
  BY <1>6, <1>7

\* The types of the parts, one by one.
LEMMA StayTyped ==
    ASSUME TypeOK
    PROVE  /\ \A k \in Cached : cache[k] \in Snapshot \cup {NoSnap} /\ cache[k].age \in Nat
           /\ \A k \in Cached : run[k] \in Snapshot \cup {NoSnap} /\ run[k].age \in Nat
           /\ \A c \in Collection : shown[c] \in Snapshot \cup {NoSnap} /\ shown[c].age \in Nat
           /\ till \in 1 .. Period /\ Elapsed \in 0 .. Period - 1
           /\ knownFor \in Nat /\ NoSnap \in Snapshot \cup {NoSnap}
           /\ NewSnap \in Snapshot /\ NewSnap.age = 0 /\ NewSnap.fp = "blank"
           /\ NoSnap.age = 0 /\ NoSnap.fp = "none"
<1> USE PeriodAssumption, TTLAssumption
<1>1. /\ \A k \in Cached : cache[k] \in Snapshot \cup {NoSnap}
      /\ \A k \in Cached : run[k] \in Snapshot \cup {NoSnap}
      /\ \A c \in Collection : shown[c] \in Snapshot \cup {NoSnap}
  BY DEF TypeOK
<1>2. till \in 1 .. Period /\ knownFor \in Nat /\ Elapsed \in 0 .. Period - 1
  BY DEF TypeOK, Elapsed
<1>3. NewSnap \in Snapshot /\ NewSnap.age = 0 /\ NewSnap.fp = "blank"
  BY DEF NewSnap, Snapshot
<1>4. NoSnap.age = 0 /\ NoSnap.fp = "none"
  BY DEF NoSnap
<1> QED
  BY <1>1, <1>2, <1>3, <1>4, AgedSnap

LEMMA CacheStep ==
    ASSUME IInv, NEW k \in Cached, Hit(k) \/ Miss(k)
    PROVE  IInv'
<1> USE PeriodAssumption, TTLAssumption, StayTyped DEF IInv
<1> Cached \subseteq Collection /\ "hardware" \in Cached
  BY DEF Collection, Cached
<1>1. CASE Hit(k)
  <2>1. /\ pc[k] = "due" /\ cache[k].fp # "none" /\ cache[k].age < TTL[k]
        /\ pc' = [pc EXCEPT ![k] = "idle"] /\ shown' = [shown EXCEPT ![k] = cache[k]]
        /\ UNCHANGED << till, tries, known, knownFor, cache, run, Elapsed >>
    BY <1>1 DEF Hit, Fresh, ReturnSnap, Elapsed, Snapshot
  <2>2. TypeOK'
    BY <2>1 DEF TypeOK
  <2>3. RunInv'
    BY <2>1 DEF RunInv, TypeOK
  <2>4. AgeInv'
    BY <2>1 DEF AgeInv, TypeOK
  <2>5. HashInv'
    BY <2>1 DEF HashInv, TypeOK
  <2> QED
    BY <2>2, <2>3, <2>4, <2>5
<1>2. CASE Miss(k)
  <2>1. /\ pc[k] = "due" /\ pc' = [pc EXCEPT ![k] = "queries"]
        /\ run' = [run EXCEPT ![k] = NewSnap]
        /\ UNCHANGED << till, tries, known, knownFor, cache, shown, Elapsed >>
    BY <1>2 DEF Miss, Elapsed
  <2>2. TypeOK'
    BY <2>1 DEF TypeOK
  <2>3. RunInv'
    BY <2>1 DEF RunInv, TypeOK
  <2>4. AgeInv'
    BY <2>1 DEF AgeInv, TypeOK
  <2>5. HashInv'
    BY <2>1 DEF HashInv, TypeOK
  <2> QED
    BY <2>2, <2>3, <2>4, <2>5
<1> QED
  BY <1>1, <1>2

\* A scan that ends: its snapshot is as old as the tick at most.
LEMMA ScanEnds ==
    ASSUME IInv, SoftwareFails \/ SoftwareLists \/ SoftwareEmpty \/ HardwareDetails
    PROVE  IInv'
<1> USE PeriodAssumption, TTLAssumption, StayTyped DEF IInv, Cached, Collection
<1> PICK k \in Cached :
        /\ pc[k] \in {"queries", "details"}
        /\ k = "hardware" => pc[k] = "details"
        /\ pc' = [pc EXCEPT ![k] = "idle"] /\ run' = [run EXCEPT ![k] = NoSnap]
        /\ \E s \in {run[k], NoSnap} :
               /\ shown' = [shown EXCEPT ![k] = s]
               /\ k = "hardware" => s = run[k]
        /\ \E s \in {run[k], cache[k], NoSnap} :
               /\ cache' = [cache EXCEPT ![k] = s]
               /\ k = "hardware" => s = run[k]
        /\ UNCHANGED << till, tries, known, knownFor, Elapsed >>
  <2>1. CASE SoftwareFails
    <3> WITNESS "software" \in Cached
    <3>1. cache' = [cache EXCEPT !["software"] = cache["software"]]
      BY <2>1 DEF SoftwareFails, TypeOK
    <3> QED
      BY <2>1, <3>1 DEF SoftwareFails, ReturnSnap, Elapsed
  <2>2. CASE SoftwareLists
    <3> WITNESS "software" \in Cached
    <3> QED
      BY <2>2 DEF SoftwareLists, Keep, ReturnSnap, Elapsed
  <2>3. CASE SoftwareEmpty
    <3> WITNESS "software" \in Cached
    <3> QED
      BY <2>3 DEF SoftwareEmpty, ReturnSnap, Elapsed
  <2>4. CASE HardwareDetails
    <3> WITNESS "hardware" \in Cached
    <3> QED
      BY <2>4 DEF HardwareDetails, Keep, ReturnSnap, Elapsed
  <2> QED
    BY <2>1, <2>2, <2>3, <2>4
<1>1. run[k].age <= Elapsed /\ run[k].fp # "none"
  <2>1. pc[k] \in {"queries", "uuid", "details"}
    OBVIOUS
  <2> QED
    BY <2>1 DEF RunInv
<1>2. TypeOK'
  BY DEF TypeOK
<1>3. RunInv'
  BY DEF RunInv, TypeOK
<1>4. AgeInv'
  <2>1. shown'[k].age <= Elapsed /\ shown'[k].age \in Nat
    BY <1>1 DEF TypeOK
  <2>2. TTL[k] \in Nat \ {0} /\ pc'[k] = "idle"
    BY DEF TypeOK
  <2>3. \A j \in Cached \ {k} : shown'[j] = shown[j] /\ pc'[j] = pc[j]
    BY DEF TypeOK
  <2>4. Elapsed' = Elapsed
    OBVIOUS
  <2> QED
    BY <2>1, <2>2, <2>3, <2>4 DEF AgeInv
<1>5. HashInv'
  <2>1. CASE k = "software"
    <3>1. /\ pc'["hardware"] = pc["hardware"] /\ run'["hardware"] = run["hardware"]
          /\ cache'["hardware"] = cache["hardware"]
          /\ shown'["hardware"] = shown["hardware"]
      BY <2>1 DEF TypeOK
    <3> QED
      BY <3>1 DEF HashInv
  <2>2. CASE k = "hardware"
    <3>1. /\ pc'["hardware"] = "idle" /\ run'["hardware"] = NoSnap
          /\ cache'["hardware"] = run["hardware"]
          /\ shown'["hardware"] = run["hardware"]
          /\ pc["hardware"] = "details"
      BY <2>2 DEF TypeOK
    <3> QED
      BY <1>1, <2>2, <3>1 DEF HashInv
  <2> QED
    BY <2>1, <2>2
<1> QED
  BY <1>2, <1>3, <1>4, <1>5

\* Steps that touch neither the caches nor the software collector.
LEMMA HostStepInv ==
    ASSUME IInv, HostStep \/ HardwareQueries
    PROVE  IInv'
<1> USE PeriodAssumption, TTLAssumption, StayTyped
        DEF IInv, Cached, Collection, Fingerprinted
<1>1. CASE HostStep
  <2> PICK p \in {"idle", "queries", "uuid"}, s \in Snapshot \cup {NoSnap} :
          /\ pc' = [pc EXCEPT !["host"] = p] /\ shown' = [shown EXCEPT !["host"] = s]
          /\ UNCHANGED << till, tries, known, knownFor, cache, run, Elapsed >>
    <3>1. shown = [shown EXCEPT !["host"] = shown["host"]]
      BY DEF TypeOK
    <3>2. CASE HostBegin
      BY <3>1, <3>2 DEF HostBegin, Elapsed
    <3>3. CASE HostFails
      BY <3>3 DEF HostFails, ReturnSnap, Elapsed
    <3>4. CASE HostQueries
      BY <3>1, <3>4 DEF HostQueries, Elapsed
    <3> QED
      BY <1>1, <3>2, <3>3, <3>4 DEF HostStep
  <2>1. TypeOK'
    BY DEF TypeOK
  <2>2. \A k \in Cached : pc'[k] = pc[k] /\ shown'[k] = shown[k]
    BY DEF TypeOK
  <2> QED
    BY <2>1, <2>2 DEF RunInv, AgeInv, HashInv
<1>2. CASE HardwareQueries
  <2>1. /\ pc["hardware"] = "queries" /\ pc' = [pc EXCEPT !["hardware"] = "uuid"]
        /\ UNCHANGED << till, tries, known, knownFor, cache, run, shown, Elapsed >>
    BY <1>2 DEF HardwareQueries, Elapsed
  <2>2. TypeOK'
    BY <2>1 DEF TypeOK
  <2>3. RunInv' /\ AgeInv'
    BY <2>1 DEF RunInv, AgeInv, TypeOK
  <2>4. HashInv'
    BY <2>1 DEF HashInv, TypeOK
  <2> QED
    BY <2>2, <2>3, <2>4
<1> QED
  BY <1>1, <1>2

\* A fingerprint that is returned to its collection; fp is a hash only where the
\* scan is as old as the knowledge of the UUID.
LEMMA FingerprintInv ==
    ASSUME IInv, NEW a \in Fingerprinted, pc[a] = "uuid",
           NEW fp \in {"uuid", "hash"}, Fingerprint(a, fp),
           fp = "hash" => tries[a] > 0,
           known' \in BOOLEAN, known => known',
           UNCHANGED << till, knownFor, cache >>
    PROVE  IInv'
<1> USE PeriodAssumption, TTLAssumption, StayTyped
        DEF IInv, Cached, Collection, Fingerprinted
<1>0. tries' = [tries EXCEPT ![a] = 0] /\ Elapsed' = Elapsed /\ 0 \in 0 .. Attempts
  BY AttemptsAssumption DEF Fingerprint, Elapsed
<1>1. CASE a = "host"
  <2>1. /\ pc' = [pc EXCEPT !["host"] = "idle"] /\ UNCHANGED run
        /\ shown' = [shown EXCEPT !["host"] = Stamped(NewSnap, fp)]
    BY <1>1 DEF Fingerprint, ReturnSnap
  <2>2. Stamped(NewSnap, fp) \in Snapshot
    BY DEF Stamped, Snapshot
  <2>3. TypeOK'
    BY <1>0, <2>1, <2>2 DEF TypeOK
  <2>4. /\ \A k \in Cached : pc'[k] = pc[k] /\ shown'[k] = shown[k]
        /\ tries'["hardware"] = tries["hardware"]
    BY <1>0, <1>1, <2>1 DEF TypeOK
  <2> QED
    BY <1>0, <2>1, <2>3, <2>4 DEF RunInv, AgeInv, HashInv
<1>2. CASE a = "hardware"
  <2>1. /\ pc' = [pc EXCEPT !["hardware"] = "details"] /\ UNCHANGED shown
        /\ run' = [run EXCEPT !["hardware"] = Stamped(run["hardware"], fp)]
    BY <1>2 DEF Fingerprint
  <2>2. /\ Stamped(run["hardware"], fp) \in Snapshot
        /\ Stamped(run["hardware"], fp).age = run["hardware"].age
        /\ Stamped(run["hardware"], fp).fp = fp
    BY <1>2 DEF Stamped, Snapshot, NoSnap, TypeOK
  <2>3. TypeOK'
    BY <1>0, <2>1, <2>2 DEF TypeOK
  <2>4. RunInv' /\ AgeInv'
    BY <1>0, <1>2, <2>1, <2>2 DEF RunInv, AgeInv, TypeOK
  <2>5. HashInv'
    BY <1>0, <1>2, <2>1, <2>2 DEF HashInv, TypeOK
  <2> QED
    BY <2>3, <2>4, <2>5
<1> QED
  BY <1>1, <1>2

\* One more read of the table begins; the first only while no UUID is known.
LEMMA ReadBegins ==
    ASSUME IInv, NEW a \in Fingerprinted, pc[a] = "uuid",
           NEW n \in 1 .. Attempts, tries' = [tries EXCEPT ![a] = n],
           tries[a] > 0 \/ ~ known,
           UNCHANGED << till, pc, known, knownFor, cache, run, shown >>
    PROVE  IInv'
<1> USE PeriodAssumption, TTLAssumption, AttemptsAssumption, StayTyped
        DEF IInv, Cached, Collection, Fingerprinted
<1>1. TypeOK' /\ Elapsed' = Elapsed
  BY DEF TypeOK, Elapsed
<1>2. HashInv'
  BY <1>1 DEF HashInv, TypeOK
<1> QED
  BY <1>1, <1>2 DEF RunInv, AgeInv

LEMMA IInvStep == IInv /\ [Next]_vars => IInv'
<1> SUFFICES ASSUME IInv, [Next]_vars PROVE IInv'
  OBVIOUS
<1>1. CASE Time
  BY <1>1, TimeStep
<1>2. CASE HardwareStep
  BY <1>2, CacheStep, ScanEnds, HostStepInv DEF HardwareStep, Cached
<1>3. CASE SoftwareStep
  BY <1>3, CacheStep, ScanEnds DEF SoftwareStep, Cached
<1>4. CASE HostStep
  BY <1>4, HostStepInv
<1>5. ASSUME NEW a \in Fingerprinted, FingerprintStep(a) PROVE IInv'
  <2> USE AttemptsAssumption
  <2>0. pc[a] = "uuid" /\ tries[a] \in 0 .. Attempts /\ known \in BOOLEAN
    BY <1>5 DEF IInv, TypeOK, FingerprintStep, FastPath, ReadUUID, ReadNothing
  <2>1. CASE FastPath(a)
    <3>1. CASE known
      BY <2>0, <2>1, <3>1, FingerprintInv DEF FastPath, Reuse
    <3>2. CASE ~ known
      <4>1. 1 \in 1 .. Attempts
        OBVIOUS
      <4> QED
        BY <2>0, <2>1, <3>2, <4>1, ReadBegins DEF FastPath, Reuse
    <3> QED
      BY <3>1, <3>2
  <2>2. CASE ReadUUID(a)
    BY <2>0, <2>2, FingerprintInv DEF ReadUUID
  <2>3. CASE ReadNothing(a)
    <3>1. CASE tries[a] < Attempts
      <4>1. tries[a] + 1 \in 1 .. Attempts
        BY <2>0, <3>1
      <4>2. /\ tries' = [tries EXCEPT ![a] = tries[a] + 1] /\ tries[a] > 0
            /\ UNCHANGED << till, pc, known, knownFor, cache, run, shown >>
        BY <2>3, <3>1 DEF ReadNothing
      <4> QED
        BY <2>0, <4>1, <4>2, ReadBegins
    <3>2. CASE ~ tries[a] < Attempts
      <4>1. /\ Fingerprint(a, "hash") /\ tries[a] > 0
            /\ UNCHANGED << till, known, knownFor, cache >>
        BY <2>3, <3>2 DEF ReadNothing
      <4> QED
        BY <2>0, <4>1, FingerprintInv
    <3> QED
      BY <3>1, <3>2
  <2> QED
    BY <1>5, <2>1, <2>2, <2>3 DEF FingerprintStep
<1>6. CASE UNCHANGED vars
  BY <1>6 DEF vars, IInv, TypeOK, RunInv, AgeInv, HashInv, Elapsed
<1> QED
  BY <1>1, <1>2, <1>3, <1>4, <1>5, <1>6 DEF Next

LEMMA IInvHolds == Spec => []IInv
<1> QED
  BY IInvInit, IInvStep, PTL DEF Spec

\* Every variable keeps its type: all periods, lifetimes and numbers of reads.
THEOREM TypeCorrect == Spec => []TypeOK
<1>1. IInv => TypeOK
  BY DEF IInv
<1> QED
  BY <1>1, IInvHolds, PTL

\* Whatever the queries answer, an inventory that a collector has returned last is
\* never older than the lifetime of its cache, one period and the delay of a scan.
THEOREM ShownIsFresh == Spec => []StaleBound
<1>1. IInv => StaleBound
  <2> SUFFICES ASSUME IInv, NEW k \in Cached
               PROVE  shown[k].age < TTL[k] + Period + Delay
    BY DEF StaleBound
  <2> USE PeriodAssumption, TTLAssumption
  <2>1. shown[k].age \in Nat /\ Elapsed \in 0 .. Period - 1 /\ TTL[k] \in Nat
    BY StayTyped DEF IInv, Collection
  <2>2. CASE pc[k] = "idle"
    BY <2>1, <2>2 DEF IInv, AgeInv
  <2>3. CASE pc[k] # "idle"
    BY <2>1, <2>3 DEF IInv, AgeInv, RunInv
  <2> QED
    BY <2>2, <2>3
<1> QED
  BY <1>1, IInvHolds, PTL

\* Once the UUID has been known for that long, the hardware details carry it: a
\* hash is at least as old as the knowledge of the UUID.
THEOREM HashGivesWay == Spec => []HashIsReplaced
<1>1. IInv => HashIsReplaced
  <2> SUFFICES ASSUME IInv, knownFor >= TTL["hardware"] + Period + Delay
               PROVE  shown["hardware"].fp = "uuid"
    BY DEF HashIsReplaced
  <2> USE PeriodAssumption, TTLAssumption
  <2>1. /\ shown["hardware"] \in Snapshot \cup {NoSnap}
        /\ shown["hardware"].age \in Nat /\ Elapsed \in 0 .. Period - 1
        /\ TTL["hardware"] \in Nat \ {0} /\ knownFor \in Nat
    BY StayTyped DEF IInv, Collection, Cached
  <2>2. shown["hardware"].age < TTL["hardware"] + Period + Delay
    <3>1. CASE pc["hardware"] = "idle"
      BY <2>1, <3>1 DEF IInv, AgeInv, Cached
    <3>2. CASE pc["hardware"] # "idle"
      BY <2>1, <3>2 DEF IInv, AgeInv, RunInv, Cached
    <3> QED
      BY <3>1, <3>2
  <2>3. shown["hardware"].fp \notin {"hash", "blank", "none"}
    BY <2>1, <2>2 DEF IInv, HashInv
  <2> QED
    BY <2>1, <2>3 DEF Snapshot, NoSnap
<1> QED
  BY <1>1, IInvHolds, PTL
=============================================================================
