----------------------------- MODULE Inventory -----------------------------
(***************************************************************************)
(* internal/collector: the hardware and the software collector with their  *)
(* caches, the host collector, and the fingerprint of the machine that     *)
(* host metrics and hardware details share (fingerprint.go).               *)
(*                                                                         *)
(* The tickers of sim_collector.go ask for both inventories once a Period, *)
(* the first time at startup.  Time is relative: till counts down to the   *)
(* next tick and every snapshot carries its age.  The queries of the       *)
(* operating system and the firmware are external: they answer or fail.    *)
(***************************************************************************)
EXTENDS Naturals

CONSTANTS
    Period,      \* the scans' period
    Delay,       \* bound: a scan is over this long after its tick
    TTL,         \* cacheTTL of each cached inventory
    Attempts,    \* reads of the SMBIOS table before the hash is taken
    AgeCap       \* bound: ages are not told apart from here on

Cached == {"hardware", "software"}
Fingerprinted == {"hardware", "host"}

ASSUME PeriodAssumption ==
    /\ Period \in Nat \ {0} /\ Delay \in Nat \ {0} /\ Delay < Period
ASSUME TTLAssumption ==
    /\ TTL \in [Cached -> Nat \ {0}]
    /\ AgeCap \in Nat
    /\ \A k \in Cached : AgeCap > TTL[k] + Period + Delay
ASSUME AttemptsAssumption == Attempts \in Nat \ {0}

VARIABLES
    till,        \* time to the next tick of the scans
    pc,          \* "idle", "due", "queries", "uuid" or "details", per collection
    tries,       \* reads of the SMBIOS table begun by this stableFingerprint
    known,       \* smbiosUUIDCache holds the UUID
    knownFor,    \* history: for how long
    cache,       \* cache and lastAt of the hardware and software collector
    run,         \* the snapshot a scan is taking
    shown        \* what the last call of a collector returned

vars == << till, pc, tries, known, knownFor, cache, run, shown >>

Collection == Cached \cup Fingerprinted
\* The fingerprint is blank until it is known, and stays so in software lists.
Snapshot == [age : 0 .. AgeCap, fp : {"blank", "uuid", "hash"}]
NoSnap == [age |-> 0, fp |-> "none"]
NewSnap == [age |-> 0, fp |-> "blank"]

Older(n) == IF n < AgeCap THEN n + 1 ELSE n
Aged(s) == [age |-> IF s.fp = "none" THEN 0 ELSE Older(s.age), fp |-> s.fp]
Stamped(s, fp) == [age |-> s.age, fp |-> fp]
Elapsed == Period - till

TypeOK ==
    /\ till \in 1 .. Period
    /\ pc \in [Collection -> {"idle", "due", "queries", "uuid", "details"}]
    /\ tries \in [Fingerprinted -> 0 .. Attempts]
    /\ known \in BOOLEAN /\ knownFor \in 0 .. AgeCap
    /\ cache \in [Cached -> Snapshot \cup {NoSnap}]
    /\ run \in [Cached -> Snapshot \cup {NoSnap}]
    /\ shown \in [Collection -> Snapshot \cup {NoSnap}]

\* The startup asks for both inventories at once.
Init ==
    /\ till = Period
    /\ pc = [c \in Collection |-> IF c \in Cached THEN "due" ELSE "idle"]
    /\ tries = [a \in Fingerprinted |-> 0]
    /\ known = FALSE /\ knownFor = 0
    /\ cache = [k \in Cached |-> NoSnap] /\ run = [k \in Cached |-> NoSnap]
    /\ shown = [c \in Collection |-> NoSnap]

\* One unit of time; the last one before a tick makes both scans due.
Time ==
    /\ (\E k \in Cached : pc[k] # "idle") => Elapsed < Delay
    /\ till' = IF till = 1 THEN Period ELSE till - 1
    /\ pc' = IF till = 1
             THEN [c \in Collection |-> IF c \in Cached THEN "due" ELSE pc[c]]
             ELSE pc
    /\ knownFor' = IF known THEN Older(knownFor) ELSE 0
    /\ cache' = [k \in Cached |-> Aged(cache[k])]
    /\ run' = [k \in Cached |-> Aged(run[k])]
    /\ shown' = [c \in Collection |-> IF c \in Cached THEN Aged(shown[c]) ELSE shown[c]]
    /\ UNCHANGED << tries, known >>

------------------------------------------------------------------------------
(* The caches *)

\* Variant: the entry is used until it is older than its TTL.
MutFresh(k) == cache[k] # NoSnap /\ cache[k].age <= TTL[k]

Fresh(k) == cache[k] # NoSnap /\ cache[k].age < TTL[k]

\* A collector returns s, or NoSnap with an error, and goes back to rest.
ReturnSnap(c, s) ==
    /\ pc' = [pc EXCEPT ![c] = "idle"]
    /\ shown' = [shown EXCEPT ![c] = s]

\* The cache answers.
Hit(k) ==
    /\ pc[k] = "due" /\ Fresh(k)
    /\ ReturnSnap(k, cache[k])
    /\ UNCHANGED << till, tries, known, knownFor, cache, run >>

\* The time is taken here, before the queries.
Miss(k) ==
    /\ pc[k] = "due" /\ ~ Fresh(k)
    /\ pc' = [pc EXCEPT ![k] = "queries"]
    /\ run' = [run EXCEPT ![k] = NewSnap]
    /\ UNCHANGED << till, tries, known, knownFor, cache, shown >>

\* The scan is returned, and kept with the time it began.
Keep(k) ==
    /\ cache' = [cache EXCEPT ![k] = run[k]]
    /\ run' = [run EXCEPT ![k] = NoSnap]
    /\ ReturnSnap(k, run[k])

SoftwareFails ==
    /\ pc["software"] = "queries"
    /\ run' = [run EXCEPT !["software"] = NoSnap]
    /\ ReturnSnap("software", NoSnap)
    /\ UNCHANGED << till, tries, known, knownFor, cache >>

SoftwareLists ==
    /\ pc["software"] = "queries"
    /\ Keep("software")
    /\ UNCHANGED << till, tries, known, knownFor >>

\* A list without an entry is nil, and a nil cache counts as no cache.
SoftwareEmpty ==
    /\ pc["software"] = "queries"
    /\ cache' = [cache EXCEPT !["software"] = NoSnap]
    /\ run' = [run EXCEPT !["software"] = NoSnap]
    /\ ReturnSnap("software", run["software"])
    /\ UNCHANGED << till, tries, known, knownFor >>

\* A failed query of the host or the CPU is logged and its fields stay empty.
HardwareQueries ==
    /\ pc["hardware"] = "queries"
    /\ pc' = [pc EXCEPT !["hardware"] = "uuid"]
    /\ UNCHANGED << till, tries, known, knownFor, cache, run, shown >>

\* Disks, memory, graphics, mainboard and interfaces; whatever failed, the
\* result is cached and no error is returned.
HardwareDetails ==
    /\ pc["hardware"] = "details"
    /\ Keep("hardware")
    /\ UNCHANGED << till, tries, known, knownFor >>

------------------------------------------------------------------------------
(* Host metrics: not cached, and the first query that fails ends the call.  *)
(* The loop that asks for them runs after the startup scan of the hardware. *)

HostBegin ==
    /\ pc["host"] = "idle" /\ shown["hardware"] # NoSnap
    /\ pc' = [pc EXCEPT !["host"] = "queries"]
    /\ UNCHANGED << till, tries, known, knownFor, cache, run, shown >>

HostFails ==
    /\ pc["host"] = "queries"
    /\ ReturnSnap("host", NoSnap)
    /\ UNCHANGED << till, tries, known, knownFor, cache, run >>

HostQueries ==
    /\ pc["host"] = "queries"
    /\ pc' = [pc EXCEPT !["host"] = "uuid"]
    /\ UNCHANGED << till, tries, known, knownFor, cache, run, shown >>

------------------------------------------------------------------------------
(* The fingerprint *)

\* stableFingerprint returns fp to the collection a.
Fingerprint(a, fp) ==
    /\ tries' = [tries EXCEPT ![a] = 0]
    /\ \/ /\ a = "host"
          /\ ReturnSnap(a, Stamped(NewSnap, fp))
          /\ UNCHANGED run
       \/ /\ a = "hardware"
          /\ run' = [run EXCEPT ![a] = Stamped(@, fp)]
          /\ pc' = [pc EXCEPT ![a] = "details"]
          /\ UNCHANGED shown

\* Variant: the table is read again although the UUID is known.
MutReuse(a) ==
    /\ tries' = [tries EXCEPT ![a] = 1]
    /\ UNCHANGED << pc, run, shown >>

\* The fast path, under the read lock.
Reuse(a) ==
    IF known THEN Fingerprint(a, "uuid")
    ELSE /\ tries' = [tries EXCEPT ![a] = 1]
         /\ UNCHANGED << pc, run, shown >>

FastPath(a) ==
    /\ pc[a] = "uuid" /\ tries[a] = 0
    /\ Reuse(a)
    /\ UNCHANGED << till, known, knownFor, cache >>

\* Variant: the UUID is returned but not remembered.
MutReadUUID(a) ==
    /\ pc[a] = "uuid" /\ tries[a] > 0
    /\ Fingerprint(a, "uuid")
    /\ UNCHANGED << till, known, knownFor, cache >>

\* A read that finds a UUID stores it for every later call.
ReadUUID(a) ==
    /\ pc[a] = "uuid" /\ tries[a] > 0
    /\ known' = TRUE
    /\ Fingerprint(a, "uuid")
    /\ UNCHANGED << till, knownFor, cache >>

\* Variant: one read too many.
MutReadNothing(a) ==
    /\ pc[a] = "uuid" /\ tries[a] > 0
    /\ IF tries[a] <= Attempts
       THEN /\ tries' = [tries EXCEPT ![a] = @ + 1]
            /\ UNCHANGED << pc, run, shown >>
       ELSE Fingerprint(a, "hash")
    /\ UNCHANGED << till, known, knownFor, cache >>

\* A read that finds none is repeated; after the last one the hash of the host
\* name is the fingerprint.  What another call has stored is not looked at.
ReadNothing(a) ==
    /\ pc[a] = "uuid" /\ tries[a] > 0
    /\ IF tries[a] < Attempts
       THEN /\ tries' = [tries EXCEPT ![a] = @ + 1]
            /\ UNCHANGED << pc, run, shown >>
       ELSE Fingerprint(a, "hash")
    /\ UNCHANGED << till, known, knownFor, cache >>

------------------------------------------------------------------------------

HardwareStep == Hit("hardware") \/ Miss("hardware") \/ HardwareQueries \/ HardwareDetails
SoftwareStep == Hit("software") \/ Miss("software") \/ SoftwareFails
                \/ SoftwareLists \/ SoftwareEmpty
HostStep == HostBegin \/ HostFails \/ HostQueries
FingerprintStep(a) == FastPath(a) \/ ReadUUID(a) \/ ReadNothing(a)

Next ==
    \/ Time \/ HardwareStep \/ SoftwareStep \/ HostStep
    \/ \E a \in Fingerprinted : FingerprintStep(a)

Spec == Init /\ [][Next]_vars

\* Time passes, scans end, and the firmware answers again and again.
FairSpec ==
    /\ Spec
    /\ WF_vars(Time) /\ WF_vars(HardwareStep) /\ WF_vars(SoftwareStep)
    /\ WF_vars(HostStep)
    /\ \A a \in Fingerprinted : WF_vars(FingerprintStep(a)) /\ SF_vars(ReadUUID(a))

------------------------------------------------------------------------------
(* Properties *)

\* What the last call of a collector returned is never older than one lifetime of
\* the cache and one more period with its delay: the expiry is tested at ticks only,
\* and an entry that is about to expire is good for one more round.  After a call
\* that failed, or a Save that failed, the backend keeps what it was given before,
\* and there is no bound on its age.
StaleBound ==
    \A k \in Cached : shown[k].age < TTL[k] + Period + Delay

\* A hash that was taken while the firmware did not answer stays in the hardware
\* cache, beside host metrics that carry the UUID, but not for longer than that.
HashIsReplaced ==
    knownFor >= TTL["hardware"] + Period + Delay => shown["hardware"].fp = "uuid"

\* Host metrics and hardware details end up with the same fingerprint for good.
FingerprintsConverge ==
    <>[](shown["hardware"].fp = "uuid" /\ shown["host"].fp # "hash")
=============================================================================
