-------------------------- MODULE DataBufferProofs --------------------------
(***************************************************************************)
(* Proofs about DataBuffer, for every number of savers and records, every  *)
(* limit, chunk and number of restarts, with failing transactions or not.  *)
(*                                                                         *)
(* The steps are collected in BStep, which forgets who triggers them and   *)
(* lets the batch become any part of any window, so that DataDispatcher,   *)
(* which composes the same actions differently, uses the same lemmas.      *)
(***************************************************************************)
EXTENDS DataBuffer, FiniteSetTheorems, WellFoundedInduction, TLAPS

USE DEF Proc

\* The peeked batch is replaced by records of a window, or dropped.
SetBatch ==
    /\ \E n : batch' \subseteq Window(n)
    /\ UNCHANGED << store, fileSize, clock, handle, readers, leaked, writeMu, pc,
                    key, job, fate, restarts >>

SaverOnly(p) == \/ \E r \in Record : SaveBegin(p, r) \/ SaveTooLong(p, r)
                \/ SaveCommit(p) \/ SaveAbort(p)

AnyProc(p) == \/ AcquireWriteMu(p) \/ EnforceSize(p) \/ PruneDone(p)
              \/ PruneChunkStep(p) \/ SizePolicyFails(p)

BStep == \/ \E p \in Saver : SaverOnly(p)
         \/ \E p \in Proc : AnyProc(p)
         \/ SetBatch
         \/ DeleteBegin \/ DeleteCommit \/ DeleteAbort
         \/ CloseCall \/ CloseDone \/ Restart
         \/ UNCHANGED bufferVars

\* Every step of DataBuffer, stuttering included, is one of BStep.
LEMMA NextIsBStep == [BufferNext]_bufferVars => BStep
<1> SUFFICES ASSUME BufferNext PROVE BStep
  BY DEF BStep
<1>1. ASSUME NEW p \in Saver, SaveCall(p) \/ SaverStep(p) PROVE BStep
  BY <1>1 DEF BStep, SaverOnly, AnyProc, SaveCall, SaverStep
<1>2. ASSUME NEW B \in SUBSET Window(Cardinality(Key)), PeekBatch(B) PROVE BStep
  BY <1>2 DEF BStep, SetBatch, PeekBatch
<1>3. ASSUME DispatcherStep PROVE BStep
  BY <1>3 DEF BStep, AnyProc, DispatcherStep
<1>4. ASSUME Stopped PROVE BStep
  BY <1>4 DEF BStep, Stopped
<1> QED
  BY <1>1, <1>2, <1>3, <1>4 DEF BufferNext, BStep

------------------------------------------------------------------------------
(* Type correctness *)

BatchType == [key : Key, dataType : {TypeOf[r] : r \in Record}, rec : Record]

\* Entries of live keys are well typed.
LEMMA WindowType == ASSUME TypeOK, NEW n PROVE Window(n) \subseteq BatchType
<1> SUFFICES ASSUME NEW k \in Oldest(n) PROVE Entry(k) \in BatchType
  BY DEF Window
<1>1. k \in Key /\ store[k] \in Record
  BY DEF TypeOK, Oldest, Live
<1> QED
  BY <1>1 DEF Entry, BatchType

\* The size of the file stays a number when a key is added.
LEMMA GrownType ==
    ASSUME TypeOK, NEW k \in Key
    PROVE  Grown(Cardinality(Live \cup {k})) \in Nat
<1>1. Live \cup {k} \subseteq Key
  BY DEF Live
<1>2. Cardinality(Live \cup {k}) \in Nat
  BY <1>1, KeyAssumption, FS_Subset, FS_CardinalityType
<1> QED
  BY <1>2 DEF Grown, TypeOK

\* In a transaction a saver has a record to write.
JobInv == \A p \in Saver : pc[p] \in {"lock", "update"} => job[p] \in Record

TypeInv == TypeOK /\ JobInv

LEMMA TypeInit == BufferInit => TypeInv
BY KeyAssumption, ProcAssumption
DEF BufferInit, TypeInv, TypeOK, JobInv, Resting

LEMMA TypeStep == TypeInv /\ BStep => TypeInv'
<1> SUFFICES ASSUME TypeInv, BStep PROVE TypeInv'
  OBVIOUS
<1> USE DEF TypeInv, TypeOK, JobInv, Resting
<1>1. ASSUME NEW p \in Saver, NEW r \in Record, SaveBegin(p, r) PROVE TypeInv'
  BY <1>1, ProcAssumption DEF SaveBegin, ReadClock
<1>2. ASSUME NEW p \in Saver, NEW r \in Record, SaveTooLong(p, r) PROVE TypeInv'
  BY <1>2 DEF SaveTooLong
<1>3. ASSUME NEW p \in Saver, SaveCommit(p) PROVE TypeInv'
  <2>1. fileSize' \in Nat
    BY <1>3, GrownType DEF SaveCommit
  <2> QED
    BY <1>3, <2>1, KeyAssumption DEF SaveCommit
<1>4. ASSUME NEW p \in Saver, SaveAbort(p) PROVE TypeInv'
  BY <1>4, KeyAssumption DEF SaveAbort, Return
<1>5. ASSUME NEW p \in Proc, AcquireWriteMu(p) PROVE TypeInv'
  BY <1>5 DEF AcquireWriteMu
<1>6. ASSUME NEW p \in Proc, EnforceSize(p) PROVE TypeInv'
  BY <1>6 DEF EnforceSize, Return
<1>7. ASSUME NEW p \in Proc, PruneDone(p) \/ SizePolicyFails(p) PROVE TypeInv'
  BY <1>7 DEF PruneDone, SizePolicyFails, Return
<1>8. ASSUME NEW p \in Proc, PruneChunkStep(p) PROVE TypeInv'
  BY <1>8 DEF PruneChunkStep
<1>9. ASSUME SetBatch PROVE TypeInv'
  BY <1>9, WindowType DEF SetBatch, BatchType
<1>10. ASSUME DeleteBegin PROVE TypeInv'
  BY <1>10, ProcAssumption DEF DeleteBegin
<1>11. ASSUME DeleteCommit PROVE TypeInv'
  BY <1>11, ProcAssumption DEF DeleteCommit
<1>12. ASSUME DeleteAbort PROVE TypeInv'
  BY <1>12, ProcAssumption DEF DeleteAbort, Return
<1>13. ASSUME CloseCall \/ CloseDone PROVE TypeInv'
  BY <1>13 DEF CloseCall, CloseDone
<1>14. ASSUME Restart PROVE TypeInv'
  <2>1. /\ store' = store /\ fileSize' = fileSize /\ clock' = clock
        /\ restarts' \in Nat /\ handle' = "open" /\ leaked' = FALSE
        /\ readers' = {} /\ batch' = {} /\ writeMu' = NoProc
    BY <1>14 DEF Restart
  <2>2. /\ pc' = [p \in Proc |-> "idle"]
        /\ key' = [p \in Saver |-> 0]
        /\ job' = [p \in Saver |-> NoRecord]
    BY <1>14 DEF Restart
  <2>3. fate' \in [Record -> {"new", "saving", "stored", "deleted", "pruned", "lost"}]
    BY <1>14 DEF Restart
  <2> QED
    BY <2>1, <2>2, <2>3, KeyAssumption
<1>15. ASSUME UNCHANGED bufferVars PROVE TypeInv'
  BY <1>15 DEF bufferVars
<1> QED
  BY <1>1, <1>2, <1>3, <1>4, <1>5, <1>6, <1>7, <1>8, <1>9, <1>10, <1>11, <1>12,
     <1>13, <1>14, <1>15 DEF BStep, SaverOnly, AnyProc

(* Every variable of the buffer keeps its type in every behaviour.          *)
THEOREM TypeCorrect == BufferSpec => []TypeOK
<1>1. TypeInv /\ [BufferNext]_bufferVars => TypeInv'
  BY NextIsBStep, TypeStep
<1> QED
  BY TypeInit, <1>1, PTL DEF BufferSpec, TypeInv

------------------------------------------------------------------------------
(* The locks *)

LEMMA LockInit == BufferInit => LockInv
BY ProcAssumption DEF BufferInit, LockInv

LEMMA LockStep == TypeInv /\ LockInv /\ BStep => LockInv'
<1> SUFFICES ASSUME TypeInv, LockInv, BStep PROVE LockInv'
  OBVIOUS
<1> USE ProcAssumption DEF TypeInv, TypeOK, LockInv, Resting
<1>1. ASSUME NEW p \in Saver, NEW r \in Record, SaveBegin(p, r) PROVE LockInv'
  BY <1>1 DEF SaveBegin
<1>2. ASSUME NEW p \in Saver, NEW r \in Record, SaveTooLong(p, r) PROVE LockInv'
  BY <1>2 DEF SaveTooLong
<1>3. ASSUME NEW p \in Saver, SaveCommit(p) PROVE LockInv'
  BY <1>3 DEF SaveCommit
<1>4. ASSUME NEW p \in Saver, SaveAbort(p) PROVE LockInv'
  BY <1>4 DEF SaveAbort, Return
<1>5. ASSUME NEW p \in Proc, AcquireWriteMu(p) PROVE LockInv'
  BY <1>5 DEF AcquireWriteMu
<1>6. ASSUME NEW p \in Proc, EnforceSize(p) PROVE LockInv'
  BY <1>6 DEF EnforceSize, Return
<1>7. ASSUME NEW p \in Proc, PruneDone(p) \/ SizePolicyFails(p) PROVE LockInv'
  BY <1>7 DEF PruneDone, SizePolicyFails, Return
<1>8. ASSUME NEW p \in Proc, PruneChunkStep(p) PROVE LockInv'
  BY <1>8 DEF PruneChunkStep
<1>9. ASSUME SetBatch PROVE LockInv'
  BY <1>9 DEF SetBatch
<1>10. ASSUME DeleteBegin PROVE LockInv'
  BY <1>10 DEF DeleteBegin
<1>11. ASSUME DeleteCommit PROVE LockInv'
  BY <1>11 DEF DeleteCommit
<1>12. ASSUME DeleteAbort PROVE LockInv'
  BY <1>12 DEF DeleteAbort, Return
<1>13. ASSUME CloseCall \/ CloseDone PROVE LockInv'
  BY <1>13 DEF CloseCall, CloseDone
<1>14. ASSUME Restart PROVE LockInv'
  BY <1>14 DEF Restart
<1>15. ASSUME UNCHANGED bufferVars PROVE LockInv'
  BY <1>15 DEF bufferVars
<1> QED
  BY <1>1, <1>2, <1>3, <1>4, <1>5, <1>6, <1>7, <1>8, <1>9, <1>10, <1>11, <1>12,
     <1>13, <1>14, <1>15 DEF BStep, SaverOnly, AnyProc

(* writeMu serializes the writers and dbMu counts its readers, always.      *)
THEOREM LocksCorrect == BufferSpec => []LockInv
<1>1. TypeInv /\ LockInv /\ [BufferNext]_bufferVars => (TypeInv /\ LockInv)'
  BY NextIsBStep, TypeStep, LockStep
<1> QED
  BY TypeInit, LockInit, <1>1, PTL DEF BufferSpec

\* Close gets its lock from the last reader.
LEMMA CloseWaits ==
    ASSUME LockInv, BStep, handle # "closed", handle' = "closed"
    PROVE  \A p \in Proc : pc[p] \notin {"lock", "update"}
<1>1. CloseDone
  BY DEF BStep, SaverOnly, AnyProc, SaveBegin, SaveTooLong, SaveCommit, SaveAbort,
     AcquireWriteMu, EnforceSize, PruneDone, PruneChunkStep, SizePolicyFails,
     SetBatch, DeleteBegin, DeleteCommit, DeleteAbort, CloseCall, Restart, bufferVars
<1> QED
  BY <1>1 DEF CloseDone, LockInv

(* Close completes only when no call is between RLock and RUnlock.          *)
THEOREM CloseIsSafe == BufferSpec => CloseDrains
<1>1. LockInv /\ [BufferNext]_bufferVars
        => [handle # "closed" /\ handle' = "closed"
              => \A p \in Proc : pc[p] \notin {"lock", "update"}]_bufferVars
  BY NextIsBStep, CloseWaits
<1> QED
  BY LocksCorrect, <1>1, PTL DEF BufferSpec, CloseDrains

------------------------------------------------------------------------------
(* No silent loss, under the assumption that two saves never read the same *)
(* instant.  A key is then older than the clock from the moment it is read; *)
(* a running Save owns its key and its record; and the key of a peeked     *)
(* record, if it is still live, still holds that record.                   *)

InFlight(p) == pc[p] \in {"lock", "update"}

KeysUsed ==
    /\ \A k \in Key : store[k] # NoRecord => k < clock
    /\ \A p \in Saver : InFlight(p) => key[p] < clock
    /\ \A b \in batch : b.key < clock

Ownership ==
    /\ \A p \in Saver : InFlight(p) =>
          /\ store[key[p]] = NoRecord
          /\ fate[job[p]] = "saving"
          /\ \A b \in batch : b.key # key[p]
    /\ \A p, q \in Saver : p # q /\ InFlight(p) /\ InFlight(q) =>
          key[p] # key[q] /\ job[p] # job[q]

OneKeyEach == \A j, k \in Key : store[j] = store[k] /\ store[j] # NoRecord => j = k

BatchInv == \A b \in batch : /\ store[b.key] \in {b.rec, NoRecord}
                             /\ fate[b.rec] \in {"stored", "pruned"}

LossInv == KeysUsed /\ Ownership /\ OneKeyEach /\ BatchInv /\ NoSilentLoss

LEMMA LossInit == BufferInit => LossInv
BY RecordAssumption, ProcAssumption
DEF BufferInit, LossInv, KeysUsed, Ownership, OneKeyEach, BatchInv, NoSilentLoss,
    InFlight

\* A step that leaves the bucket and the history alone, starts no Save and
\* adds nothing to the batch.
LEMMA LossIdle ==
    ASSUME TypeInv, LossInv, UNCHANGED << store, clock, fate >>, batch' \subseteq batch,
           \A p \in Saver : InFlight(p)' =>
              InFlight(p) /\ key'[p] = key[p] /\ job'[p] = job[p]
    PROVE  LossInv'
BY DEF TypeInv, TypeOK, LossInv, KeysUsed, Ownership, OneKeyEach, BatchInv,
       NoSilentLoss

\* Records taken out of the bucket together with their keys are not lost, if
\* the history says so.
LEMMA Removal ==
    ASSUME TypeInv, LossInv, NEW K \in SUBSET Key,
           NEW f \in {"deleted", "pruned"},
           store' = [k \in Key |-> IF k \in K THEN NoRecord ELSE store[k]],
           fate' = [r \in Record |-> IF \E k \in K : store[k] = r THEN f ELSE fate[r]]
    PROVE  OneKeyEach' /\ NoSilentLoss'
<1> USE RecordAssumption DEF TypeInv, TypeOK, LossInv, OneKeyEach, NoSilentLoss
<1>1. OneKeyEach'
  OBVIOUS
<1>2. ASSUME NEW r \in Record
      PROVE  fate'[r] = "stored" <=> \E k \in Key : store'[k] = r
  <2>1. CASE \E k \in K : store[k] = r
    OBVIOUS
  <2>2. CASE ~ \E k \in K : store[k] = r
    OBVIOUS
  <2> QED
    BY <2>1, <2>2
<1> QED
  BY <1>1, <1>2

\* A Save that begins takes a key nobody has, for a record nobody has.
LEMMA LossSaveBegin ==
    ASSUME FreshClock, TypeInv, LossInv,
           NEW p \in Saver, NEW r \in Record, SaveBegin(p, r)
    PROVE  LossInv'
<1> USE ProcAssumption, RecordAssumption, KeyAssumption
    DEF TypeInv, TypeOK, JobInv, LossInv, InFlight, Resting
<1>1. /\ clock' = clock + 1 /\ key' = [key EXCEPT ![p] = clock]
      /\ job' = [job EXCEPT ![p] = r] /\ pc' = [pc EXCEPT ![p] = "lock"]
      /\ fate' = [fate EXCEPT ![r] = "saving"]
      /\ UNCHANGED << store, batch >>
      /\ fate[r] = "new" /\ pc[p] \in Resting
  BY DEF SaveBegin, ReadClock
<1>2. KeysUsed'
  <2>1. \A k \in Key : k < clock => k < clock'
    BY <1>1
  <2>2. ASSUME NEW b \in batch PROVE b.key < clock'
    <3>1. b.key \in Key /\ b.key < clock
      BY DEF KeysUsed
    <3> QED
      BY <2>1, <3>1
  <2>3. ASSUME NEW q \in Saver, InFlight(q)' PROVE key'[q] < clock'
    <3>1. CASE q = p
      BY <1>1, <3>1
    <3>2. CASE q # p
      <4>1. key'[q] = key[q] /\ key[q] \in Key /\ InFlight(q)
        BY <1>1, <2>3, <3>2
      <4> QED
        BY <2>1, <4>1 DEF KeysUsed
    <3> QED
      BY <3>1, <3>2
  <2> QED
    BY <1>1, <2>1, <2>2, <2>3 DEF KeysUsed
<1>3. NoSilentLoss'
  BY <1>1 DEF NoSilentLoss
<1>4. OneKeyEach' /\ BatchInv'
  BY <1>1 DEF OneKeyEach, BatchInv
<1>5. ASSUME NEW q \in Saver, InFlight(q)'
      PROVE  /\ store'[key'[q]] = NoRecord
             /\ fate'[job'[q]] = "saving"
             /\ \A b \in batch' : b.key # key'[q]
  <2>1. CASE q = p
    <3>1. store[clock] = NoRecord
      BY DEF KeysUsed
    <3>2. \A b \in batch : b.key # clock
      BY DEF KeysUsed
    <3> QED
      BY <1>1, <2>1, <3>1, <3>2
  <2>2. CASE q # p
    BY <1>1, <1>5, <2>2 DEF Ownership
  <2> QED
    BY <2>1, <2>2
<1>6. ASSUME NEW q \in Saver, NEW t \in Saver, q # t, InFlight(q)', InFlight(t)'
      PROVE  key'[q] # key'[t] /\ job'[q] # job'[t]
  <2>1. \A u \in Saver \ {p} : InFlight(u)' => key[u] < clock /\ job[u] # r
    BY <1>1 DEF KeysUsed, Ownership
  <2> QED
    BY <1>1, <1>6, <2>1 DEF Ownership
<1> QED
  BY <1>2, <1>3, <1>4, <1>5, <1>6 DEF Ownership

\* A transaction writes under the key its Save owns: it overwrites nothing.
LEMMA LossSaveCommit ==
    ASSUME TypeInv, LossInv, NEW p \in Saver, SaveCommit(p)
    PROVE  LossInv'
<1> USE ProcAssumption, RecordAssumption
    DEF TypeInv, TypeOK, JobInv, LossInv, InFlight
<1>1. /\ store' = [store EXCEPT ![key[p]] = job[p]]
      /\ fate' = [fate EXCEPT ![job[p]] = "stored"]
      /\ key' = [key EXCEPT ![p] = 0] /\ pc' = [pc EXCEPT ![p] = "enforce"]
      /\ UNCHANGED << clock, job, batch >>
      /\ InFlight(p) /\ key[p] \in Key /\ job[p] \in Record
  BY DEF SaveCommit
<1>2. /\ store[key[p]] = NoRecord /\ fate[job[p]] = "saving" /\ key[p] < clock
      /\ \A b \in batch : b.key # key[p]
  BY <1>1 DEF Ownership, KeysUsed
<1>3. \A k \in Key : store[k] # job[p]
  BY <1>1, <1>2 DEF NoSilentLoss
<1>4. KeysUsed'
  BY <1>1, <1>2 DEF KeysUsed
<1>5. Ownership'
  BY <1>1, <1>2 DEF Ownership
<1>6. OneKeyEach'
  BY <1>1, <1>3 DEF OneKeyEach
<1>7. BatchInv'
  BY <1>1, <1>2 DEF BatchInv
<1>8. NoSilentLoss'
  BY <1>1, <1>2, <1>3 DEF NoSilentLoss
<1> QED
  BY <1>4, <1>5, <1>6, <1>7, <1>8

\* A Save that gives up tells the caller, and nothing of it is in the bucket.
LEMMA LossSaveAbort ==
    ASSUME TypeInv, LossInv, NEW p \in Saver, SaveAbort(p)
    PROVE  LossInv'
<1> USE ProcAssumption, RecordAssumption
    DEF TypeInv, TypeOK, JobInv, LossInv, InFlight
<1>1. /\ fate' = [fate EXCEPT ![job[p]] = "lost"]
      /\ key' = [key EXCEPT ![p] = 0] /\ pc' = [pc EXCEPT ![p] = "failed"]
      /\ job' = [q \in Saver |-> IF q = p THEN NoRecord ELSE job[q]]
      /\ UNCHANGED << clock, store, batch >>
      /\ InFlight(p) /\ job[p] \in Record
  BY DEF SaveAbort, Return
<1>2. fate[job[p]] = "saving"
  BY <1>1 DEF Ownership
<1>3. KeysUsed' /\ OneKeyEach'
  BY <1>1 DEF KeysUsed, OneKeyEach
<1>4. Ownership'
  BY <1>1, <1>2 DEF Ownership
<1>5. BatchInv'
  BY <1>1, <1>2 DEF BatchInv
<1>6. NoSilentLoss'
  BY <1>1, <1>2 DEF NoSilentLoss
<1> QED
  BY <1>3, <1>4, <1>5, <1>6

\* What is peeked is what is stored, and no running Save owns its key.
LEMMA LossSetBatch ==
    ASSUME TypeInv, LossInv, SetBatch
    PROVE  LossInv'
<1> USE ProcAssumption, RecordAssumption
    DEF TypeInv, TypeOK, JobInv, LossInv, InFlight
<1>1. UNCHANGED << store, clock, pc, key, job, fate >>
  BY DEF SetBatch
<1>2. PICK n : batch' \subseteq Window(n)
  BY DEF SetBatch
<1>3. ASSUME NEW b \in batch'
      PROVE  b.key \in Key /\ store[b.key] = b.rec /\ b.rec \in Record
  <2>1. PICK k \in Oldest(n) : b = Entry(k)
    BY <1>2 DEF Window
  <2>2. k \in Key /\ store[k] \in Record
    BY DEF Oldest, Live
  <2> QED
    BY <2>1, <2>2 DEF Entry
<1>4. KeysUsed'
  BY <1>1, <1>3, RecordAssumption DEF KeysUsed
<1>5. Ownership'
  BY <1>1, <1>3 DEF Ownership
<1>6. OneKeyEach' /\ NoSilentLoss'
  BY <1>1 DEF OneKeyEach, NoSilentLoss
<1>7. BatchInv'
  BY <1>1, <1>3 DEF BatchInv, NoSilentLoss
<1> QED
  BY <1>4, <1>5, <1>6, <1>7

\* The delete takes out what its batch holds and forgets the batch.
LEMMA LossDelete ==
    ASSUME TypeInv, LossInv, DeleteCommit
    PROVE  LossInv'
<1> USE ProcAssumption, RecordAssumption
    DEF TypeInv, TypeOK, JobInv, LossInv, InFlight
<1>1. /\ store' = [k \in Key |-> IF k \in BatchKeys THEN NoRecord ELSE store[k]]
      /\ fate' = [r \in Record |-> IF \E k \in BatchKeys : store[k] = r
                                   THEN "deleted" ELSE fate[r]]
      /\ batch' = {} /\ pc' = [pc EXCEPT ![Dispatcher] = "enforce"]
      /\ UNCHANGED << clock, key, job >>
  BY DEF DeleteCommit
<1>2. BatchKeys \in SUBSET Key
  BY DEF BatchKeys
<1>3. OneKeyEach' /\ NoSilentLoss'
  BY <1>1, <1>2, Removal
<1>4. KeysUsed' /\ BatchInv'
  BY <1>1 DEF KeysUsed, BatchInv
<1>5. ASSUME NEW p \in Saver, InFlight(p)'
      PROVE  InFlight(p) /\ store'[key[p]] = NoRecord /\ fate'[job[p]] = "saving"
  <2>1. InFlight(p) /\ store[key[p]] = NoRecord /\ fate[job[p]] = "saving"
    BY <1>1, <1>5 DEF Ownership
  <2>2. ~ \E k \in BatchKeys : store[k] = job[p]
    BY <1>2, <2>1 DEF NoSilentLoss
  <2> QED
    BY <1>1, <2>1, <2>2
<1>6. ASSUME NEW p \in Saver, NEW q \in Saver, p # q, InFlight(p)', InFlight(q)'
      PROVE  key[p] # key[q] /\ job[p] # job[q]
  BY <1>5, <1>6 DEF Ownership
<1>7. Ownership'
  <2>1. ASSUME NEW p \in Saver, InFlight(p)'
        PROVE  /\ store'[key'[p]] = NoRecord /\ fate'[job'[p]] = "saving"
               /\ \A b \in batch' : b.key # key'[p]
    BY <1>1, <1>5, <2>1
  <2>2. ASSUME NEW p \in Saver, NEW q \in Saver, p # q, InFlight(p)', InFlight(q)'
        PROVE  key'[p] # key'[q] /\ job'[p] # job'[q]
    BY <1>1, <1>6, <2>2
  <2> QED
    BY <2>1, <2>2 DEF Ownership
<1> QED
  BY <1>3, <1>4, <1>7

\* So does a chunk of the size policy; the batch keeps its keys.
LEMMA LossPrune ==
    ASSUME TypeInv, LossInv, NEW q \in Proc, PruneChunkStep(q)
    PROVE  LossInv'
<1> USE ProcAssumption, RecordAssumption
    DEF TypeInv, TypeOK, JobInv, LossInv, InFlight
<1> DEFINE K == Oldest(PruneChunk)
<1> HIDE DEF K
<1>1. /\ store' = [k \in Key |-> IF k \in K THEN NoRecord ELSE store[k]]
      /\ fate' = [r \in Record |-> IF \E k \in K : store[k] = r
                                   THEN "pruned" ELSE fate[r]]
      /\ UNCHANGED << clock, key, job, batch, pc >>
  BY DEF PruneChunkStep, K
<1>2. K \in SUBSET Key
  BY DEF K, Oldest, Live
<1>3. OneKeyEach' /\ NoSilentLoss'
  BY <1>1, <1>2, Removal
<1>4. KeysUsed'
  BY <1>1 DEF KeysUsed
<1>5. ASSUME NEW b \in batch
      PROVE  store'[b.key] \in {b.rec, NoRecord} /\ fate'[b.rec] \in {"stored", "pruned"}
  <2>1. b.key \in Key /\ b.rec \in Record
    OBVIOUS
  <2> QED
    BY <1>1, <2>1 DEF BatchInv
<1>6. ASSUME NEW p \in Saver, InFlight(p)
      PROVE  store'[key[p]] = NoRecord /\ fate'[job[p]] = "saving"
  <2>1. store[key[p]] = NoRecord /\ fate[job[p]] = "saving"
    BY <1>6 DEF Ownership
  <2>2. ~ \E k \in K : store[k] = job[p]
    BY <1>2, <1>6, <2>1 DEF NoSilentLoss
  <2> QED
    BY <1>1, <1>6, <2>1, <2>2
<1>7. BatchInv'
  BY <1>1, <1>5 DEF BatchInv
<1>8. \A p \in Saver : InFlight(p)' <=> InFlight(p)
  BY <1>1
<1>9. Ownership'
  BY <1>1, <1>6, <1>8 DEF Ownership
<1> QED
  BY <1>3, <1>4, <1>7, <1>9

\* A crash loses exactly the records whose Save has not committed.
LEMMA LossRestart ==
    ASSUME TypeInv, LossInv, Restart
    PROVE  LossInv'
<1>1. /\ pc' = [p \in Proc |-> "idle"] /\ batch' = {}
      /\ fate' = [r \in Record |-> IF fate[r] = "saving" THEN "lost" ELSE fate[r]]
      /\ UNCHANGED << store, clock >>
  BY DEF Restart
<1> QED
  BY <1>1 DEF TypeInv, TypeOK, LossInv, KeysUsed, Ownership, OneKeyEach, BatchInv,
              NoSilentLoss, InFlight

LEMMA LossStep ==
    ASSUME FreshClock, TypeInv, LossInv, BStep
    PROVE  LossInv'
<1> USE ProcAssumption DEF TypeInv, TypeOK, InFlight, Resting
<1>1. ASSUME NEW p \in Saver, NEW r \in Record, SaveTooLong(p, r) PROVE LossInv'
  <2>1. /\ fate' = [fate EXCEPT ![r] = "lost"] /\ fate[r] = "new"
        /\ pc' = [pc EXCEPT ![p] = "failed"]
        /\ UNCHANGED << store, clock, batch, key, job >>
    BY <1>1 DEF SaveTooLong
  <2> QED
    BY <2>1 DEF JobInv, LossInv, KeysUsed, Ownership, OneKeyEach, BatchInv, NoSilentLoss
<1>2. ASSUME NEW p \in Proc, AcquireWriteMu(p) PROVE LossInv'
  BY <1>2, LossIdle DEF AcquireWriteMu
<1>3. ASSUME NEW p \in Proc, EnforceSize(p) \/ PruneDone(p) \/ SizePolicyFails(p)
      PROVE  LossInv'
  BY <1>3, LossIdle DEF EnforceSize, PruneDone, SizePolicyFails, Return
<1>4. ASSUME DeleteBegin PROVE LossInv'
  BY <1>4, LossIdle DEF DeleteBegin
<1>5. ASSUME DeleteAbort PROVE LossInv'
  BY <1>5, LossIdle DEF DeleteAbort, Return
<1>6. ASSUME CloseCall \/ CloseDone \/ UNCHANGED bufferVars PROVE LossInv'
  BY <1>6, LossIdle DEF CloseCall, CloseDone, bufferVars
<1> QED
  BY <1>1, <1>2, <1>3, <1>4, <1>5, <1>6, LossSaveBegin, LossSaveCommit, LossSaveAbort,
     LossSetBatch, LossDelete, LossPrune, LossRestart
  DEF BStep, SaverOnly, AnyProc

(* With a clock that never shows an instant twice, a record that Save has  *)
(* stored is in the bucket until it is deleted or pruned, and only then.   *)
THEOREM StoredIsKept == ASSUME FreshClock PROVE BufferSpec => []NoSilentLoss
<1>1. TypeInv /\ LossInv /\ [BufferNext]_bufferVars => (TypeInv /\ LossInv)'
  BY NextIsBStep, TypeStep, LossStep
<1>2. LossInv => NoSilentLoss
  BY DEF LossInv
<1> QED
  BY TypeInit, LossInit, <1>1, <1>2, PTL DEF BufferSpec

\* Only DeleteCommit deletes, and it deletes records of its batch.
LEMMA DeletedWasPeeked ==
    ASSUME TypeInv, LossInv, BStep, NEW r \in Record,
           fate[r] # "deleted", fate'[r] = "deleted"
    PROVE  DeleteCommit /\ \E b \in batch : b.rec = r
<1>1. DeleteCommit
  <2> SUFFICES ASSUME ~DeleteCommit PROVE fate'[r] # "deleted"
    OBVIOUS
  <2> USE DEF TypeInv, TypeOK
  <2>1. ASSUME NEW p \in Saver, SaverOnly(p) PROVE fate'[r] # "deleted"
    <3>1. CASE \E s \in Record : SaveBegin(p, s) \/ SaveTooLong(p, s)
      BY <3>1 DEF SaveBegin, SaveTooLong
    <3>2. CASE SaveCommit(p) \/ SaveAbort(p)
      BY <3>2 DEF SaveCommit, SaveAbort
    <3> QED
      BY <2>1, <3>1, <3>2 DEF SaverOnly
  <2>2. ASSUME NEW p \in Proc, AnyProc(p) PROVE fate'[r] # "deleted"
    <3>1. CASE PruneChunkStep(p)
      BY <3>1 DEF PruneChunkStep
    <3>2. CASE AcquireWriteMu(p) \/ EnforceSize(p) \/ PruneDone(p) \/ SizePolicyFails(p)
      BY <3>2 DEF AcquireWriteMu, EnforceSize, PruneDone, SizePolicyFails
    <3> QED
      BY <2>2, <3>1, <3>2 DEF AnyProc
  <2>3. CASE Restart
    BY <2>3 DEF Restart
  <2>4. CASE \/ SetBatch \/ DeleteBegin \/ DeleteAbort \/ CloseCall \/ CloseDone
             \/ UNCHANGED bufferVars
    BY <2>4 DEF SetBatch, DeleteBegin, DeleteAbort, CloseCall, CloseDone, bufferVars
  <2> QED
    BY <2>1, <2>2, <2>3, <2>4 DEF BStep
<1>2. PICK b \in batch : store[b.key] = r
  BY <1>1 DEF DeleteCommit, BatchKeys, TypeInv, TypeOK
<1> QED
  BY <1>1, <1>2, RecordAssumption DEF LossInv, BatchInv

(* With such a clock DeleteBatch never deletes a record saved after the peek. *)
THEOREM DeletesArePeeked == ASSUME FreshClock PROVE BufferSpec => DeleteOnlyPeeked
<1>1. TypeInv /\ LossInv /\ [BufferNext]_bufferVars => (TypeInv /\ LossInv)'
  BY NextIsBStep, TypeStep, LossStep
<1>2. TypeInv /\ LossInv /\ [BufferNext]_bufferVars
        => [\A r \in Record : fate[r] # "deleted" /\ fate'[r] = "deleted"
              => \E b \in batch : b.rec = r]_bufferVars
  BY NextIsBStep, DeletedWasPeeked
<1> QED
  BY TypeInit, LossInit, <1>1, <1>2, PTL DEF BufferSpec, DeleteOnlyPeeked

------------------------------------------------------------------------------
(* Within the limit.  From its transaction to its return a Save holds      *)
(* writeMu, so that no delete and no other Save comes between; and nothing *)
(* is pruned before the file has passed the limit.                         *)

KeepInv == \A p \in Saver : pc[p] = "enforce" => \E k \in Key : store[k] = job[p]

PruneInv == \A p \in Proc : pc[p] = "prune" => fileSize > MaxDBSize

LEMMA KeepStep ==
    ASSUME TypeInv, LockInv, KeepInv, PruneInv, BStep
    PROVE  KeepInv' /\ PruneInv'
<1> USE ProcAssumption DEF TypeInv, TypeOK, JobInv, KeepInv, PruneInv, Resting
<1>1. ASSUME NEW p \in Saver, NEW r \in Record, SaveBegin(p, r) \/ SaveTooLong(p, r)
      PROVE  KeepInv' /\ PruneInv'
  BY <1>1 DEF SaveBegin, SaveTooLong
<1>2. ASSUME NEW p \in Saver, SaveCommit(p) PROVE KeepInv' /\ PruneInv'
  <2>1. \A q \in Proc : pc'[q] \notin {"enforce", "prune"} \/ q = p
    BY <1>2 DEF SaveCommit, LockInv
  <2>2. store'[key[p]] = job[p] /\ key[p] \in Key /\ pc'[p] = "enforce" /\ job' = job
    BY <1>2 DEF SaveCommit
  <2> QED
    BY <2>1, <2>2
<1>3. ASSUME NEW p \in Saver, SaveAbort(p) PROVE KeepInv' /\ PruneInv'
  BY <1>3 DEF SaveAbort, Return
<1>4. ASSUME NEW p \in Proc, AcquireWriteMu(p) PROVE KeepInv' /\ PruneInv'
  BY <1>4 DEF AcquireWriteMu
<1>5. ASSUME NEW p \in Proc, EnforceSize(p) \/ PruneDone(p) \/ SizePolicyFails(p)
      PROVE  KeepInv' /\ PruneInv'
  <2>1. /\ store' = store /\ fileSize' = fileSize
        /\ job' \in {job, [q \in Saver |-> IF q = p THEN NoRecord ELSE job[q]]}
        /\ \A q \in Proc \ {p} : pc'[q] = pc[q]
        /\ pc'[p] \in Resting \/ (pc'[p] = "prune" /\ fileSize > MaxDBSize)
    BY <1>5, BoundAssumption DEF EnforceSize, PruneDone, SizePolicyFails, Return
  <2>2. KeepInv'
    BY <2>1
  <2>3. PruneInv'
    BY <2>1
  <2> QED
    BY <2>2, <2>3
<1>6. ASSUME NEW p \in Proc, PruneChunkStep(p) PROVE KeepInv' /\ PruneInv'
  <2>1. \A q \in Saver : pc[q] # "enforce"
    BY <1>6 DEF PruneChunkStep, LockInv
  <2> QED
    BY <1>6, <2>1 DEF PruneChunkStep
<1>7. ASSUME DeleteCommit PROVE KeepInv' /\ PruneInv'
  <2>1. \A q \in Saver : pc[q] # "enforce"
    BY <1>7 DEF DeleteCommit, LockInv
  <2> QED
    BY <1>7, <2>1 DEF DeleteCommit
<1>8. ASSUME SetBatch \/ DeleteBegin \/ CloseCall \/ CloseDone \/ UNCHANGED bufferVars
      PROVE  KeepInv' /\ PruneInv'
  BY <1>8 DEF SetBatch, DeleteBegin, CloseCall, CloseDone, bufferVars
<1>9. ASSUME DeleteAbort PROVE KeepInv' /\ PruneInv'
  BY <1>9 DEF DeleteAbort, Return
<1>10. ASSUME Restart PROVE KeepInv' /\ PruneInv'
  BY <1>10 DEF Restart
<1> QED
  BY <1>1, <1>2, <1>3, <1>4, <1>5, <1>6, <1>7, <1>8, <1>9, <1>10
  DEF BStep, SaverOnly, AnyProc

(* As long as the file has not passed its limit, a Save that returns nil    *)
(* has its record in the bucket.                                           *)
THEOREM SavedIsStored == BufferSpec => SaveKeepsWithinLimit
<1> DEFINE KInv == TypeInv /\ LockInv /\ KeepInv /\ PruneInv
<1>1. BufferInit => KInv
  BY TypeInit, LockInit DEF BufferInit, KeepInv, PruneInv
<1>2. KInv /\ [BufferNext]_bufferVars => KInv'
  BY NextIsBStep, TypeStep, LockStep, KeepStep
<1>3. KInv => [\A p \in Saver : pc[p] \in {"enforce", "prune"} /\ pc'[p] = "done"
                              /\ fileSize <= MaxDBSize
                 => \E k \in Key : store[k] = job[p]]_bufferVars
  <2> SUFFICES ASSUME KInv, NEW p \in Saver, pc[p] \in {"enforce", "prune"},
                      fileSize <= MaxDBSize
               PROVE  pc[p] = "enforce"
    BY DEF KeepInv
  <2> QED
    BY BoundAssumption DEF PruneInv, Proc, TypeInv, TypeOK
<1> QED
  BY <1>1, <1>2, <1>3, PTL DEF BufferSpec, SaveKeepsWithinLimit

------------------------------------------------------------------------------
(* The size of the file, without errors.  Between two writes the size policy *)
(* leaves at most the limit live, and one more for every crash or Close that *)
(* cut it short.                                                            *)

\* The cursor of a bucket that is not empty has a first key.
LEMMA LeastKey == ASSUME NEW S \in SUBSET Nat, S # {}
                  PROVE  \E k \in S : \A j \in S : ~(j < k)
<1>1. \E k \in S : \A j \in S : ~(<< j, k >> \in OpToRel(<, Nat))
  BY NatLessThanWellFounded, WFMin
<1> QED
  BY <1>1 DEF OpToRel

\* A chunk is empty only when the bucket is.
LEMMA EmptyChunk == ASSUME PruneChunk # 0, Oldest(PruneChunk) = {} PROVE Live = {}
<1> SUFFICES ASSUME Live # {} PROVE FALSE
  OBVIOUS
<1>1. Live \in SUBSET Nat
  BY KeyAssumption DEF Live
<1>2. PICK k \in Live : \A j \in Live : ~(j < k)
  BY <1>1, LeastKey
<1>3. {j \in Live : j < k} = {}
  BY <1>2
<1>4. Cardinality({j \in Live : j < k}) < PruneChunk
  BY <1>3, FS_EmptySet, BoundAssumption
<1> QED
  BY <1>4 DEF Oldest

LEMMA LiveIsFinite == IsFiniteSet(Live) /\ Cardinality(Live) \in Nat
<1>1. Live \in SUBSET Key
  BY DEF Live
<1> QED
  BY <1>1, KeyAssumption, FS_Subset, FS_CardinalityType

LEMMA FewerLive == ASSUME Live' \subseteq Live PROVE Cardinality(Live') <= Cardinality(Live)
BY LiveIsFinite, FS_Subset

\* A write adds one key at most.
LEMMA AddedLive == ASSUME NEW k
                   PROVE  /\ Cardinality(Live \cup {k}) \in Nat
                          /\ Cardinality(Live \cup {k}) <= Cardinality(Live) + 1
<1> DEFINE L == Live
<1>1. IsFiniteSet(L) /\ Cardinality(L) \in Nat
  BY LiveIsFinite
<1> HIDE DEF L
<1>2. Cardinality(L \cup {k}) = IF k \in L THEN Cardinality(L) ELSE Cardinality(L) + 1
  BY <1>1, FS_AddElement
<1>3. Cardinality(L \cup {k}) \in Nat /\ Cardinality(L \cup {k}) <= Cardinality(L) + 1
  BY <1>1, <1>2
<1> QED
  BY <1>3 DEF L

InPolicy == \E p \in Proc : pc[p] \in {"enforce", "prune"}

SizeInv == /\ FileBounded
           /\ Cardinality(Live) <= fileSize
           /\ handle # "closed" /\ ~InPolicy => Cardinality(Live) <= MaxDBSize + restarts
           /\ \A p \in Proc : pc[p] = "prune" => fileSize > MaxDBSize

LEMMA TargetBelowLimit == MaxDBSize \in Nat /\ TargetSize <= MaxDBSize
<1>1. MaxDBSize \in Nat /\ (MaxDBSize * 9) \div 10 <= MaxDBSize
  BY BoundAssumption
<1> QED
  BY <1>1 DEF TargetSize

LEMMA SizeInit == BufferInit => SizeInv
<1> SUFFICES ASSUME BufferInit PROVE SizeInv
  OBVIOUS
<1>1. Live = {} /\ Cardinality(Live) = 0
  BY FS_EmptySet DEF BufferInit, Live
<1> QED
  BY <1>1, BoundAssumption DEF BufferInit, SizeInv, FileBounded, InPolicy

\* A step that writes nothing and ends no size policy.
LEMMA SizeIdle ==
    ASSUME TypeInv, SizeInv, UNCHANGED << store, fileSize, restarts >>,
           handle' # "closed" => handle # "closed",
           InPolicy => InPolicy',
           \A p \in Proc : pc'[p] = "prune" => pc[p] = "prune"
    PROVE  SizeInv'
BY DEF SizeInv, FileBounded, Live

LEMMA SizeStep ==
    ASSUME ~IoErrors, MaxDBSize # 0, PruneChunk # 0, TypeInv, LockInv, SizeInv, BStep
    PROVE  SizeInv'
<1> USE ProcAssumption, BoundAssumption DEF TypeInv, TypeOK, Resting
<1>1. ASSUME NEW p \in Saver, NEW r \in Record, SaveBegin(p, r) \/ SaveTooLong(p, r)
      PROVE  SizeInv'
  BY <1>1, SizeIdle DEF SaveBegin, SaveTooLong, InPolicy
<1>2. ASSUME NEW p \in Saver, SaveCommit(p) PROVE SizeInv'
  <2>1. ~InPolicy /\ handle # "closed"
    BY <1>2 DEF SaveCommit, LockInv, InPolicy
  <2>2. Live' = Live \cup {key[p]} /\ key[p] \in Key
    BY <1>2, RecordAssumption DEF SaveCommit, JobInv, Live
  <2>3. Cardinality(Live') \in Nat /\ Cardinality(Live') <= Cardinality(Live) + 1
    <3>1. Cardinality(Live \cup {key[p]}) \in Nat
          /\ Cardinality(Live \cup {key[p]}) <= Cardinality(Live) + 1
      BY LiveIsFinite, AddedLive
    <3> QED
      BY <2>2, <3>1
  <2>4. Cardinality(Live') <= MaxDBSize + 1 + restarts
    BY <2>1, <2>3, LiveIsFinite DEF SizeInv
  <2>5. fileSize' \in {fileSize, Cardinality(Live')} /\ Cardinality(Live') <= fileSize'
    BY <1>2, <2>2, <2>3 DEF SaveCommit, Grown
  <2>6. /\ \A q \in Proc : pc'[q] # "prune"
        /\ InPolicy' /\ restarts' = restarts
    BY <1>2, <2>1 DEF SaveCommit, InPolicy
  <2> QED
    BY <2>4, <2>5, <2>6 DEF SizeInv, FileBounded
<1>3. ASSUME NEW p \in Proc, AcquireWriteMu(p) PROVE SizeInv'
  BY <1>3, SizeIdle DEF AcquireWriteMu, InPolicy
<1>4. ASSUME NEW p \in Saver, SaveAbort(p) PROVE SizeInv'
  BY <1>4 DEF SaveAbort, UpdateFails, Return, SizeInv, FileBounded, Live
<1>5. ASSUME DeleteAbort PROVE SizeInv'
  BY <1>5 DEF DeleteAbort, UpdateFails, Return, SizeInv, FileBounded, Live
<1>6. ASSUME NEW p \in Proc, SizePolicyFails(p) PROVE SizeInv'
  BY <1>6 DEF SizePolicyFails, Return, SizeInv, FileBounded, Live
<1>7. ASSUME NEW p \in Proc, EnforceSize(p) PROVE SizeInv'
  <2>1. UNCHANGED << store, fileSize, handle, restarts >> /\ Live' = Live
    BY <1>7 DEF EnforceSize, Live
  <2>2. CASE fileSize <= MaxDBSize
    <3>1. pc' = [pc EXCEPT ![p] = "done"]
      BY <1>7, <2>2 DEF EnforceSize, Return
    <3>2. Cardinality(Live) <= MaxDBSize + restarts
      BY <2>2, LiveIsFinite DEF SizeInv
    <3> QED
      BY <2>1, <3>1, <3>2 DEF SizeInv, FileBounded
  <2>3. CASE ~(fileSize <= MaxDBSize)
    <3>1. pc' = [pc EXCEPT ![p] = "prune"] /\ fileSize > MaxDBSize
      BY <1>7, <2>3 DEF EnforceSize
    <3>2. InPolicy'
      BY <3>1 DEF InPolicy
    <3> QED
      BY <2>1, <3>1, <3>2 DEF SizeInv, FileBounded
  <2> QED
    BY <2>2, <2>3
<1>8. ASSUME NEW p \in Proc, PruneDone(p) PROVE SizeInv'
  <2>1. /\ UNCHANGED << store, fileSize, handle, restarts >> /\ Live' = Live
        /\ pc' = [pc EXCEPT ![p] = "done"]
    BY <1>8 DEF PruneDone, Return, Live
  <2>2. fileSize > MaxDBSize
    BY <1>8 DEF PruneDone, SizeInv
  <2>3. Live = {}
    BY <1>8, <2>2, TargetBelowLimit, EmptyChunk DEF PruneDone, TargetSize
  <2>4. Cardinality(Live) = 0
    BY <2>3, FS_EmptySet
  <2> QED
    BY <2>1, <2>4 DEF SizeInv, FileBounded
<1>9. ASSUME NEW p \in Proc, PruneChunkStep(p) PROVE SizeInv'
  <2>1. /\ UNCHANGED << fileSize, handle, restarts, pc >> /\ InPolicy'
    BY <1>9 DEF PruneChunkStep, InPolicy
  <2>2. Live' \subseteq Live
    BY <1>9 DEF PruneChunkStep, Live
  <2>3. Cardinality(Live') <= fileSize
    <3>1. Cardinality(Live') \in Nat
      BY <2>2, LiveIsFinite, FS_Subset, FS_CardinalityType
    <3> QED
      BY <2>2, <3>1, LiveIsFinite, FewerLive DEF SizeInv
  <2> QED
    BY <2>1, <2>3 DEF SizeInv, FileBounded
<1>10. ASSUME SetBatch \/ DeleteBegin \/ CloseCall \/ CloseDone \/ UNCHANGED bufferVars
       PROVE  SizeInv'
  BY <1>10, SizeIdle DEF SetBatch, DeleteBegin, CloseCall, CloseDone, bufferVars, InPolicy
<1>11. ASSUME DeleteCommit PROVE SizeInv'
  <2>1. /\ UNCHANGED << fileSize, handle, restarts >>
        /\ pc' = [pc EXCEPT ![Dispatcher] = "enforce"]
    BY <1>11 DEF DeleteCommit
  <2>2. InPolicy'
    BY <2>1 DEF InPolicy
  <2>3. Live' \subseteq Live
    BY <1>11 DEF DeleteCommit, Live
  <2>4. Cardinality(Live') <= fileSize
    <3>1. Cardinality(Live') \in Nat
      BY <2>3, LiveIsFinite, FS_Subset, FS_CardinalityType
    <3> QED
      BY <2>3, <3>1, LiveIsFinite, FewerLive DEF SizeInv
  <2> QED
    BY <2>1, <2>2, <2>4 DEF SizeInv, FileBounded
<1>12. ASSUME Restart PROVE SizeInv'
  <2>1. /\ UNCHANGED << store, fileSize >> /\ restarts' = restarts + 1 /\ Live' = Live
        /\ pc' = [p \in Proc |-> "idle"]
    BY <1>12 DEF Restart, Live
  <2>2. Cardinality(Live) <= MaxDBSize + restarts'
    BY <2>1, LiveIsFinite DEF SizeInv, FileBounded
  <2> QED
    BY <2>1, <2>2 DEF SizeInv, FileBounded
<1> QED
  BY <1>1, <1>2, <1>3, <1>4, <1>5, <1>6, <1>7, <1>8, <1>9, <1>10, <1>11, <1>12
  DEF BStep, SaverOnly, AnyProc

(* Where no transaction fails, the file passes a limit by one write, and by *)
(* one more for every crash or Close between a write and its size policy.   *)
THEOREM FileIsBounded ==
    ASSUME ~IoErrors, MaxDBSize # 0, PruneChunk # 0
    PROVE  BufferSpec => []FileBounded
<1> DEFINE SInv == TypeInv /\ LockInv /\ SizeInv
<1>1. BufferInit => SInv
  BY TypeInit, LockInit, SizeInit
<1>2. SInv /\ [BufferNext]_bufferVars => SInv'
  BY NextIsBStep, TypeStep, LockStep, SizeStep
<1>3. SInv => FileBounded
  BY DEF SizeInv
<1> QED
  BY <1>1, <1>2, <1>3, PTL DEF BufferSpec

==============================================================================
