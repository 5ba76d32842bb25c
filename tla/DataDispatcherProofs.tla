------------------------ MODULE DataDispatcherProofs ------------------------
(***************************************************************************)
(* Delivery: with a clock that never shows an instant twice, the buffer    *)
(* and the dispatcher delete only what the backend has ingested, and       *)
(* together implement the abstract Outbox.                                 *)
(***************************************************************************)
EXTENDS DataDispatcher, DataBufferProofs

USE DEF Proc

\* The records of a batch that is being deleted have all been ingested.
SentInv == dpc = "delete" \/ pc[Dispatcher] \in {"lock", "update"} => Sent \subseteq received

DispatchInv == /\ TypeInv /\ LossInv
               /\ dpc \in {"idle", "post", "delete", "stopped"}
               /\ cancelled \in BOOLEAN
               /\ received \subseteq Record
               /\ SentInv
               /\ AtLeastOnce

\* The two steps that set the batch take it from a window.
LEMMA DispatchSetsBatch == Dispatch \/ DispatchMalformed \/ PostFails => SetBatch
<1>1. Dispatch \/ DispatchMalformed => SetBatch
  BY DEF Dispatch, DispatchMalformed, PeekBatch, SetBatch, Picked, FairPick, Scanned
<1>2. PostFails => SetBatch
  BY DEF PostFails, SetBatch
<1> QED
  BY <1>1, <1>2

LEMMA NextIsBufferStep == [Next]_vars => BStep
<1>1. ASSUME BufferStep PROVE BStep
  BY <1>1 DEF BufferStep, BStep, SaverOnly, AnyProc, SaveCall, SaverStep, DispatcherStep
<1>2. Dispatch \/ DispatchMalformed \/ PostFails => BStep
  BY DispatchSetsBatch DEF BStep
<1>3. PostOK \/ DeleteSent \/ DispatcherExit => BStep
  BY DEF PostOK, DeleteSent, DispatcherExit, BStep
<1>4. Cancel \/ Shutdown \/ RestartAgent \/ AgentStopped => BStep
  BY DEF Cancel, Shutdown, RestartAgent, AgentStopped, Stopped, BStep
<1>5. UNCHANGED vars => BStep
  BY DEF vars, BStep
<1> QED
  BY <1>1, <1>2, <1>3, <1>4, <1>5 DEF Next

LEMMA DispatchInit == Init => DispatchInv
BY TypeInit, LossInit, ProcAssumption
DEF Init, BufferInit, DispatchInv, SentInv, AtLeastOnce

\* A record that becomes deleted was in a batch the backend has ingested.
LEMMA DeletedIsReceived ==
    ASSUME DispatchInv, [Next]_vars, NEW r \in Record,
           fate[r] # "deleted", fate'[r] = "deleted"
    PROVE  r \in received
<1>1. DeleteCommit /\ \E b \in batch : b.rec = r
  BY NextIsBufferStep, DeletedWasPeeked DEF DispatchInv
<1>2. Sent \subseteq received
  BY <1>1 DEF DeleteCommit, DispatchInv, SentInv
<1> QED
  BY <1>1, <1>2 DEF Sent

LEMMA SentStep == DispatchInv /\ [Next]_vars => SentInv'
<1> SUFFICES ASSUME DispatchInv, [Next]_vars PROVE SentInv'
  OBVIOUS
<1> USE ProcAssumption DEF DispatchInv, SentInv, Sent, TypeInv, TypeOK, Resting
<1>1. ASSUME NEW p \in Saver, SaveCall(p), UNCHANGED << dpc, cancelled, received >>
      PROVE  SentInv'
  BY <1>1 DEF SaveCall, SaveBegin, SaveTooLong
<1>2. ASSUME NEW p \in Saver, SaverStep(p), UNCHANGED << dpc, cancelled, received >>
      PROVE  SentInv'
  BY <1>2 DEF SaverStep, AcquireWriteMu, SaveCommit, SaveAbort, EnforceSize, PruneDone,
     PruneChunkStep, SizePolicyFails, Return
<1>3. ASSUME DispatcherStep, UNCHANGED << dpc, cancelled, received >> PROVE SentInv'
  BY <1>3 DEF DispatcherStep, AcquireWriteMu, DeleteCommit, DeleteAbort, EnforceSize,
     PruneDone, PruneChunkStep, SizePolicyFails, Return
<1>4. ASSUME CloseDone, UNCHANGED << dpc, cancelled, received >> PROVE SentInv'
  BY <1>4 DEF CloseDone
<1>5. ASSUME Dispatch \/ DispatchMalformed PROVE SentInv'
  BY <1>5 DEF Dispatch, DispatchMalformed, PeekBatch
<1>6. ASSUME PostOK \/ PostFails PROVE SentInv'
  BY <1>6 DEF PostOK, PostFails, bufferVars
<1>7. ASSUME DeleteSent PROVE SentInv'
  BY <1>7 DEF DeleteSent, DeleteBegin
<1>8. ASSUME DispatcherExit \/ Cancel \/ UNCHANGED vars PROVE SentInv'
  BY <1>8 DEF DispatcherExit, Cancel, vars, bufferVars
<1>9. ASSUME Shutdown PROVE SentInv'
  BY <1>9 DEF Shutdown, CloseCall
<1>10. ASSUME RestartAgent PROVE SentInv'
  BY <1>10 DEF RestartAgent, Restart
<1>11. ASSUME AgentStopped PROVE SentInv'
  BY <1>11 DEF AgentStopped, Stopped, bufferVars
<1> QED
  BY <1>1, <1>2, <1>3, <1>4, <1>5, <1>6, <1>7, <1>8, <1>9, <1>10, <1>11
  DEF Next, BufferStep

LEMMA ReceivedStep ==
    DispatchInv /\ [Next]_vars => received \subseteq received' /\ received' \subseteq Record
                                  /\ dpc' \in {"idle", "post", "delete", "stopped"}
                                  /\ cancelled' \in BOOLEAN
<1> SUFFICES ASSUME DispatchInv, [Next]_vars
             PROVE  /\ received \subseteq received' /\ received' \subseteq Record
                    /\ dpc' \in {"idle", "post", "delete", "stopped"}
                    /\ cancelled' \in BOOLEAN
  OBVIOUS
<1>1. Sent \subseteq Record
  BY DEF DispatchInv, TypeInv, TypeOK, Sent
<1> QED
  BY <1>1 DEF DispatchInv, Next, BufferStep, Dispatch, DispatchMalformed, PostOK, PostFails,
     DeleteSent, DispatcherExit, Cancel, Shutdown, RestartAgent, AgentStopped, vars

LEMMA DispatchStep ==
    ASSUME FreshClock, DispatchInv, [Next]_vars
    PROVE  DispatchInv'
<1>1. TypeInv' /\ LossInv'
  BY NextIsBufferStep, TypeStep, LossStep DEF DispatchInv
<1>2. AtLeastOnce'
  BY DeletedIsReceived, ReceivedStep DEF DispatchInv, AtLeastOnce
<1> QED
  BY <1>1, <1>2, SentStep, ReceivedStep DEF DispatchInv

(* Every variable of the composition keeps its type.                        *)
THEOREM DispatcherTypeCorrect == Spec => []DispatcherTypeOK
<1> DEFINE TInv == TypeInv /\ DispatcherTypeOK
<1>1. Init => TInv
  BY TypeInit DEF Init, TypeInv, DispatcherTypeOK
<1>2. TInv /\ [Next]_vars => TInv'
  <2> SUFFICES ASSUME TInv, [Next]_vars PROVE TInv'
    OBVIOUS
  <2>1. TypeInv'
    BY NextIsBufferStep, TypeStep
  <2>2. Sent \subseteq Record
    BY DEF TypeInv, TypeOK, Sent
  <2>3. /\ received' \subseteq Record /\ cancelled' \in BOOLEAN
        /\ dpc' \in {"idle", "post", "delete", "stopped"}
    BY <2>2 DEF DispatcherTypeOK, Next, BufferStep, Dispatch, DispatchMalformed, PostOK,
       PostFails, DeleteSent, DispatcherExit, Cancel, Shutdown, RestartAgent,
       AgentStopped, vars
  <2> QED
    BY <2>1, <2>3 DEF TypeInv, DispatcherTypeOK
<1> QED
  BY <1>1, <1>2, PTL DEF Spec

(* A record is deleted after delivery only if the backend has ingested it. *)
THEOREM DeliveredBeforeDeleted == ASSUME FreshClock PROVE Spec => []AtLeastOnce
<1>1. DispatchInv /\ [Next]_vars => DispatchInv'
  BY DispatchStep
<1>2. DispatchInv => AtLeastOnce
  BY DEF DispatchInv
<1> QED
  BY DispatchInit, <1>1, <1>2, PTL DEF Spec

------------------------------------------------------------------------------
(* What the buffer promises, under the dispatcher that really uses it.       *)

(* The locks are held as the comments say, and Close waits for the calls.   *)
THEOREM ComposedLocksCorrect == Spec => []LockInv /\ CloseDrains
<1>1. Init => TypeInv /\ LockInv
  BY TypeInit, LockInit DEF Init
<1>2. TypeInv /\ LockInv /\ [Next]_vars => (TypeInv /\ LockInv)'
  BY NextIsBufferStep, TypeStep, LockStep
<1>3. LockInv /\ [Next]_vars
        => [handle # "closed" /\ handle' = "closed"
              => \A p \in Proc : pc[p] \notin {"lock", "update"}]_bufferVars
  BY NextIsBufferStep, CloseWaits
<1> QED
  BY <1>1, <1>2, <1>3, PTL DEF Spec, CloseDrains

(* A stored record stays until it is deleted or pruned, and a delete by key *)
(* takes only what was peeked, over posts, answers and restarts.            *)
THEOREM ComposedStoredIsKept == ASSUME FreshClock
                                PROVE  Spec => []NoSilentLoss /\ DeleteOnlyPeeked
<1>1. DispatchInv /\ [Next]_vars => DispatchInv'
  BY DispatchStep
<1>2. DispatchInv => NoSilentLoss
  BY DEF DispatchInv, LossInv
<1>3. DispatchInv /\ [Next]_vars
        => [\A r \in Record : fate[r] # "deleted" /\ fate'[r] = "deleted"
              => \E b \in batch : b.rec = r]_bufferVars
  BY NextIsBufferStep, DeletedWasPeeked DEF DispatchInv
<1> QED
  BY DispatchInit, <1>1, <1>2, <1>3, PTL DEF Spec, DeleteOnlyPeeked

(* The file passes its limit by one write, and one more for every restart.  *)
THEOREM ComposedFileIsBounded ==
    ASSUME ~IoErrors, MaxDBSize # 0, PruneChunk # 0
    PROVE  Spec => []FileBounded
<1> DEFINE SInv == TypeInv /\ LockInv /\ SizeInv
<1>1. Init => SInv
  BY TypeInit, LockInit, SizeInit DEF Init
<1>2. SInv /\ [Next]_vars => SInv'
  BY NextIsBufferStep, TypeStep, LockStep, SizeStep
<1>3. SInv => FileBounded
  BY DEF SizeInv
<1> QED
  BY <1>1, <1>2, <1>3, PTL DEF Spec

\* No invalid payload is in a batch, from the pick to the answer.
ValidInv == Sent \cap Malformed = {} /\ received \cap Malformed = {}

LEMMA ValidStep == ValidInv /\ [Next]_vars => ValidInv'
<1> SUFFICES ASSUME ValidInv, [Next]_vars PROVE ValidInv'
  OBVIOUS
<1> USE DEF ValidInv, Sent
<1>1. CASE Dispatch \/ DispatchMalformed
  BY <1>1 DEF Dispatch, DispatchMalformed, PeekBatch
<1>2. CASE PostOK \/ PostFails
  BY <1>2 DEF PostOK, PostFails, bufferVars
<1>3. CASE ~(Dispatch \/ DispatchMalformed \/ PostOK \/ PostFails)
  <2>1. batch' \subseteq batch /\ received' = received
    BY <1>3 DEF Next, BufferStep, DeleteSent, DispatcherExit, Cancel, Shutdown,
       RestartAgent, AgentStopped, Stopped, vars, bufferVars, SaveCall, SaveBegin,
       SaveTooLong, SaverStep, DispatcherStep, AcquireWriteMu, SaveCommit, SaveAbort,
       DeleteBegin, DeleteCommit, DeleteAbort, EnforceSize, PruneDone, PruneChunkStep,
       SizePolicyFails, CloseCall, CloseDone, Restart
  <2> QED
    BY <2>1
<1> QED
  BY <1>1, <1>2, <1>3

(* An invalid payload is neither posted nor deleted, alone or with others.  *)
THEOREM InvalidIsKept == ASSUME FreshClock PROVE Spec => []MalformedKept
<1>1. Init => ValidInv
  BY DEF Init, BufferInit, ValidInv, Sent
<1>2. DispatchInv /\ [Next]_vars => DispatchInv'
  BY DispatchStep
<1>3. DispatchInv /\ ValidInv => MalformedKept
  BY MalformedAssumption DEF DispatchInv, AtLeastOnce, ValidInv, MalformedKept
<1> QED
  BY DispatchInit, ValidStep, <1>1, <1>2, <1>3, PTL DEF Spec

------------------------------------------------------------------------------
(* The refinement.  NoSilentLoss lets the history stand for the bucket.     *)

Held    == {r \in Record : InBucket(r)}
Settled == {r \in Record : fate[r] = "deleted"}
Evicted == {r \in Record : fate[r] = "pruned"}

LEMMA HeldIsStored == NoSilentLoss => Held = {r \in Record : fate[r] = "stored"}
BY DEF NoSilentLoss, Held, InBucket

\* Steps of the buffer that change what is held, and how.
LEMMA BufferEffect ==
    ASSUME TypeInv, LossInv, LossInv', BStep
    PROVE  \/ UNCHANGED << Held, Settled, Evicted >>
           \/ \E r \in Record : /\ r \notin Held \cup Settled \cup Evicted
                                /\ Held' = Held \cup {r}
                                /\ UNCHANGED << Settled, Evicted >>
           \/ \E R \in SUBSET Held : /\ DeleteCommit
                                     /\ Held' = Held \ R
                                     /\ Settled' = Settled \cup R
                                     /\ \A r \in R : r \in Sent
                                     /\ UNCHANGED Evicted
           \/ \E R \in SUBSET Held : /\ Held' = Held \ R
                                     /\ Evicted' = Evicted \cup R
                                     /\ UNCHANGED Settled
<1> DEFINE Stored == {r \in Record : fate[r] = "stored"}
<1>1. Held = Stored /\ Held' = Stored'
  BY HeldIsStored DEF LossInv, NoSilentLoss, Held, InBucket
<1> HIDE DEF Held
<1> DEFINE Same == UNCHANGED << Stored, Settled, Evicted >>
<1> USE DEF TypeInv, TypeOK
<1>2. ASSUME NEW p \in Saver, NEW r \in Record, SaveBegin(p, r) \/ SaveTooLong(p, r)
      PROVE  Same
  BY <1>2 DEF SaveBegin, SaveTooLong, Settled, Evicted
<1>3. ASSUME NEW p \in Saver, SaveAbort(p) PROVE Same
  <2>1. fate' = [fate EXCEPT ![job[p]] = "lost"] /\ fate[job[p]] = "saving"
    BY <1>3 DEF SaveAbort, LossInv, Ownership, InFlight
  <2> QED
    BY <2>1 DEF Settled, Evicted
<1>4. ASSUME NEW p \in Saver, SaveCommit(p)
      PROVE  /\ job[p] \in Record
             /\ job[p] \notin Stored \cup Settled \cup Evicted
             /\ Stored' = Stored \cup {job[p]}
             /\ UNCHANGED << Settled, Evicted >>
  <2>1. /\ fate' = [fate EXCEPT ![job[p]] = "stored"] /\ fate[job[p]] = "saving"
        /\ job[p] \in Record
    BY <1>4 DEF SaveCommit, LossInv, Ownership, InFlight, JobInv
  <2> QED
    BY <2>1 DEF Settled, Evicted
<1>5. ASSUME NEW p \in Proc, AcquireWriteMu(p) \/ EnforceSize(p) \/ PruneDone(p)
                             \/ SizePolicyFails(p)
      PROVE  Same
  BY <1>5 DEF AcquireWriteMu, EnforceSize, PruneDone, SizePolicyFails, Settled, Evicted
<1>6. ASSUME SetBatch \/ DeleteBegin \/ DeleteAbort \/ CloseCall \/ CloseDone
             \/ UNCHANGED bufferVars
      PROVE  Same
  BY <1>6 DEF SetBatch, DeleteBegin, DeleteAbort, CloseCall, CloseDone, bufferVars,
     Settled, Evicted
<1>7. ASSUME Restart PROVE Same
  BY <1>7 DEF Restart, Settled, Evicted
<1>8. ASSUME DeleteCommit
      PROVE  \E R \in SUBSET Stored : /\ Stored' = Stored \ R
                                      /\ Settled' = Settled \cup R
                                      /\ \A r \in R : r \in Sent
                                      /\ UNCHANGED Evicted
  <2> DEFINE R == {r \in Record : \E k \in BatchKeys : store[k] = r}
  <2>1. fate' = [r \in Record |-> IF r \in R THEN "deleted" ELSE fate[r]]
    BY <1>8 DEF DeleteCommit
  <2>2. R \in SUBSET Stored
    BY DEF BatchKeys, LossInv, NoSilentLoss
  <2>3. \A r \in R : r \in Sent
    BY RecordAssumption DEF BatchKeys, Sent, LossInv, BatchInv
  <2> HIDE DEF R
  <2> QED
    BY <2>1, <2>2, <2>3 DEF Settled, Evicted
<1>9. ASSUME NEW p \in Proc, PruneChunkStep(p)
      PROVE  \E R \in SUBSET Stored : /\ Stored' = Stored \ R
                                      /\ Evicted' = Evicted \cup R
                                      /\ UNCHANGED Settled
  <2> DEFINE R == {r \in Record : \E k \in Oldest(PruneChunk) : store[k] = r}
  <2>1. fate' = [r \in Record |-> IF r \in R THEN "pruned" ELSE fate[r]]
    BY <1>9 DEF PruneChunkStep
  <2>2. R \in SUBSET Stored
    BY DEF Oldest, Live, LossInv, NoSilentLoss
  <2> HIDE DEF R
  <2> QED
    BY <2>1, <2>2 DEF Settled, Evicted
<1> HIDE DEF Stored
<1> QED
  BY <1>1, <1>2, <1>3, <1>4, <1>5, <1>6, <1>7, <1>8, <1>9 DEF BStep, SaverOnly, AnyProc

\* Only an answer, or a lost answer, changes what the backend has received.
LEMMA ReceiveEffect ==
    ASSUME [Next]_vars
    PROVE  \/ UNCHANGED received
           \/ /\ received' = received \cup Sent
              /\ UNCHANGED << store, fate >>
BY DEF Next, BufferStep, Dispatch, DispatchMalformed, PostOK, PostFails, DeleteSent,
   DispatcherExit, Cancel, Shutdown, RestartAgent, AgentStopped, vars, bufferVars

LEMMA OutboxInit == Init => O!Init
BY RecordAssumption DEF Init, BufferInit, O!Init, InBucket

LEMMA OutboxStep ==
    ASSUME FreshClock, DispatchInv, [Next]_vars
    PROVE  [O!Next]_(O!vars)
<1> USE DEF O!vars, O!Next, Held, Settled, Evicted
<1>1. TypeInv /\ LossInv /\ LossInv' /\ BStep
  BY DispatchStep, NextIsBufferStep DEF DispatchInv
<1>2. CASE received' = received \cup Sent /\ UNCHANGED << store, fate >>
  <2>1. Sent \subseteq Held \cup Evicted
    BY <1>1 DEF Sent, TypeInv, TypeOK, LossInv, BatchInv, NoSilentLoss, InBucket
  <2>2. UNCHANGED << Held, Settled, Evicted >>
    BY <1>2 DEF InBucket
  <2>3. Sent \in SUBSET Record
    BY <2>1
  <2> QED
    BY <1>2, <2>1, <2>2, <2>3 DEF O!Receive
<1>3. CASE UNCHANGED received
  <2>1. CASE UNCHANGED << Held, Settled, Evicted >>
    BY <1>3, <2>1
  <2>2. ASSUME NEW r \in Record, r \notin Held \cup Settled \cup Evicted,
               Held' = Held \cup {r}, UNCHANGED << Settled, Evicted >>
        PROVE  O!Accept(r)
    BY <1>3, <2>2 DEF O!Accept
  <2>3. ASSUME NEW R \in SUBSET Held, DeleteCommit, Held' = Held \ R,
               Settled' = Settled \cup R, \A r \in R : r \in Sent, UNCHANGED Evicted
        PROVE  O!Settle(R)
    <3>1. Sent \subseteq received
      BY <2>3 DEF DeleteCommit, DispatchInv, SentInv
    <3> QED
      BY <1>3, <2>3, <3>1 DEF O!Settle
  <2>4. ASSUME NEW R \in SUBSET Held, Held' = Held \ R, Evicted' = Evicted \cup R,
               UNCHANGED Settled
        PROVE  O!Evict(R)
    BY <1>3, <2>4 DEF O!Evict
  <2>5. SUBSET Held \subseteq SUBSET Record
    OBVIOUS
  <2> HIDE DEF Held, Settled, Evicted
  <2> QED
    BY <1>1, <2>1, <2>2, <2>3, <2>4, <2>5, BufferEffect DEF Held, Settled, Evicted
<1> QED
  BY <1>2, <1>3, ReceiveEffect

(* Buffer and dispatcher implement the outbox: every record leaves the     *)
(* bucket delivered or evicted, and no settled record is sent again.       *)
THEOREM Refinement == ASSUME FreshClock PROVE Spec => ImplementsOutbox
<1>1. DispatchInv /\ [Next]_vars => DispatchInv' /\ [O!Next]_(O!vars)
  BY DispatchStep, OutboxStep
<1> QED
  BY DispatchInit, OutboxInit, <1>1, PTL DEF Spec, O!Spec, ImplementsOutbox

==============================================================================
