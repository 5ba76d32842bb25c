----------------------------- MODULE DataBuffer -----------------------------
(***************************************************************************)
(* internal/buffer/data_buffer.go: the store-and-forward cache between the *)
(* collectors and the dispatcher.  Goroutines call Save, PeekBatch,        *)
(* DeleteBatch and Close concurrently; a call is split at every point      *)
(* where another goroutine can be seen: the read lock and the key, the     *)
(* writers' mutex, the database transaction, and each transaction of the   *)
(* size policy, which runs after the read lock is given back.              *)
(*                                                                         *)
(* A bbolt transaction is one step; it survives a crash of the process.    *)
(* The database file never shrinks, so its size is the largest number of   *)
(* records that were ever live at once.                                    *)
(***************************************************************************)
EXTENDS Naturals, FiniteSets

CONSTANTS
    Saver,         \* goroutines that call Save
    Dispatcher,    \* the goroutine that calls PeekBatch and DeleteBatch
    Record,        \* the records that are saved, each at most once
    TypeOf,        \* the data type of a record
    Oversize,      \* records whose data type is too long for its length prefix
    Key,           \* instants of the wall clock (UnixNano)
    FreshClock,    \* TRUE: two calls of Save never read the same instant
    MaxDBSize,     \* maxDBSizeBytes, counted in records; 0 is unlimited
    PruneChunk,    \* pruneChunkSize
    IoErrors,      \* TRUE: a transaction or a Stat may fail
    MaxRestarts,   \* bound: crashes and restarts of the process
    NoRecord, NoProc

Proc == Saver \cup {Dispatcher}

ASSUME ProcAssumption == Dispatcher \notin Saver /\ NoProc \notin Proc
ASSUME RecordAssumption == NoRecord \notin Record /\ Oversize \subseteq Record
ASSUME KeyAssumption == Key \subseteq Nat /\ 0 \in Key /\ IsFiniteSet(Key)
ASSUME SwitchAssumption == FreshClock \in BOOLEAN /\ IoErrors \in BOOLEAN
ASSUME BoundAssumption == {MaxDBSize, PruneChunk, MaxRestarts} \subseteq Nat

VARIABLES
    store,      \* the bucket: key -> record, or NoRecord
    fileSize,   \* size of the database file, in records
    clock,      \* time.Now().UnixNano()
    handle,     \* "open", "closing" (Close waits for dbMu) or "closed"
    readers,    \* goroutines that hold dbMu for reading
    leaked,     \* a returned call has left dbMu locked for reading
    writeMu,    \* holder of writeMu
    pc,         \* where the call of a goroutine is; "done"/"failed": it returned
    key,        \* the key a running Save has taken
    job,        \* the record a running Save writes
    batch,      \* the records the dispatcher has peeked and not yet deleted
    fate,       \* history: what has become of a record
    restarts

bufferVars == << store, fileSize, clock, handle, readers, leaked, writeMu, pc,
                 key, job, batch, fate, restarts >>

Resting == {"idle", "done", "failed"}

Live == {k \in Key : store[k] # NoRecord}

\* The n first keys of the cursor.
Oldest(n) == {k \in Live : Cardinality({j \in Live : j < k}) < n}

Entry(k) == [key |-> k, dataType |-> TypeOf[store[k]], rec |-> store[k]]

\* What PeekBatch(n) returns; the order of the keys is the order of the slice.
Window(n) == {Entry(k) : k \in Oldest(n)}

BatchKeys == {b.key : b \in batch}

Grown(size) == IF size > fileSize THEN size ELSE fileSize

\* int64(float64(maxDBSizeBytes) * pruneTargetRatio)
TargetSize == LET t == (MaxDBSize * 9) \div 10 IN IF t = 0 THEN MaxDBSize ELSE t

------------------------------------------------------------------------------
TypeOK ==
    /\ store \in [Key -> Record \cup {NoRecord}]
    /\ fileSize \in Nat
    /\ clock \in Key
    /\ handle \in {"open", "closing", "closed"}
    /\ readers \subseteq Proc
    /\ leaked \in BOOLEAN
    /\ writeMu \in Proc \cup {NoProc}
    /\ pc \in [Proc -> Resting \cup {"lock", "update", "enforce", "prune"}]
    /\ key \in [Saver -> Key]
    /\ job \in [Saver -> Record \cup {NoRecord}]
    /\ batch \subseteq [key : Key, dataType : {TypeOf[r] : r \in Record}, rec : Record]
    /\ fate \in [Record -> {"new", "saving", "stored", "deleted", "pruned", "lost"}]
    /\ restarts \in Nat

BufferInit ==
    /\ store = [k \in Key |-> NoRecord]
    /\ fileSize = 0
    /\ clock = 0
    /\ handle = "open"
    /\ readers = {}
    /\ leaked = FALSE
    /\ writeMu = NoProc
    /\ pc = [p \in Proc |-> "idle"]
    /\ key = [p \in Saver |-> 0]
    /\ job = [p \in Saver |-> NoRecord]
    /\ batch = {}
    /\ fate = [r \in Record |-> "new"]
    /\ restarts = 0

------------------------------------------------------------------------------
(* Locks and clock. *)

\* A waiting writer, Close, blocks new readers of a Go RWMutex.
CanRLock == handle # "closing"

\* An instant of the wall clock; only the order of instants counts, so a clock
\* that moves on moves to the next one.  A coarse or stepped clock reads anything.
ReadClock == /\ clock' \in Key
             /\ FreshClock => clock' = clock + 1

\* Variant: a call that returns keeps writeMu.
MutReturn(p, result) == /\ pc' = [pc EXCEPT ![p] = result]
                        /\ job' = [q \in Saver |-> IF q = p THEN NoRecord ELSE job[q]]
                        /\ UNCHANGED writeMu

\* The end of a call that holds writeMu: the deferred Unlock.
Return(p, result) == /\ pc' = [pc EXCEPT ![p] = result]
                     /\ job' = [q \in Saver |-> IF q = p THEN NoRecord ELSE job[q]]
                     /\ writeMu' = NoProc

------------------------------------------------------------------------------
(* Save *)

\* RLock, then the key, then the wait for writeMu.
SaveBegin(p, r) ==
    /\ pc[p] \in Resting
    /\ CanRLock
    /\ fate[r] = "new"
    /\ r \notin Oversize
    /\ ReadClock
    /\ readers' = readers \cup {p}
    /\ key' = [key EXCEPT ![p] = clock]
    /\ job' = [job EXCEPT ![p] = r]
    /\ fate' = [fate EXCEPT ![r] = "saving"]
    /\ pc' = [pc EXCEPT ![p] = "lock"]
    /\ UNCHANGED << store, fileSize, handle, leaked, writeMu, batch, restarts >>

\* "dataType too long" returns between RLock and RUnlock.
SaveTooLong(p, r) ==
    /\ pc[p] \in Resting
    /\ CanRLock
    /\ fate[r] = "new"
    /\ r \in Oversize
    /\ leaked' = TRUE
    /\ fate' = [fate EXCEPT ![r] = "lost"]
    /\ pc' = [pc EXCEPT ![p] = "failed"]
    /\ UNCHANGED << store, fileSize, clock, handle, readers, writeMu, key, job,
                    batch, restarts >>

\* Variant: writeMu is not waited for.
MutAcquireWriteMu(p) ==
    /\ pc[p] = "lock"
    /\ writeMu' = p
    /\ pc' = [pc EXCEPT ![p] = "update"]
    /\ UNCHANGED << store, fileSize, clock, handle, readers, leaked, key, job,
                    batch, fate, restarts >>

\* Save and DeleteBatch take writeMu while they hold dbMu for reading.
AcquireWriteMu(p) ==
    /\ pc[p] = "lock"
    /\ writeMu = NoProc
    /\ writeMu' = p
    /\ pc' = [pc EXCEPT ![p] = "update"]
    /\ UNCHANGED << store, fileSize, clock, handle, readers, leaked, key, job,
                    batch, fate, restarts >>

\* Variant: the read lock is not given back after the transaction.
MutSaveCommit(p) ==
    /\ pc[p] = "update"
    /\ handle # "closed"
    /\ store' = [store EXCEPT ![key[p]] = job[p]]
    /\ fileSize' = Grown(Cardinality(Live \cup {key[p]}))
    /\ fate' = [fate EXCEPT ![job[p]] = "stored"]
    /\ key' = [key EXCEPT ![p] = 0]
    /\ pc' = [pc EXCEPT ![p] = "enforce"]
    /\ UNCHANGED << clock, handle, readers, leaked, writeMu, job, batch, restarts >>

\* The transaction puts the value; RUnlock; on to enforceSizePolicyLocked.
SaveCommit(p) ==
    /\ pc[p] = "update"
    /\ handle # "closed"
    /\ store' = [store EXCEPT ![key[p]] = job[p]]
    /\ fileSize' = Grown(Cardinality(Live \cup {key[p]}))
    /\ fate' = [fate EXCEPT ![job[p]] = "stored"]
    /\ key' = [key EXCEPT ![p] = 0]
    /\ readers' = readers \ {p}
    /\ pc' = [pc EXCEPT ![p] = "enforce"]
    /\ UNCHANGED << clock, handle, leaked, writeMu, job, batch, restarts >>

UpdateFails == IoErrors \/ handle = "closed"

\* The transaction fails: the caller gets the error and drops the record.
SaveAbort(p) ==
    /\ pc[p] = "update"
    /\ UpdateFails
    /\ fate' = [fate EXCEPT ![job[p]] = "lost"]
    /\ key' = [key EXCEPT ![p] = 0]
    /\ readers' = readers \ {p}
    /\ Return(p, "failed")
    /\ UNCHANGED << store, fileSize, clock, handle, leaked, batch, restarts >>

------------------------------------------------------------------------------
(* PeekBatch and DeleteBatch *)

\* The caller keeps B, some of the records of the window.
PeekBatch(B) ==
    /\ pc[Dispatcher] \in Resting
    /\ CanRLock
    /\ handle # "closed"
    /\ batch' = B
    /\ UNCHANGED << store, fileSize, clock, handle, readers, leaked, writeMu, pc,
                    key, job, fate, restarts >>

\* DeleteBatch of the keys of the batch; without keys it returns at once.
DeleteBegin ==
    /\ pc[Dispatcher] \in Resting
    /\ CanRLock
    /\ batch # {}
    /\ readers' = readers \cup {Dispatcher}
    /\ pc' = [pc EXCEPT ![Dispatcher] = "lock"]
    /\ UNCHANGED << store, fileSize, clock, handle, leaked, writeMu, key, job,
                    batch, fate, restarts >>

\* Variant: as many of the oldest records as the batch has, not those of its keys.
MutDeleteCommit ==
    LET oldest == Oldest(Cardinality(batch))
    IN  /\ pc[Dispatcher] = "update"
        /\ handle # "closed"
        /\ store' = [k \in Key |-> IF k \in oldest THEN NoRecord ELSE store[k]]
        /\ fate' = [r \in Record |-> IF \E k \in oldest : store[k] = r
                                     THEN "deleted" ELSE fate[r]]
        /\ batch' = {}
        /\ readers' = readers \ {Dispatcher}
        /\ pc' = [pc EXCEPT ![Dispatcher] = "enforce"]
        /\ UNCHANGED << fileSize, clock, handle, leaked, writeMu, key, job, restarts >>

DeleteCommit ==
    /\ pc[Dispatcher] = "update"
    /\ handle # "closed"
    /\ store' = [k \in Key |-> IF k \in BatchKeys THEN NoRecord ELSE store[k]]
    /\ fate' = [r \in Record |-> IF \E k \in BatchKeys : store[k] = r
                                 THEN "deleted" ELSE fate[r]]
    /\ batch' = {}
    /\ readers' = readers \ {Dispatcher}
    /\ pc' = [pc EXCEPT ![Dispatcher] = "enforce"]
    /\ UNCHANGED << fileSize, clock, handle, leaked, writeMu, key, job, restarts >>

DeleteAbort ==
    /\ pc[Dispatcher] = "update"
    /\ UpdateFails
    /\ batch' = {}
    /\ readers' = readers \ {Dispatcher}
    /\ Return(Dispatcher, "failed")
    /\ UNCHANGED << store, fileSize, clock, handle, leaked, key, fate, restarts >>

------------------------------------------------------------------------------
(* enforceSizePolicyLocked: under writeMu, no longer under dbMu. *)

\* Variant: the limit is missed by one.
MutEnforceSize(p) ==
    /\ pc[p] = "enforce"
    /\ IF MaxDBSize = 0 \/ fileSize <= MaxDBSize + 1
       THEN Return(p, "done")
       ELSE /\ pc' = [pc EXCEPT ![p] = "prune"]
            /\ UNCHANGED << writeMu, job >>
    /\ UNCHANGED << store, fileSize, clock, handle, readers, leaked, key, batch,
                    fate, restarts >>

EnforceSize(p) ==
    /\ pc[p] = "enforce"
    /\ IF MaxDBSize = 0 \/ fileSize <= MaxDBSize
       THEN Return(p, "done")
       ELSE /\ pc' = [pc EXCEPT ![p] = "prune"]
            /\ UNCHANGED << writeMu, job >>
    /\ UNCHANGED << store, fileSize, clock, handle, readers, leaked, key, batch,
                    fate, restarts >>

\* pruneOldestToTargetLocked has reached its target, or deleted nothing.
PruneDone(p) ==
    /\ pc[p] = "prune"
    /\ fileSize <= TargetSize \/ (Oldest(PruneChunk) = {} /\ handle # "closed")
    /\ Return(p, "done")
    /\ UNCHANGED << store, fileSize, clock, handle, readers, leaked, key, batch,
                    fate, restarts >>

\* One round of the loop: deleteOldestChunk in a transaction of its own.
PruneChunkStep(p) ==
    /\ pc[p] = "prune"
    /\ fileSize > TargetSize
    /\ handle # "closed"
    /\ Oldest(PruneChunk) # {}
    /\ store' = [k \in Key |-> IF k \in Oldest(PruneChunk) THEN NoRecord ELSE store[k]]
    /\ fate' = [r \in Record |-> IF \E k \in Oldest(PruneChunk) : store[k] = r
                                 THEN "pruned" ELSE fate[r]]
    /\ UNCHANGED << fileSize, clock, handle, readers, leaked, writeMu, pc, key, job,
                    batch, restarts >>

\* Stat or the transaction of deleteOldestChunk fails after the commit: the
\* call returns an error although its record is stored.
SizePolicyFails(p) ==
    /\ \/ IoErrors /\ pc[p] \in {"enforce", "prune"}
       \/ handle = "closed" /\ pc[p] = "prune" /\ fileSize > TargetSize
    /\ Return(p, "failed")
    /\ UNCHANGED << store, fileSize, clock, handle, readers, leaked, key, batch,
                    fate, restarts >>

------------------------------------------------------------------------------
(* Close, and the process around the buffer. *)

CloseCall ==
    /\ handle = "open"
    /\ handle' = "closing"
    /\ UNCHANGED << store, fileSize, clock, readers, leaked, writeMu, pc, key, job,
                    batch, fate, restarts >>

\* Variant: Close does not take dbMu.
MutCloseDone ==
    /\ handle = "closing"
    /\ handle' = "closed"
    /\ UNCHANGED << store, fileSize, clock, readers, leaked, writeMu, pc, key, job,
                    batch, fate, restarts >>

\* dbMu.Lock is granted when no reader is left; db.Close follows under it.
CloseDone ==
    /\ handle = "closing"
    /\ readers = {}
    /\ ~leaked
    /\ handle' = "closed"
    /\ UNCHANGED << store, fileSize, clock, readers, leaked, writeMu, pc, key, job,
                    batch, fate, restarts >>

\* Variant: the file is truncated when it is opened; the clock starts at 0 again.
MutRestart ==
    /\ restarts < MaxRestarts
    /\ restarts' = restarts + 1
    /\ handle' = "open"
    /\ readers' = {}
    /\ leaked' = FALSE
    /\ writeMu' = NoProc
    /\ pc' = [p \in Proc |-> "idle"]
    /\ key' = [p \in Saver |-> 0]
    /\ job' = [p \in Saver |-> NoRecord]
    /\ batch' = {}
    /\ store' = [k \in Key |-> NoRecord]
    /\ fileSize' = 0
    /\ clock' = 0
    /\ UNCHANGED fate

\* The process ends, by a crash at any point or after Close, and starts again:
\* what was only in memory is gone, the file and the wall clock are not.
Restart ==
    /\ restarts < MaxRestarts
    /\ restarts' = restarts + 1
    /\ handle' = "open"
    /\ readers' = {}
    /\ leaked' = FALSE
    /\ writeMu' = NoProc
    /\ pc' = [p \in Proc |-> "idle"]
    /\ key' = [p \in Saver |-> 0]
    /\ job' = [p \in Saver |-> NoRecord]
    /\ batch' = {}
    /\ fate' = [r \in Record |-> IF fate[r] = "saving" THEN "lost" ELSE fate[r]]
    /\ UNCHANGED << store, fileSize, clock >>

------------------------------------------------------------------------------
SaverStep(p) == \/ AcquireWriteMu(p) \/ SaveCommit(p) \/ SaveAbort(p)
                \/ EnforceSize(p) \/ PruneDone(p) \/ PruneChunkStep(p)
                \/ SizePolicyFails(p)

DispatcherStep == \/ AcquireWriteMu(Dispatcher) \/ DeleteCommit \/ DeleteAbort
                  \/ EnforceSize(Dispatcher) \/ PruneDone(Dispatcher)
                  \/ PruneChunkStep(Dispatcher) \/ SizePolicyFails(Dispatcher)

SaveCall(p) == \E r \in Record : SaveBegin(p, r) \/ SaveTooLong(p, r)

\* The process has closed the buffer and every call has returned.
Stopped == /\ handle = "closed"
           /\ \A p \in Proc : pc[p] \in Resting
           /\ UNCHANGED bufferVars

BufferNext ==
    \/ \E p \in Saver : SaveCall(p) \/ SaverStep(p)
    \/ \E B \in SUBSET Window(Cardinality(Key)) : PeekBatch(B)
    \/ DeleteBegin \/ DispatcherStep
    \/ CloseCall \/ CloseDone \/ Restart \/ Stopped

BufferSpec == BufferInit /\ [][BufferNext]_bufferVars

------------------------------------------------------------------------------
(* Properties *)

(* Only the holder of writeMu is in a transaction or in the size policy    *)
(* (data_buffer.go:35-37), and exactly the calls between RLock and RUnlock *)
(* are counted as readers.                                                 *)
LockInv ==
    /\ \A p \in Proc : writeMu = p <=> pc[p] \in {"update", "enforce", "prune"}
    /\ \A p \in Proc : p \in readers <=> pc[p] \in {"lock", "update"}

(* "Buffers outbound data to prevent data loss" (data_buffer.go:29): what  *)
(* Save has stored stays in the bucket until it is deleted or pruned, over *)
(* concurrent saves, deletes by key after a peek, Close and crashes.       *)
NoSilentLoss ==
    \A r \in Record : fate[r] = "stored" <=> \E k \in Key : store[k] = r

(* "DeleteBatch deletes all records by their keys (as returned by          *)
(* PeekBatch)" (data_buffer.go:158): a record that was saved after the peek *)
(* is never deleted in the place of a peeked one.                          *)
DeleteOnlyPeeked ==
    [][\A r \in Record : fate[r] # "deleted" /\ fate'[r] = "deleted"
          => \E b \in batch : b.rec = r]_bufferVars

(* A Save that returns nil has its record in the bucket (data_buffer.go:29, *)
(* 71-111): the size policy that ends the call does not undo it.           *)
SaveKeepsRecord ==
    [][\A p \in Saver : pc[p] \in {"enforce", "prune"} /\ pc'[p] = "done"
          => \E k \in Key : store[k] = job[p]]_bufferVars

(* Until the file has passed its limit of 1 GB that is so                   *)
(* (data_buffer.go:29, 97-111): writeMu is held from the wait for it to    *)
(* the return, so that no delete and no other Save comes in between.       *)
SaveKeepsWithinLimit ==
    [][\A p \in Saver : pc[p] \in {"enforce", "prune"} /\ pc'[p] = "done"
                       /\ fileSize <= MaxDBSize
          => \E k \in Key : store[k] = job[p]]_bufferVars

(* Close never takes the database away from a call that has entered it     *)
(* (data_buffer.go:62-69): such a call has left dbMu before.               *)
CloseDrains ==
    [][handle # "closed" /\ handle' = "closed"
          => \A p \in Proc : pc[p] \notin {"lock", "update"}]_bufferVars

(* The limit is a limit (data_buffer.go:196-205): without errors the file  *)
(* passes maxDBSizeBytes by one write, and by one more for every crash or  *)
(* Close that comes between a write and its size policy.                   *)
FileBounded == fileSize <= MaxDBSize + 1 + restarts

(* Every call that waits for writeMu returns, however the writers race.    *)
CallsReturn == \A p \in Proc : pc[p] = "lock" ~> pc[p] \in Resting

(* Close gets the write lock although savers keep calling.                 *)
CloseCompletes == handle = "closing" ~> handle # "closing"

==============================================================================
