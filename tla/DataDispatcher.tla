--------------------------- MODULE DataDispatcher ---------------------------
(***************************************************************************)
(* internal/service/data_dispatcher.go on top of the buffer: every tick    *)
(* picks a batch, posts it, and deletes it by its keys once the backend    *)
(* has answered 200.  Between the peek and the delete other goroutines     *)
(* save and the size policy prunes.                                        *)
(*                                                                         *)
(* The backend is what the dispatcher sees of it: it may ingest a request  *)
(* whose answer is lost, late, not 200 or unreadable.                      *)
(***************************************************************************)
EXTENDS DataBuffer, FairShare

CONSTANTS
    Malformed,              \* records whose payload is not valid JSON
    BatchLimit,             \* batchLimit
    ScanFactor, ScanFloor, ScanCap   \* 20, 200 and 2000 in peekFairBatch

ASSUME MalformedAssumption == Malformed \subseteq Record
ASSUME DispatcherAssumption ==
    {BatchLimit, ScanFactor, ScanFloor, ScanCap} \subseteq Nat

VARIABLES
    dpc,        \* "idle", "post", "delete" or "stopped" (Run has returned)
    cancelled,  \* the run context is done
    received    \* records the backend has ingested

vars == << bufferVars, dpc, cancelled, received >>

Scanned == Window(ScanSize(BatchLimit, ScanFactor, ScanFloor, ScanCap))

\* peekFairBatch(batchLimit); a limit of 0 gives an empty batch.
Picked == FairPick(Scanned, BatchLimit)

\* Variant: the body of the request is the keys.
MutSent == BatchKeys

Sent == {b.rec : b \in batch}

DispatcherTypeOK ==
    /\ TypeOK
    /\ dpc \in {"idle", "post", "delete", "stopped"}
    /\ cancelled \in BOOLEAN
    /\ received \subseteq Record

Init == BufferInit /\ dpc = "idle" /\ cancelled = FALSE /\ received = {}

------------------------------------------------------------------------------
(* dispatchOnce.  When the ticker and the context are both ready, select   *)
(* may take either, so a tick is possible after the cancellation.          *)

\* Variant: a payload is not checked.
MutDispatch ==
    /\ dpc = "idle"
    /\ PeekBatch(Picked)
    /\ Picked # {}
    /\ dpc' = "post"
    /\ UNCHANGED << cancelled, received >>

\* A batch without an invalid payload goes to PostJSON.
Dispatch ==
    /\ dpc = "idle"
    /\ PeekBatch(Picked)
    /\ Picked # {}
    /\ {b.rec : b \in Picked} \cap Malformed = {}
    /\ dpc' = "post"
    /\ UNCHANGED << cancelled, received >>

\* One invalid payload keeps the whole batch in the buffer.
DispatchMalformed ==
    /\ dpc = "idle"
    /\ {b.rec : b \in Picked} \cap Malformed # {}
    /\ PeekBatch({})
    /\ UNCHANGED << dpc, cancelled, received >>

\* The backend ingests the batch and its answer of 200 is read.
PostOK ==
    /\ dpc = "post"
    /\ received' = received \cup Sent
    /\ dpc' = "delete"
    /\ UNCHANGED << bufferVars, cancelled >>

\* Variant: the batch is deleted whatever the answer.
MutPostFailsDeletes ==
    /\ dpc = "post"
    /\ received' \in {received, received \cup Sent}
    /\ dpc' = "delete"
    /\ UNCHANGED << bufferVars, cancelled >>

\* Variant: Run returns on the first error of a request.
MutPostFailsReturns ==
    /\ dpc = "post"
    /\ received' \in {received, received \cup Sent}
    /\ dpc' = "stopped"
    /\ batch' = {}
    /\ UNCHANGED << store, fileSize, clock, handle, readers, leaked, writeMu, pc,
                    key, job, fate, restarts, cancelled >>

\* The batch is kept: no answer within the request's TTL, a transport error, a
\* cancelled context, an unreadable body or a status other than 200; the
\* backend may have ingested the batch.
PostFails ==
    /\ dpc = "post"
    /\ received' \in {received, received \cup Sent}
    /\ dpc' = "idle"
    /\ batch' = {}
    /\ UNCHANGED << store, fileSize, clock, handle, readers, leaked, writeMu, pc,
                    key, job, fate, restarts, cancelled >>

\* DeleteBatch is entered; the end of the call is the end of dispatchOnce.
DeleteSent == /\ dpc = "delete"
              /\ DeleteBegin
              /\ dpc' = "idle"
              /\ UNCHANGED << cancelled, received >>

\* Variant: the context is looked at only after a dispatch.
MutDispatcherExit == /\ dpc = "idle"
                     /\ pc[Dispatcher] = "done"
                     /\ cancelled
                     /\ dpc' = "stopped"
                     /\ UNCHANGED << bufferVars, cancelled, received >>

DispatcherExit == /\ dpc = "idle"
                  /\ pc[Dispatcher] \in Resting
                  /\ cancelled
                  /\ dpc' = "stopped"
                  /\ UNCHANGED << bufferVars, cancelled, received >>

------------------------------------------------------------------------------
(* The process around them. *)

Cancel == /\ ~cancelled
          /\ cancelled' = TRUE
          /\ UNCHANGED << bufferVars, dpc, received >>

\* main closes the buffer after a clean Stop, when Run has returned; scans of the
\* collector may still save.  A Stop that times out ends the process instead.
Shutdown == /\ cancelled
            /\ dpc = "stopped"
            /\ CloseCall
            /\ UNCHANGED << dpc, cancelled, received >>

RestartAgent == /\ Restart
                /\ dpc' = "idle"
                /\ cancelled' = FALSE
                /\ UNCHANGED received

\* Steps of the buffer that are none of the dispatcher's own.
BufferStep == /\ \/ \E p \in Saver : SaveCall(p) \/ SaverStep(p)
                 \/ DispatcherStep
                 \/ CloseDone
              /\ UNCHANGED << dpc, cancelled, received >>

\* The agent has stopped.
AgentStopped == /\ dpc = "stopped"
                /\ Stopped
                /\ UNCHANGED << dpc, cancelled, received >>

Next == \/ BufferStep
        \/ Dispatch \/ DispatchMalformed \/ PostOK \/ PostFails \/ DeleteSent
        \/ DispatcherExit
        \/ Cancel \/ Shutdown \/ RestartAgent \/ AgentStopped

Spec == Init /\ [][Next]_vars

\* A runnable goroutine runs, and a Go mutex hands over to a waiter that has
\* waited for a millisecond, so nobody waits for writeMu for ever; the ticker
\* ticks, a posted request ends, and a backend that is asked again and again
\* answers 200 some time.
DispatcherFairness ==
    /\ \A p \in Saver : WF_vars(BufferStep /\ SaverStep(p))
                        /\ SF_vars(BufferStep /\ AcquireWriteMu(p))
    /\ WF_vars(BufferStep /\ DispatcherStep)
    /\ SF_vars(BufferStep /\ AcquireWriteMu(Dispatcher))
    /\ WF_vars(BufferStep /\ CloseDone)
    /\ WF_vars(Dispatch) /\ WF_vars(DeleteSent) /\ WF_vars(DispatcherExit)
    /\ WF_vars(PostOK \/ PostFails) /\ SF_vars(PostOK)

FairSpec == Spec /\ DispatcherFairness

------------------------------------------------------------------------------
(* Properties *)

(* A record is deleted after delivery only if the backend has ingested it  *)
(* (README.md:8: deleted from BoltDB after 200 OK), whatever was saved,    *)
(* pruned or restarted between the peek and the delete by key.             *)
AtLeastOnce == \A r \in Record : fate[r] = "deleted" => r \in received

InBucket(r) == \E k \in Key : store[k] = r

O == INSTANCE Outbox WITH
         held    <- {r \in Record : InBucket(r)},
         settled <- {r \in Record : fate[r] = "deleted"},
         evicted <- {r \in Record : fate[r] = "pruned"}

(* Buffer and dispatcher together implement the abstract outbox: a record  *)
(* leaves the bucket only delivered or evicted, and no settled record is   *)
(* sent again (data_buffer.go:29, data_dispatcher.go:110-174).             *)
ImplementsOutbox == O!Spec

(* Once stored, a valid record is delivered, unless the size policy prunes  *)
(* it in a file that has passed its limit, the agent is told to stop, or a *)
(* record whose payload is not valid JSON is in the bucket: that one fails *)
(* every batch it is picked for, and is picked again                       *)
(* (data_dispatcher.go:85-99, 121-125, 153-173).  No failing request and   *)
(* no contention for the locks holds a record back for ever.               *)
EventuallyDelivered ==
    \A r \in Record \ Malformed :
        fate[r] = "stored" ~> \/ fate[r] = "deleted"
                              \/ fate[r] = "pruned" /\ fileSize > MaxDBSize
                              \/ cancelled
                              \/ \E m \in Malformed : InBucket(m)

(* "Payload is not valid JSON; keeping record" (data_dispatcher.go:122-125): *)
(* such a record is neither posted nor deleted, alone or in a batch with   *)
(* valid ones, and goes only when the size policy prunes it.               *)
MalformedKept == \A r \in Malformed : r \notin received /\ fate[r] # "deleted"

(* A cancelled dispatcher stops: Run returns, and with it the loop that     *)
(* Stop waits for, whatever its dispatchOnce was doing                     *)
(* (data_dispatcher.go:89-94).                                             *)
DispatcherStops == cancelled ~> (dpc = "stopped" \/ ~cancelled)
==============================================================================
