# A TLA+ verification project for go-agent

The agent of this repository collects data about a machine, stores it in a local
bbolt file and sends it to a backend. This directory holds TLA+ models of its core,
TLC configurations that check them, and TLAPS proofs about them.

Run a check with `tlc -config X.cfg M`, a proof with `tlapm M.tla`.

## 1. Inventory

| component | source | state | operations | status |
|---|---|---|---|---|
| DataBuffer | `internal/buffer/data_buffer.go` | bbolt bucket keyed by `UnixNano`, `dbMu`, `writeMu`, size limit | `Save`, `PeekBatch`, `DeleteBatch`, `Close`, size policy, value layout | modelled |
| DataDispatcher | `internal/service/data_dispatcher.go` | ticker, batch in flight | `Run`, `dispatchOnce`, `peekFairBatch` | modelled |
| AgentService | `internal/service/agent_service.go`, `runner.go` | `cancel`, `exitCh` under `mu`; goroutines of a run | `Start`, `Stop` | modelled |
| SimCollector | `internal/service/sim_collector.go` | five tickers per run, a running flag per kind and the hash of the last process snapshot, shared by all runs | `Run`, the `trigger…` functions, `runHardwareScan` | modelled |
| process (`main`) | `cmd/agent/main.go` | wiring | start, stop, exit, `cache.Close` | partly, in DataDispatcher |
| hardware, software collectors | `internal/collector/{hardware,software}_collector.go` | a cache and its age | `CollectWithContext`, `Collect` | modelled |
| fingerprint | `internal/collector/fingerprint*.go` | `smbiosUUIDCache`, shared by two collectors | `stableFingerprint`, `platformSMBIOSUUID` | partly: Windows |
| snapshot collectors | `internal/collector/{host,process,process_snapshot,security_snapshot,network_connections}_collector.go` | none | `CollectWithContext` | partly: host in Inventory, the others external to SimCollector |
| SMBIOS, platform inventories | `internal/collector/*_{windows,linux,darwin}.go` | none | queries, parsing | partly: SMBIOS walk, memory devices, connection tables |
| HttpClient | `internal/transport/http_client.go` | TLS settings | `PostJSON` | partly: its answers, errors, timeouts |
| debug server | `scripts/debug_server/`, `test_server.go` | dashboard state, WebSocket clients, their mutexes | ingest, connect, broadcast | partly: all of the server but the page |
| stubs | `third_party/`, `scripts/debug_server/third_party/` | | stand-ins for libraries | partly: WebSocket frames and locks |

How they interact. `main` opens the buffer and hands it to SimCollector and
DataDispatcher; AgentService runs both in goroutines under one context. SimCollector
starts a goroutine per scan, and these call `Save`. The dispatcher calls `PeekBatch`
and `DeleteBatch` around an HTTP request. `Save`, `DeleteBatch` and the size policy
exclude each other through `writeMu`; `Close` excludes the rest through `dbMu`. After a
clean `Stop` `main` closes the buffer; a `Stop` that times out ends in `os.Exit(1)`,
which skips the deferred `Close`. The hardware and the host collector share the cached
UUID. The debug server is a backend for development: it takes the dispatcher's batches
and shows the last one to every browser that is connected.

What is hard in it:

- `Save` takes its key before it waits for `writeMu`, so commits come out of key order;
  the key is a wall-clock instant and nothing makes it unique.
- The dispatcher deletes by key, seconds after it read the records.
- The size policy is a second and third transaction after the commit, no longer under
  `dbMu`, and compares the size of a file that never shrinks.
- A request may be ingested although its answer is lost; the process may end anywhere.
- `Stop` forgets the run before the run has ended.
- Scans are started by ticks, in goroutines, and by the startup, in place; they outlive their
  run, and a second Start brings a second loop over the same flags.
- Inventories are cached for about as long as their scan period, failures included.
- The firmware may answer late: then two collectors compute different fingerprints.
- The debug server writes to every browser under two locks, without a deadline.
- Binary tables come cut short, and their layouts have edges at every length.

What makes each component correct:

- DataBuffer: a stored record stays until it is deleted or pruned; a delete removes what
  was peeked; within the limit, a Save that returns nil has stored; calls and Close end; the
  limit is passed by one write at most.
- DataDispatcher: delete only what was ingested; what is stored is delivered in the end or
  pruned past the limit; no type starves to which the earlier ones leave a place in a batch;
  an invalid payload is kept; `Run` returns.
- AgentService: no run is orphaned; runs do not overlap; a clean Stop is complete.
- SimCollector: no kind is scanned twice at once, but for a startup beside another run, or shut
  out; ticks are answered; the loop stops.
- Collectors: what they return has a bounded age; the fingerprints converge.
- Decoders: what is decoded is a beginning of what was encoded; if nothing is cut, all of it
  but the last string of each structure.
- Debug server: open clients show the current dashboard, closed ones get no write, and
  every ingest is answered.

`PROJECT.json` lists each hazard at its line with the properties that cover it.

## 2. Modules

| module | models | how state and actions correspond |
|---|---|---|
| `FairShare` | what `peekFairBatch` promises | constant operators: the weights, the scan size, and `FairPick`, the pick stated by the round in which a record would be served |
| `FairBatch` | the loop of `peekFairBatch` | a state machine: `window`, `out`, `taken` (the index of each group), `turn`, `used` (the `j` of the inner loop) and `progress` are its local variables; `Peek` makes the window, `TakeRecord` is one pass of the inner loop, `EndTurn` and `EndRound` the ends of the other two, `LeaveLoop` the exit; `Save` and `DispatchBatch` around it feed it every backlog that saves and dispatches can produce |
| `DataBuffer` | the buffer | one action per stretch of a call between two points where another goroutine can be seen: `SaveBegin` (RLock, key), `AcquireWriteMu`, `SaveCommit`/`SaveAbort` (transaction, RUnlock), `EnforceSize`, `PruneChunkStep`, `PruneDone`, `SizePolicyFails`; `Delete…` the same; `CloseCall`/`CloseDone`; `Restart` |
| `Outbox` | abstract specification | accept, receive, settle, evict; no keys, locks or time |
| `DataDispatcher` | dispatcher over buffer | `Dispatch` (peek and post), `PostOK`, `PostFails`, `DeleteSent`, `DispatcherExit`; extends `DataBuffer` and takes its steps; refines `Outbox` |
| `AgentService` | Start, Stop, goroutines | a caller's `cpc` is where its call is; `running` holds the loops, `exited` the closed channels |
| `SimCollector` | the scheduler | `loop` is where `Run` is in each run, `ticks` its ticker channels; `running` are the flags, `scan` the stage of each scan (`check` and `mark` are the two locked sections of `runHardwareScan`), in a goroutine or in place, `owner` the scans that will reset their flag |
| `Inventory` | the hardware, software and host collectors, `stableFingerprint` | `pc` is where each collection is, `cache` and `known` the caches, `run` the snapshot being taken, `shown` what was returned last; `Time` ages everything and makes scans due |
| `DebugServer` | `/ingest`, `/ws`, the readers | `rpc` is where each request is, `cpc` each connection, `stateMu` and `clientsMu` who holds them; the lock of a connection is held by the broadcast (`target`), or by a pong (`cpc` = "pong") |
| `Smbios` | the walk over the SMBIOS table, its UUID, its memory devices | a state machine: `pos` and `scan` are the loop variables of `walkSMBIOSStructures`, `strs` the strings of the structure it is in; `BeginStructure`, `ReadString`, `EndStrings` (which calls the callback, `FindUUID` or `ListMemory`) and `EndWalk` are the passes of its loops; `uuid` and `ram` are what the callbacks return |
| `ConnTable` | the TCP and UDP tables | operators on a query: the rows, the room, whether the table grew; the sort orders a set of rows |
| `Frames` | WebSocket frames | `LengthField` and `WriteFrame` are the writer, `Masked` is a browser, `ReadFrame` both readers (`Uint16`, `Uint64` their shifts, `PayloadLength` their switch) |
| `Values` | the values of the bucket | encoder and decoder on lengths, modulo 2^16 |
| `Decoders` | reference definitions and properties for the four; composes them | `Input` is what may be decoded: firmware with its structures and where each byte of them lies (`LaidOut`), cut anywhere; any bytes at all; memory sizes, tables of sockets, frames, values. A behaviour decodes one of them, and only an SMBIOS table takes steps |
| `*Proofs` | theorems | see section 5 |
| `MC*` | instances for TLC | definitions for the constants; `MCDecoders` lays out its firmware with an encoder of its own; `MCAlgorithms` composes it with `FairBatch`: a behaviour decodes one input or, with an input that leaves a decoder nothing to do, selects batches |

Definitions named `Mut…` are variants of the definition that follows them, with one
plausible bug each. No specification uses them; each shows that a property is able to
fail, when it is put in the place of the definition. `PROJECT.json` says which breaks which.

History variables (`fate`, `received`, `timedOut`, `buffered`, `knownFor`, `late`, `handed`) are read
by properties and, for `fate`, by the guard that saves each record at most once.

### Abstractions

- A record is a model value, the size of the file is counted in records, a transaction is
  one atomic step that either commits durably or does nothing (what bbolt promises).
- Only the order of clock values matters, so the clock moves to the next value. With
  `FreshClock = FALSE` it may be read as anything, which stands for a coarse or stepped
  clock: `time.Now().UnixNano()` is neither unique nor monotonic.
- "The file never shrinks" is bbolt's behaviour: freed pages go to a free list.
- The Go `RWMutex` is modelled with the rule that a waiting writer blocks new readers;
  that makes Close wait for the calls under way and no others.
- A peek is one step: its transaction sees one state, and it holds no lock after it.
- A `Save` of a data type of more than 65535 bytes returns without `RUnlock`
  (`data_buffer.go:89-91`). `SaveTooLong` models it, one record of `dispatcher_safety` is
  such a record. The program's data types are seven short constants, so nothing in it
  reaches this line; it is noted here and is no finding.
- No hardware scan fails. `HardwareCollector.CollectWithContext` returns an error only for a nil
  context, and caches whatever it has found (`hardware_collector.go:126-230`); so the retry timer
  of `sim_collector.go:302-311` is never armed, and is not modelled. The same holds of the
  security snapshot. Process, network and software scans may fail.
- SimCollector: a run starts after the one before it was taken by a Stop, which cancels it. In
  the model the cancellation comes first; since all it does is to let the loop return, nothing
  is lost. The run that was cancelled may go on (its Stop timed out, or waits), and its scans
  do so in any case.
- Inventory: time is counted in units of half a period; a snapshot carries its age. `Time`
  does not pass a scan that is over its `Delay`: scans run under timeouts of seconds, the
  periods are hours. Process, service and security collections have no cache and are left
  to SimCollector.
- DebugServer: what a part of the dashboard shows is the number of the request that set it.
  A close frame, a reset and a failed write are all a broken connection.
- Decoders: a payload, a data type and an address are their lengths, their identity, or left out.
- In SimCollector the last part of the startup (security, T2) is one step, because its
  triggers do not wait for anything. A kind has room for two goroutines, enough to see a scan
  that should not have begun, and the hardware for one startup scan in place per run.

## 3. Runs

| run | instance | shows |
|---|---|---|
| `algorithms` | batches: three types of weights 3, 1 and 2, limit 4, window 5, backlog up to 6, saves at every step of the loop; decoders: firmware of up to 2 structures, cut anywhere; tables of up to 6 bytes that hold no structures, under headers that say less or more; up to 2 TCP sockets and one of UDP; every boundary of a size and of a length | the loop equals `FairPick`, is oldest first within a type, gives each type of the window a place if one round fits, starves none with fewer than 4 places before it (the first two types); what is decoded is the beginning of what was encoded and, if nothing is cut, all but the last string of a structure; each socket is reported once; lengths come back |
| `dispatcher_safety` | 2 savers, 4 records (one invalid, one oversize), limit 1, batch 2, failing transactions and requests, 1 restart, Close | lock discipline, no silent loss, a Save within the limit has stored, deletes by key hit what was peeked, Close waits for calls, deleted implies delivered, invalid payloads are kept, refinement of `Outbox` |
| `dispatcher_live` | 1 saver, 4 records of two types (one invalid), limit 2, batch 1 from a window of 2, no restart | the file passes the limit by one write; calls and Close get their locks; a valid record is delivered or pruned past the limit, unless the agent stops or the invalid one is in the bucket; `Run` returns |
| `agent_service` | 2 callers, 2 loops, 3 runs | no orphan, no overlap, clean stops are complete, exit channels close |
| `collector` | 2 runs that may overlap, hardware scans in place and in goroutines, process scans that may fail, 1 snapshot | a flag is set exactly while a live scan owns it, ticks are answered, the loops stop |
| `inventory` | period 2, delay 1, lifetimes of two periods and of one, 3 reads of the firmware | the age of what a collector returns is bounded, a hash is replaced, the fingerprints converge |
| `debug_server` | 2 browsers, 2 batches, one data type beside the raw batch | clients in sync, writes only to open connections, the dashboard goes back only for a late request, every ingest is answered |

Violations, each a disagreement between the code and what it or its comments say:

| run | what TLC finds |
|---|---|
| `buffer_clock` | two Saves with one instant: the first record is replaced, both return nil (`data_buffer.go:84-85` against `:29`) |
| `buffer_full` | past the limit every write empties the bucket, its own record included (`data_buffer.go:215-236` against `:29`) |
| `collector_unchanged` | the hash covers the time of collection, so nothing is ever unchanged (`sim_collector.go:385-397`) |
| `net_ports` | a port is swapped twice: 80 is reported as 20480 (`net_snap_windows.go:72` with `:139`, against the port names of `index.html:812-818`) |
| `smbios_strings` | the last string of every structure is lost: the branch that is to parse it is empty (`smbios_windows.go:78-80`) |

Other facts about the code, met on the way and not runs of their own:

- The default batch limit is 10 and the weights of the seven types add up to 16
  (`data_dispatcher.go:75`, `:226-237`), and every batch begins with the first type of the order. So a
  type waits for ever while the types before it fill each batch: `service_snapshot` and
  `software_inventory` have 11 and 13 places before them. Only debug mode sets a limit of 200, "so
  low-frequency inventory items ... are not starved" (`main.go:92-93`). `NoTypeStarves` states the
  condition (fewer places before the type than the limit), and cannot do without it: in
  `algorithms` the third type has 4 places before it, and TLC finds it waiting for ever when
  the condition is left out. `EveryTypeGetsAirtime` has a stronger one, for a stronger promise:
  the batch holds one round of the types in the window, and each of them is in it.
- A payload that is not JSON fails each batch it is picked for, and stays
  (`data_dispatcher.go:121-125`): where the batch is always picked with it, nothing is delivered
  any more. `EventuallyDelivered` excuses this; the payloads of the program come from
  `json.Marshal`.
- A second Start beside a hardware scan of the run before finds its flag set and scans all the
  same, without owning the flag (`sim_collector.go:278-297`): two hardware scans at once.
- After a Stop that timed out another Stop returns nil at once while loops still run, because
  Stop forgets the run before it waits (`agent_service.go:106-112` against `:101`).
- In debug mode `main.go:67-68` promises to "retry hardware scan frequently ... even if the
  startup scan fails", and `sim_collector.go:302-303` a short retry. Neither comes: the collector
  returns no error, so that the timer is never armed, and what it has found is cached for a
  day (`hardware_collector.go:224-229`), so that a scan every two minutes is answered from that cache.
- The software cache lives exactly as long as its scan period and ages from before the
  scan, so whether a tick finds it fresh depends on microseconds.
- A browser that stalls for ever blocks every ingest of the debug server; no write has a deadline.
- `decodeValue` panics for data types of 65534 and 65535 bytes; the program's are short
  constants, so nothing in it gets there.

### Why the bounds are enough

- Two savers and the dispatcher are the fewest goroutines with a writer that runs, one
  that waits, and one that reads. Records beyond a limit of one let the policy prune a record
  that was peeked, one that was not, and the one just saved. The proofs of section 5 remove
  these bounds for the safety properties.
- `FairBatch`: with a limit of 4 and a window of 5 the loop makes several rounds, ends
  in the middle of a turn, finds a group exhausted, and leaves records behind; backlogs
  longer than the window exercise the cut. The weights 3, 1 and 2 add up to more than the limit,
  as the default ones do: one round fits for the first two types and for the last two, not for
  all three, and the third type is just behind the last place. Section 5 removes the bounds
  for all but `NoTypeStarves`.
- Decoders: two structures are one and its successor; they are systems with a UUID, with one
  of zeros and too old to have one, and memory devices, for either callback; the successor is
  one that a callback has to find. Zero to two
  strings are none, the last alone and one before it, and every cut of the table is tried;
  tables of the bytes 0, 4 and 17 have strings that never end and lengths beyond the table.
  Two sockets may be of one process, on one port. Sizes and lengths are taken on both sides
  of every boundary. Section 5 removes all of these bounds.
- AgentService: three runs are the current one, one being stopped, and one forgotten.
- SimCollector: two kinds are the one that blocks the startup and the one with a hash; two
  runs are one and another that overlaps it. A second process snapshot matters only to its
  hash, and `collector_unchanged` takes two; a process scan past the bound can only fail.
- `dispatcher_live`: with four records and a limit of two, records are pruned only if the
  saver is ahead of the dispatcher; a batch of one is picked from two types, and the invalid
  record may be picked first or last. The records are too few to make types
  compete for ever, which is what `NoTypeStarves` is about. There is no restart in it: a restart leads to idle
  goroutines over the records that are stored, where the run comes without one, too. Crashes
  are in `dispatcher_safety`, and the bound on the file after them is a theorem.
- Inventory: ages are told apart up to `AgeCap`, which lies above every bound that a property
  names; the lifetimes are those of the code in units of the period (24 and 12 hours against 12).
- DebugServer: two batches are one and a later one that may overtake it; of two browsers one
  stalls while the other comes or goes.
- `Restart` is a crash at any step and also a start after Close.
- Symmetry is used only for the savers, and only in a run without liveness.
- Deadlock is not checked where the system or a bound really stops it: in `dispatcher_safety`
  the leaked read lock may stop all; in `dispatcher_live` the process ends; in the
  collector's runs the last loop stops, or, in `collector_unchanged`, the bound on snapshots the scan; in `debug_server` the posts
  and connections are bounded; in `algorithms` a walk ends, and other inputs take no steps.

### Fairness, and why the code justifies it

- A goroutine that can run runs (weak fairness of `SaverStep`, `DispatcherStep`, the
  collector's scans and the loops of a run).
- `AcquireWriteMu` is strongly fair: a Go mutex hands over to a waiter after a millisecond.
- `CloseDone` is weakly fair: once Close waits there are no new readers.
- The dispatcher's ticker ticks (weak fairness of `Dispatch`); a request ends, by its
  TTL at the latest (`data_dispatcher.go:139`); `PostOK` is strongly fair, the assumption on
  the backend that `EventuallyDelivered` needs: asked again and again with a valid batch, it
  answers 200.
- No fairness for `SaveCall`, `Close`, `Cancel`, failures, ticks or crashes: nobody has to call.
- In SimCollector `TakeTick` and `LoopStops` are strongly fair: `select` picks among ready
  channels at random. That a scan ends is an assumption on the collectors, which run under
  timeouts of their own.
- Inventory: time passes, scans end, and `ReadUUID` is strongly fair: the comment of
  `fingerprint.go:14-16` calls the failures of the firmware transient.
- DebugServer: mutexes are handed over (strong fairness of each handler and reader), a
  stalled peer reads again or is dropped (`Settle`). The last is an assumption on browsers and TCP,
  and `IngestAnswered` fails without it. No fairness for `Post`, `GiveUp`, `Upgrade`, pings.
- In AgentService a loop whose context is done returns ("Runner is the core loop that
  should stop when ctx is cancelled", `runner.go:5`); no fairness is asked of the callers'
  next call.

## 4. Properties

Each property is stated in the module it is about, with the lines it speaks of. The ones
that need several actors and several steps to break:

- `NoSilentLoss` relates a record's history to the bucket over saves that commit out of
  key order, deletes by key, pruning, Close and crashes.
- `DeleteOnlyPeeked`: between peek and delete a key must not come to hold something else.
- `AtLeastOnce`, `ImplementsOutbox`: deletion follows ingestion, across lost answers and crashes.
- `LoopIsFairPick`: the loop with its indices equals a closed definition.
- `OneRunUnlessTimedOut`, `NoOrphan`: the struct forgets a run before it ends, still no run
  is lost or doubled.
- `StaleBound`, `HashIsReplaced`: an entry is tested at ticks only, a scan takes time, and
  the firmware may answer between the two collectors. They speak of what a collector returns:
  after a scan or a Save that fails, the backend keeps what it had, of any age.
- `SaveKeepsWithinLimit`: between the commit of a Save and its return, other Saves, deletes and
  the size policy are under way; `SaveKeepsRecord` is the same without the condition, and
  fails (`buffer_full`).
- `EventuallyDelivered`: failing requests, a batch of one, pruning and an invalid payload.
- `InSync`, `ShownGrows`: a broadcast races a client that registers, a late request races the
  next one.
- `SmbiosIsReal`: a table that is cut, in a structure or in its strings, must not turn into
  data that is not there, whichever byte the walk resumes at, nor lose more than the one
  string of each structure that the code forgets.
- `RowsAreKept`: two tables that change between two calls, merged and sorted, lose and
  repeat nothing.
- `FlagGuardsScan`, `TicksAreAnswered`: the flag is read and set in two locked sections, while
  another loop sets and resets it; still one live scan owns it, so no tick is swallowed
  without a scan under way.

## 5. Proofs

All theorems hold for every value of the constants (numbers of savers, records, keys,
callers, restarts, limits).

`DataBufferProofs`. `BStep` groups the steps of `BufferNext`, so that the dispatcher's
module can reuse every lemma for its own steps. Invariants, from the outside in:

- `TypeCorrect` (`TypeOK`): the typing is inductive with one strengthening: a Save under way
  has a record (`TypeInv`).
- `LocksCorrect` (`LockInv`) is inductive given the types; `CloseIsSafe` follows: when Close is
  granted there is no reader, and a call in "lock" or "update" is one.
- `StoredIsKept` (`NoSilentLoss`), assuming `FreshClock`. Not inductive alone: it needs that
  every key in use or taken by a running Save lies before the clock, that keys taken by
  two running Saves differ, that nothing is stored under a key that is still taken, and that
  a record is in at most one place.
- `DeletesArePeeked` (`DeleteOnlyPeeked`), assuming `FreshClock`: a peeked key holds the peeked
  record or nothing, because no later Save can take that key.
- `FileIsBounded` (`FileBounded`), assuming no failing transaction and a limit: what is live
  never exceeds the size of the file, and the live records exceed the limit only while the
  size policy is under way (`SizeInv`).
- `SavedIsStored` (`SaveKeepsWithinLimit`): `writeMu` is held from the commit to the return, so
  that nobody deletes in between (`KeepInv`: a Save that has committed finds its record in the
  bucket), and a call prunes only in a file past its limit (`PruneInv`).

`DataDispatcherProofs`. `DispatcherTypeCorrect`; `DeliveredBeforeDeleted` (`AtLeastOnce`) from
the buffer's invariant and the fact that while a batch is being deleted all of it has been
received; `Refinement` (`ImplementsOutbox`): initial states map to initial states, and each
step maps to Accept, Receive, Settle, Evict or a stutter.

  In the composed system, with the dispatcher's cancellation, shutdown and restarts:
  `ComposedLocksCorrect` (`LockInv`, `CloseDrains`), `ComposedStoredIsKept` (`NoSilentLoss`,
  `DeleteOnlyPeeked`), `ComposedFileIsBounded` (`FileBounded`); and `InvalidIsKept`
  (`MalformedKept`): no invalid record is ever among those sent or received (`ValidInv`), so
  with `DeliveredBeforeDeleted` none is deleted after delivery.

`AgentServiceProofs`. `TypeCorrect`; `NoRunIsOrphaned` and `CleanStopsAreComplete` from an
invariant that says where a run can be: the struct, a Stop, or cancelled; and that a closed
exit channel means no running loop. `RunsDoNotOverlap` (`OneRunUnlessTimedOut`) adds that, until
a Stop times out, every run with a running loop is the current one or held by a Stop (`KnownRuns`).

`SimCollectorProofs`. For any number of runs. `FlagsGuardScans` (`FlagGuardsScan`) follows from
three invariants: each flag that is set has one owner, which is alive, and only startup scans
of the hardware have none (`OwnerInv`, inductive by itself: a trigger takes a flag only for a
goroutine that owns it, `MarkFlag` only if it is not set, and the end of the owner resets it); a
scan in place is that of a loop that waits for it (`PlaceInv`); and while there is one run, nobody
sets the hardware flag before its startup scan does (`FirstInv`). `TypeCorrect` (`TypeOK`)
follows with the types of the rest.

`InventoryProofs`. `TypeCorrect`, `ShownIsFresh` (`StaleBound`), `HashGivesWay`
(`HashIsReplaced`), from three invariants: a scan under way began at the last tick (`RunInv`);
what is shown is younger than its lifetime and the time since the last answered tick (`AgeInv`);
a hash, wherever it is, is at least as old as the knowledge of the UUID (`HashInv`).

`DebugServerProofs`. `TypeCorrect`, `ClientsInSync` (`InSync`), `WritesAreSafe`
(`WriteOnlyOpen`), `DashboardGrows` (`ShownGrows`), from: who holds a mutex is where its
section is, and the connections of a broadcast are registered (`LockInv`); a reading client
that does not show the state has it coming (`SyncInv`); a request under way is the last one or
one that was given up (`PostInv`).

`FairBatchProofs`. For any types, limit, window and backlog: `TypeCorrect` (`TypeOK`),
`LoopIsCorrect` (`LoopIsFairPick`), `OldestFirst` (`OldestFirstWithinType`), `AirtimeForAll`
(`EveryTypeGetsAirtime`), and `LoopAlwaysProgresses`: the exit by `if !progress` is never
taken. All follow from one loop invariant (`IInv`, checked with TLC first):

- after r rounds every group has given its r * weight oldest records, or all it has, and
  in round r + 1 the types before `turn` have given one turn more (`Shares`);
- hence the picked records are an initial segment of the order `ServedBefore`
  (`InitialSegment`), and the next record to take is the first one not picked
  (`NextIsServedNext`, which compares rounds by division with the shares);
- a round without progress has found every group so far used up (`NoProgress`), which
  contradicts a window longer than the batch.

At the end an initial segment of `limit` records is `FairPick` (`SegmentIsPick`: ranks in a
total order of a finite set are distinct). Airtime needs a count: if a type of the window
were left out, the picked records would all fit into the places of one round, without those
of that type, by an injection that sends a record to its type and its rank. The backlog after
a delete is again a sequence of types because every index has an n-th key (`NthExists`, by a
least counterexample).

`DecoderProofs`. For every set of inputs that satisfies `InputAssumption`, which only says
that an input is of one of the six kinds.

`WalkStaysInside`: over any bytes, `WalkInv` is inductive. The walk is inside the table
(`InTable`), what is handed over is as long as it says (`WholeStructures`), the UUID is that of
the structure that ended the walk and no earlier one has any (`UUIDFound`), the memory
devices listed are those handed over, in order, each with its size (`MemoryListed`). `WalkEnds`: every step lowers `Left`, a
natural number, so that neither loop can go on for ever. (That a walk which has not ended
can step is a matter of ENABLED, which the proof system does not reach; each stage has one
action for either outcome of its one test.)

`DecodedIsFirmware` (`SmbiosIsReal`) needs to know which structures were handed over. `Walked`
(checked with TLC first) says, of the firmware that is decoded: they are its first ones, and each but
the one at the cut has all its strings but the last (`AllComplete`); the walk is where the next one starts, or has come so near the cut that no structure begins; or
it is in the strings of the next one, at the start of the first string it has not read. The
invariant rests on the layout:

- from where string r + 1 starts, the next zero byte is the one that ends it, and a zero byte
  follows it exactly when it is the last (`StringIsNext`): a string has no zero byte in it, and
  is not empty. So the inner loop stops where the code means it to, having
  appended all strings but the one it stops at;
- a cut changes none of the bytes before it (`CutSlice`, `SliceOfCut`), so that a zero byte the
  loop finds is that one, and if it finds none the table ends before the byte behind it
  (`ZeroFound`); then no header fits behind it any more (`EndIsNext`).

The UUID is that of the first system because no structure handed over before it was one
(`FoundIsFirst`). `DeviceSize`: a size in KB, in MB or in the extended field is read back, for
every size, by division with powers of 256 (`Bytes`) and by the three units excluding each
other (`SizeUnits`).

`RowsAreReported` (`RowsAreKept`) for tables with any rows: `SortsBefore` is a strict total order
on the rows shown, so that the number of rows before a row is its place, places are
distinct (`PlaceInjective`), and n rows fill all n of them (`PlaceTaken`); hence `Sorted` lists each row once.

`LengthsAreKept` (`LengthsRoundTrip`) for every frame and value: the three forms of a length
exclude each other and cover all lengths (`Forms`, `FormsExclude`); of each form it is shown
which bytes are written (`Written`), that a mask keeps them (`MaskedWire`), and that a reader
that finds them returns the length (`Read`), which comes down to division by powers of 256
(`LongValue`). `FramesAreBytes`: below 4 GiB each of them is a byte.

The assumption `FreshClock` cannot be dropped: `buffer_clock` is the counterexample.

Model-checked only: liveness (`CallsReturn`, `CloseCompletes`, `EventuallyDelivered`,
`DispatcherStops`, `NoTypeStarves`, `CancelledRunsExit`, `TicksAreAnswered`,
`CancelledLoopStops`, `FingerprintsConverge`, `IngestAnswered`), which the
proof system does not reach. Every invariant and every action property that a passing run
checks is stated by a theorem, and so is the refinement of `Outbox`.

## 6. Not modelled

- Queries of the operating system (registry, commands, files, IOCTLs), the inventories of
  Linux and macOS, TLS settings, the HTTP protocol and the WebSocket handshake, logging, flags,
  the dashboard's page, `test_server.go`: I/O, wiring and presentation.
- Process, service and security snapshots: lists of what the system reports, without state.
- Errors of `json.Marshal`: the payloads are plain structs.
- Library code: bbolt, kardianos, gopsutil, gin, gorilla are seen through their use.

## 7. What is left

In this order:

1. `Agent`: AgentService and SimCollector composed with dispatcher, buffer and `main`. Scans
   that outlive a clean Stop and meet Close are already in DataDispatcher, whose savers go on
   after `Cancel` and `Shutdown`; the composition would tie them to the scheduler's flags.
2. `ClientConfig`: which certificates and flags give which TLS settings.
3. The merge of security snapshots from parallel collections.
