\* One saver and four records, one of them not valid JSON; a limit of two, so that the
\* size policy prunes only when the saver is ahead of the dispatcher; a batch of one.
\* Deadlock is not checked: the process ends and stays so.
\* That nothing else stops the goroutines is what the properties say.
CONSTANTS
    p1 = p1
    p2 = p2
    r1 = r1
    r2 = r2
    r3 = r3
    r4 = r4
    Dispatcher = Dispatcher
    NoRecord = NoRecord
    NoProc = NoProc
    TypeOf <- MCTypeOf
    Oversize <- MCNone
    Saver = {p1}
    Record = {r1, r2, r3, r4}
    Key <- MCKeys4
    FreshClock = TRUE
    MaxDBSize = 2
    PruneChunk = 1
    IoErrors = FALSE
    MaxRestarts = 0
    Malformed <- MCOneMalformed
    BatchLimit = 1
    ScanFactor = 2
    ScanFloor = 1
    ScanCap = 3
SPECIFICATION FairSpec
INVARIANT FileBounded
PROPERTIES
    CallsReturn
    CloseCompletes
    EventuallyDelivered
    DispatcherStops
CHECK_DEADLOCK FALSE
