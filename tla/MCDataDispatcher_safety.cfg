\* Two savers against the dispatcher: pruning, failing transactions and requests,
\* one crash or restart at any point.  The rare record is not valid JSON, another is of
\* a type too long to be stored.
\* Deadlock is not checked: the Save of that type keeps its read lock for good.
CONSTANTS
    p1 = p1
    p2 = p2
    r1 = r1
    r2 = r2
    r3 = r3
    r4 = r4
    Dispatcher = Dispatcher
    NoRecord = NoRecord
    NoProc = NoProc
    TypeOf <- MCTypeOf
    Oversize <- MCOneOversize
    Saver = {p1, p2}
    Record = {r1, r2, r3, r4}
    Key <- MCKeys4
    FreshClock = TRUE
    MaxDBSize = 1
    PruneChunk = 1
    IoErrors = TRUE
    MaxRestarts = 1
    Malformed <- MCOneMalformed
    BatchLimit = 2
    ScanFactor = 1
    ScanFloor = 1
    ScanCap = 3
SPECIFICATION Spec
SYMMETRY MCSaverSymmetry
INVARIANTS
    DispatcherTypeOK
    LockInv
    NoSilentLoss
    AtLeastOnce
    MalformedKept
PROPERTIES
    DeleteOnlyPeeked
    SaveKeepsWithinLimit
    CloseDrains
    ImplementsOutbox
CHECK_DEADLOCK FALSE
