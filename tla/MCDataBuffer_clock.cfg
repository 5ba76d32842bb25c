\* A wall clock that two calls of Save may read at the same instant.
CONSTANTS
    p1 = p1
    p2 = p2
    r1 = r1
    r2 = r2
    r3 = r3
    Saver = {p1, p2}
    Dispatcher = Dispatcher
    NoRecord = NoRecord
    NoProc = NoProc
    TypeOf <- MCTypeOf
    Record = {r1, r2}
    Oversize <- MCNone
    Key <- MCKeys2
    FreshClock = FALSE
    MaxDBSize = 3
    PruneChunk = 1
    IoErrors = FALSE
    MaxRestarts = 0
SPECIFICATION BufferSpec
INVARIANT NoSilentLoss
