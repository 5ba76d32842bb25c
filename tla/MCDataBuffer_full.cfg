\* A file that has once grown past the limit.
CONSTANTS
    p1 = p1
    p2 = p2
    r1 = r1
    r2 = r2
    r3 = r3
    Saver = {p1, p2}
    Dispatcher = Dispatcher
    NoRecord = NoRecord
    NoProc = NoProc
    TypeOf <- MCTypeOf
    Record = {r1, r2, r3}
    Oversize <- MCNone
    Key <- MCKeys3
    FreshClock = TRUE
    MaxDBSize = 1
    PruneChunk = 1
    IoErrors = FALSE
    MaxRestarts = 0
SPECIFICATION BufferSpec
PROPERTY SaveKeepsRecord
