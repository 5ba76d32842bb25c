\* Two callers whose Starts and Stops race.
CONSTANTS
    c1 = c1
    c2 = c2
    Part <- MCParts
    MaxRuns = 3
    Caller = {c1, c2}
SPECIFICATION FairSpec
INVARIANTS
    TypeOK
    NoOrphan
    OneRunUnlessTimedOut
PROPERTIES
    CleanStopIsComplete
    CancelledRunsExit
