\* Two runs over one collector, the second beside what the first has left or beside the
\* first itself: a scan in place at startup, scans triggered by ticks, one that may fail.
\* Deadlock is not checked: the runs are bounded, and the second may have stopped.
CONSTANTS
    Kind <- MCTwoKinds
    Content <- MCOneContent
    Failing <- MCProcess
    MaxRuns = 2
    MaxScans = 1
SPECIFICATION FairSpec
INVARIANTS
    TypeOK
    FlagGuardsScan
PROPERTIES
    TicksAreAnswered
    CancelledLoopStops
CHECK_DEADLOCK FALSE
