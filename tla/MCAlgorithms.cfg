\* A rare and two frequent types of weights 3, 1 and 2 and a batch limit of 4: the first
\* two fill a round, so that the third may starve and they may not.  A window that is
\* longer than the batch and shorter than the backlog; and every input of the decoders.
\* Deadlock is not checked: a walk ends, and the other inputs take no steps.
CONSTANTS
    Type <- MCOneTypeTooMany
    BatchLimit = 4
    Scan = 5
    MaxBacklog = 6
    Input <- MCInput
SPECIFICATION MCSpec
INVARIANTS
    TypeOK
    LoopIsFairPick
    OldestFirstWithinType
    EveryTypeGetsAirtime
    SmbiosIsReal
    RowsAreKept
    LengthsRoundTrip
PROPERTY NoTypeStarves
CHECK_DEADLOCK FALSE
