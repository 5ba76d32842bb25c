\* Scans that end in the unit of their tick or in the next, firmware and queries
\* that fail at any time.
CONSTANTS
    Period = 2
    Delay = 1
    TTL <- MCTTL
    AgeCap = 8
    Attempts = 3
SPECIFICATION FairSpec
INVARIANTS
    TypeOK
    StaleBound
    HashIsReplaced
PROPERTIES
    FingerprintsConverge
