\* Two browsers that come, stall, ping and go while the agent posts two batches,
\* one of which it may give up.
\* Deadlock is not checked: the posts and the connections are bounded.
CONSTANTS
    c1 = c1
    c2 = c2
    Client <- MCTwoClients
    DataType <- MCOneType
    MaxPosts = 2
SPECIFICATION FairSpec
INVARIANTS
    TypeOK
    InSync
    WriteOnlyOpen
PROPERTIES
    ShownGrows
    IngestAnswered
CHECK_DEADLOCK FALSE
