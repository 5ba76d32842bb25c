\* Two process snapshots of one run that show the same processes and services.
\* Deadlock is not checked: the bound on process snapshots stops their scan.
CONSTANTS
    Kind <- MCTwoKinds
    Content <- MCContent
    Failing <- MCNone
    MaxRuns = 1
    MaxScans = 2
SPECIFICATION Spec
PROPERTY UnchangedIsSkipped
CHECK_DEADLOCK FALSE
