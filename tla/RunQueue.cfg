\* Two workers, two places in line and one job more than the queue can hold.
SPECIFICATION FairSpec
CONSTANTS
    Jobs = {j1, j2, j3, j4, j5}
    Concurrency = 2
    MaxQueued = 2
INVARIANTS
    CountersAgree
    WithinLimits
    WorkConserving
    DrainedOnClose
PROPERTIES
    NoOvertaking
    EveryJobRuns
    CloseReturns
\* The queue is closed once and has nothing to do then.
CHECK_DEADLOCK FALSE
