\* Both provider set-ups, a plain and a structured step, one lost record or death.
SPECIFICATION FairSpec
CONSTANTS
    LastStep = 2
    Structured = {2}
    MaxAttempts = 2
    MaxRetries = 1
    Budget = 2
    Dearest = 2
    MaxExecutions = 3
    MaxMishaps = 1
    NotifyEvents = {"completed", "failed", "budget_exceeded"}
    NotifyAttempts = 3
INVARIANTS
    SpendBounded
    RecordedIsSpent
    RetriesBounded
    ToldIsStored
PROPERTIES
    OverBudgetAsksNoMore
    ExecutionsEnd
\* The run is completed, or nobody resumes it.
CHECK_DEADLOCK FALSE
