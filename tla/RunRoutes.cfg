\* All the routes at once, on one run, with a death of the server.
SPECIFICATION FairSpec
CONSTANTS
    Slugs = {s1}
    NoSlug = NoSlug
    Requests = {r1, r2, r3, r4}
    MaxRestarts = 1
INVARIANTS
    OneExecution
    InFlightIsTrue
PROPERTIES
    DecisionsOutlastResumes
    LifecycleUnlessApproved
    FlightEnds
\* Every request may have been made and answered.
CHECK_DEADLOCK FALSE
