\* An approval while a revision of the article is queued.
SPECIFICATION Spec
CONSTANTS
    Slugs = {s1}
    NoSlug = NoSlug
    Requests = {r1, r2, r3}
    MaxRestarts = 0
SYMMETRY Symmetry
INVARIANT
    LiveIsApproved
\* Every request may have been made and answered.
CHECK_DEADLOCK FALSE
