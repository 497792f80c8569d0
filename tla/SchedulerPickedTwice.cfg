\* One call that dies, and the next one.
SPECIFICATION Spec
CONSTANTS
    Calls = {c1}
    People = {}
    Candidates = {x1}
    Scores = {2}
    AutoAccept = 2
    MaxRunsPerDay = 2
    Outcomes = {"published", "failed"}
    Bounds <- OneCrash
INVARIANTS
    NotPickedTwice
