\* Two calls of run-once and a person, with one mishap or command.
SPECIFICATION FairSpec
CONSTANTS
    Calls = {c1, c2}
    People = {p1}
    Candidates = {x1, x2}
    Scores = {1, 2}
    AutoAccept = 2
    MaxRunsPerDay = 1
    Outcomes = {"published", "failed"}
    Bounds <- OneMishap
INVARIANTS
    LockHeld
    ExecutedIsMarked
    DailyLimitHolds
PROPERTIES
    BacklogMoves
