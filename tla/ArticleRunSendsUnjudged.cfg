\* A revision that fails half-way and is resumed.
SPECIFICATION Spec
CONSTANTS
    Slugs = {s1, s2}
    NoSlug = NoSlug
    Configs <- RevisedConfigs
INVARIANT
    NothingUnjudgedIsSent
\* A run ends, and then nothing has to happen any more.
CHECK_DEADLOCK FALSE
