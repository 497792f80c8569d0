\* The failed step of a regenerated article.
SPECIFICATION Spec
CONSTANTS
    Slugs = {s1, s2}
    NoSlug = NoSlug
    Configs <- RegeneratedConfigs
PROPERTY
    ResumeRepeatsFailedStep
\* A run ends, and then nothing has to happen any more.
CHECK_DEADLOCK FALSE
