\* Every policy; failures, crashes, resumes, revisions, approvals, lost records.
SPECIFICATION FairSpec
CONSTANTS
    Slugs = {s1, s2}
    NoSlug = NoSlug
    Configs <- AllConfigs
INVARIANTS
    OnlyJudgedTextIsSent
    PublishedIsLive
    LiveOnlyByDecision
    OnePostPerArticle
PROPERTIES
    ResumeRepeatsFirstPass
    LifecycleSpec
    ExecutionEnds
\* A run ends, and then nothing has to happen any more.
CHECK_DEADLOCK FALSE
