\* Each publisher; two publishes at a time of one slug: four in all, or
\* two with tags, or one with tags and two without.
SPECIFICATION FairSpec
CONSTANTS
    Publishes = {p1, p2}
    Tags = {a, b}
    NoTag = NoTag
    AllowCreate = TRUE
    Targets = {"wordpress", "wordpress_conflict", "ghost", "markdown", "markdown_overwrite"}
    Tagged = {"wordpress"}
    MaxStarts = 4
    TaggedCost = 2
    MaxEdits = 1
INVARIANTS
    CreatedIsListed
    OnePost
PROPERTIES
    LiveStays
    ReplacesWhatItSaw
    PublishesEnd
\* The publishes are over.
CHECK_DEADLOCK FALSE
