\* The instance of Research.cfg; safety only.
SPECIFICATION Spec
CONSTANTS
    Sources = {feed, sitemap}
    Sitemaps = {sitemap}
    MaxRedirects = 1
    MaxDepth = 3
    MaxChildren = 2
    MaxListed = 2
    MaxEntries = 2
    MaxFeed = 1
    Candidates = {t1, t2}
    Urls = {u1, u2}
    Scores = {1, 2}
    AutoAccept = 2
    Weights = {1, 2}
    EnrichLimit = 2
    MaxCost = 1
    MaxProposal = 1
    MaxDecisions = 1
    MaxRequests = 1
PROPERTY
    RoundStopsAtCost
\* The round is over and nobody asks for anything.
CHECK_DEADLOCK FALSE
