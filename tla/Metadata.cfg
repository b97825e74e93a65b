SPECIFICATION Spec
CONSTANTS
    c1 = c1
    c2 = c2
    a1 = a1
    a2 = a2
    b1 = b1
    Info <- InfoOf
    Client <- TwoClients
    EnabledFor <- Enabled
    Symbol <- Symbols
    Source <- TwoSources
    Scraped <- OneScraped
    Candidate <- Candidates
    Answers <- AnswersOf
    NoRow = NoRow
    BadId = BadId
    TTL = 3
    NotFoundTTL = 1
    MaxResults = 2
    MaxLag = 1
    MaxSkew = 1
    MaxSearches = 3
    MaxEdits = 1
    MaxFaults = 1
INVARIANTS
    TypeOK
    FreshAnswers
    TopResults
    AsinFirst
    IdsResolve
PROPERTIES
    UpstreamSpared
