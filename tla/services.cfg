SPECIFICATION MCSpec
CONSTANTS
    None = None
    r1 = r1
    r2 = r2
    j1 = j1
    ca = ca
    cb = cb
    t3 = t3
    Items = {i1}
    Requests = {r1, r2}
    MaxFaults = 1
    MaxCrashes = 1
    Null = Null
    MaxFailures = 1
    Jobs = {j1}
    Candidates = {ca, cb}
    Matches <- MCMatches
    BestJob <- MCBestJob
    Positions <- MCPositions
    Askers = {r1, r2}
    MaxOpportunityDays = 1
    MaxAsked = 3
    Writers = {r1, r2}
    Ids <- MCIds
    EventKeys = {k1}
    PageSize = 1
    MaxTime = 1
    ReviewTasks = {r1, r2, t3}
    Bucket <- MCBucket
    Limit <- MCLimit
    Verdicts = {"GOOD"}
    MaxMornings = 2
    Conversations = {c1}
    Questions = {"ROLE"}
    Callers = {r1, r2}
    Scans = {r1, r2}
    WeeklyCap = 1
    Week = 1
    MaxFollowUpDays = 2
    Watched = {ca, cb}
    AgencyOf <- MCAgencyOf
    Gated = {ca}
    Sweeps = {r1, r2}
    Threshold = 1
    MaxStuckTime = 1
    Messages = {r1, r2}
    Replies <- MCReplies
    Attempts = 2
SYMMETRY Identical
CHECK_DEADLOCK FALSE
INVARIANTS
    TypeOK
    OpenTasksBounded
    PromisedTaskExists
    RowsInOrder
    RepeatsBounded
    NothingMissed
PROPERTY
    UndisturbedMovesAllowed
    GuessesYield
