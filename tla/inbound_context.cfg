SPECIFICATION MCSpec
CONSTANTS
    j1 = j1
    j2 = j2
    k1 = k1
    f1 = f1
    tA = tA
    tB = tB
    None = None
    Tasks = {t1, t2}
    Conversations = {c1}
    Messages = {m1, m2}
    Texts = {tA, tB}
    Proposals <- MCProposals
    Operators = {o1}
    Workers = {w1, w2}
    MaxRetries = 1
    MaxFaults = 1
    MaxCrashes = 0
    MaxCallbacks = 0
    Null = Null
    Jobs <- MCJobs
    Candidates <- MCCandidates
    Callers = {w1, w2}
    NewJobs <- MCNewJobs
    Patches <- MCPatches
    Profiles <- MCProfiles
    District <- MCDistrict
    Limit = 1
    Soon = 1
    Near = 2
    MaxDays = 1
    MaxJobTasks = 1
    MaxWrites = 2
    MaxMissing = 1
    Forms <- MCForms
    Months <- MCMonths
    Amounts = {0, 3}
    Rates = {8}
    Step = 2
    MaxBrackets = 2
    MaxEdits = 3
    MaxSaves = 1
    MaxFailed = 1
SYMMETRY IdenticalJobs
INVARIANTS
    SentTextsApproved
    LimboHasCause
    FiguresHold
