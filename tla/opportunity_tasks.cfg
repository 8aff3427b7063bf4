SPECIFICATION Spec
CONSTANTS
    None = None
    j1 = j1
    ca = ca
    cb = cb
    Jobs = {j1}
    Candidates = {ca, cb}
    Matches <- MCMatches
    BestJob <- MCBestJob
    Positions <- MCPositions
    Requests = {r1}
    MaxDays = 0
    MaxRequests = 4
    MaxFaults = 1
INVARIANT
    DuplicatesAvoided
