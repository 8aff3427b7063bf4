SPECIFICATION Spec
CONSTANTS
    tA = tA
    tB = tB
    None = None
    Tasks = {t1, t2}
    Conversations = {c1}
    Messages = {m1, m2}
    Texts = {tA, tB}
    Proposals <- SendProposals
    Operators = {o1}
    Workers = {w1}
    MaxRetries = 1
    MaxFaults = 0
    MaxCrashes = 0
    MaxCallbacks = 0
INVARIANT
    HeldForApproval
