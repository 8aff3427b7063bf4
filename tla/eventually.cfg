SPECIFICATION MCFairSpec
CONSTANTS
    None = None
    Conversations = {c1}
    Questions = {"ROLE"}
    Callers = {j1}
    Scans = {s1, s2}
    WeeklyCap = 1
    Week = 1
    MaxDays = 1
    MaxFaults = 1
    c1 = c1
    t1 = t1
    t2 = t2
    s1 = s1
    s2 = s2
    m1 = m1
    tA = tA
    tB = tB
    o1 = o1
    o2 = o2
    w1 = w1
    w2 = w2
    b1 = b1
    q1 = q1
    c2 = c2
PROPERTIES
    DueIsReminded
    StuckIsMarked
    JobsDrain
    ApprovalResumes
    CheckEnds
    PanelCatchesUp
