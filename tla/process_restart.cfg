SPECIFICATION Spec
CONSTANTS
    tA = tA
    tB = tB
    None = None
    Tasks = {t1, t2, t3}
    Conversations = {c1}
    Messages = {m1, m2}
    Texts = {tA}
    Proposals <- ReplyOrEscalate
    Operators = {o1}
    Workers = {w1}
    MaxRetries = 1
    MaxFaults = 0
    MaxCrashes = 1
    MaxCallbacks = 0
SYMMETRY Identical
INVARIANT
    OneOpenTaskPerMessage
PROPERTY
    ImplementsGate
