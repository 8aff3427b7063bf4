SPECIFICATION Spec
CONSTANTS
    tA = tA
    tB = tB
    None = None
    Tasks = {t1}
    Conversations = {c1}
    Messages = {m1}
    Texts = {tA, tB}
    Proposals <- OneProposal
    Operators = {o1, o2}
    Workers = {w1, w2}
    MaxRetries = 1
    MaxFaults = 1
    MaxCrashes = 0
    MaxCallbacks = 1
SYMMETRY Identical
INVARIANTS
    TypeOK
    DecisionsBoundedByConcurrency
    RecordedSendNotRepeated
    DoneHasRecord
PROPERTY
    ImplementsGate
