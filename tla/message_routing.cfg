SPECIFICATION FairSpec
CONSTANTS
    None = None
    Deliveries = {d1, d2}
    Contacts = {k1}
    Conversations = {c1, c2}
    Attempts = 2
    MaxStalls = 1
    MaxFaults = 1
    MaxCrashes = 1
INVARIANTS
    TypeOK
    SettledOnce
    PausedHasOwner
PROPERTY
    QueuedIsSettled
