SPECIFICATION Spec
CONSTANTS
    None = None
    Deliveries = {d1}
    Contacts = {k1}
    Conversations = {c1}
    Attempts = 2
    MaxStalls = 1
    MaxFaults = 0
    MaxCrashes = 0
PROPERTY
    SensitiveHeld
