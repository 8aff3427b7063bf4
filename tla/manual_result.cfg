SPECIFICATION Spec
CONSTANTS
    None = None
    Tasks = {t1}
    Bookings = {b1}
    Requests = {r1}
    Photos = {}
    Attempts = 3
    MaxStalls = 1
    MaxFaults = 0
    MaxCrashes = 0
PROPERTY
    ManualResultKept
