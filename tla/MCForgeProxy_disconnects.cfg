\* Clients leave, the process crashes; one browser, as many addresses as sandboxes.
CONSTANTS
    Ids = {s1, s2}
    Requests = {r1}
    NoId = NoId
    Faults = {"cancel", "crash", "death"}
    IdleSleepMin = 0
    IdleDestroyMin = 1
    PassSpan = 0
    AgeCap = 2
    Addresses = {a1, a2}
    NoAddress = NoAddress
    Unasked = Unasked
    Visits = {v1}
SPECIFICATION ProxySpec
SYMMETRY Symmetry
INVARIANTS
    ProxyTypeOK
    KnownTracked
    ReachesRunning
PROPERTY
    LeaksOnFailureOnly
