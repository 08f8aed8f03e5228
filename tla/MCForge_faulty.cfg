\* Everything may fail.
CONSTANTS
    Ids = {s1}
    Requests = {r1, r2, r3}
    NoId = NoId
    Faults = {"cancel", "docker", "registry", "crash", "shutdown", "death"}
    IdleSleepMin = 1
    IdleDestroyMin = 2
    PassSpan = 1
    AgeCap = 4
SPECIFICATION Spec
SYMMETRY Symmetry
INVARIANTS
    TypeOK
    ReapsOnlyStale
PROPERTIES
    RowNeverReturns
    LeaksOnFailureOnly
    NamesLiveOnce
