\* Every call is answered, containers may die; fair time, reaper and handlers.
CONSTANTS
    Ids = {s1}
    Requests = {r1, r2, r3}
    NoId = NoId
    Faults = {"death"}
    IdleSleepMin = 1
    IdleDestroyMin = 2
    PassSpan = 1
    AgeCap = 4
SPECIFICATION FairSpec
INVARIANTS
    NoOrphan
    RowBacked
PROPERTIES
    IdleRowReaped
    HungExecReleased
