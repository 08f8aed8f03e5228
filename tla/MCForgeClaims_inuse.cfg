\* Whether a sandbox in use is destroyed.
CONSTANTS
    Ids = {s1}
    Requests = {r1}
    NoId = NoId
    Faults = {}
    IdleSleepMin = 1
    IdleDestroyMin = 2
    PassSpan = 1
    AgeCap = 4
    RunLimit = 1
SPECIFICATION ClaimsSpec
PROPERTY
    DestroysInactiveOnly
