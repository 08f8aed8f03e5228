\* Whether a row outlives its container when the process is asked to stop.
CONSTANTS
    Ids = {s1}
    Requests = {r1}
    NoId = NoId
    Faults = {"shutdown"}
    IdleSleepMin = 1
    IdleDestroyMin = 2
    PassSpan = 1
    AgeCap = 4
    RunLimit = 1
SPECIFICATION ClaimsSpec
PROPERTY
    ReaperCollects
