\* A daemon that may answer with errors; fair runs.
CONSTANTS
    Ids = {s1}
    NoId = NoId
    Callers = {c1}
    WithForge = {s1}
    WithBash = {s1}
    Homeless = {s1}
    Faults = {"death", "cancel", "model", "docker"}
    Exits = {"done", "refused", "impostor"}
    MaxIterations = 2
    MaxToolRetries = 2
    MaxCalls = 2
SPECIFICATION AgentFairSpec
INVARIANTS
    StartsBounded
PROPERTIES
    QuietAfterDeadline
    RunEnds
