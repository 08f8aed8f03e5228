\* A daemon that answers.
CONSTANTS
    Ids = {s1}
    NoId = NoId
    Callers = {c1, c2}
    WithForge = {s1}
    WithBash = {s1}
    Homeless = {s1}
    Faults = {"death", "cancel", "model"}
    Exits = {"done", "refused"}
    MaxIterations = 2
    MaxToolRetries = 2
    MaxCalls = 1
SPECIFICATION AgentSpec
SYMMETRY RunSymmetry
INVARIANTS
    AgentTypeOK
    StartedOnce
