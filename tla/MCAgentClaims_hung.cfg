\* Whether the deadline ends a run.
CONSTANTS
    Ids = {s1}
    NoId = NoId
    Callers = {c1}
    WithForge = {s1}
    WithBash = {s1}
    Homeless = {}
    Faults = {"cancel"}
    Exits = {"done"}
    MaxIterations = 1
    MaxToolRetries = 1
    MaxCalls = 1
    Grace = 2
SPECIFICATION AgentClaimsSpec
INVARIANT
    GuardsAgainstHungCalls
