\* A daemon that answers; s1 may lose its work directory, s2 lacks forge.
\* No symmetry: a property is about liveness.
CONSTANTS
    Ids = {s1, s2}
    NoId = NoId
    Callers = {c1, c2}
    WithForge = {s1}
    WithBash = {s1}
    Homeless = {s1}
    Faults = {"death", "cancel"}
    Exits = {"done", "refused"}
SPECIFICATION ExecFairSpec
INVARIANTS
    ExecTypeOK
    ResultIsOfARun
    FailsOnlySpent
    RanAsMeant
PROPERTY
    StoppedReleases
