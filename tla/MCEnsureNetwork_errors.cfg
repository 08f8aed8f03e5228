\* Failed attempts and resets. A fatal error of the runtime stops everything.
\* No symmetry: a property is about liveness.
CONSTANTS
    Ids = {}
    NoId = NoId
    Creators = {c1, c2, c3}
    Faults = {"docker"}
SPECIFICATION FairNetSpec
CHECK_DEADLOCK FALSE
INVARIANTS
    NetTypeOK
    SettlesOnNetwork
PROPERTY
    QueueDrains
