\* What a reset may do to other calls.
CONSTANTS
    Ids = {}
    NoId = NoId
    Creators = {c1, c2}
    Faults = {"docker"}
SPECIFICATION NetSpec
INVARIANT
    NeverFatal
