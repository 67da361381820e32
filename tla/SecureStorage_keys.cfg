SPECIFICATION Spec
CONSTANTS
    Keys = {a, b, c, d}
    NoKey = NoKey
    KeySlots = 3
    KeyManagers = {m1}
    Senders = {s1}
    Authorizers = {"default"}
    Events = {"disable", "remove", "restart", "store"}
    Faults = {}
    FileFaults = {}
SYMMETRY KeySymmetry
INVARIANT KeyOpensStorage
INVARIANT RevokedCannotOpen
PROPERTY ContentsSurvive
