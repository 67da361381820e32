SPECIFICATION Spec
CONSTANTS
    Passwords = {p1, p2}
    Empty = Empty
    Methods = {m1}
    Data = {d1}
    BigData = {}
    NoData = NoData
    MaxId = 2
    MaxRequests = 1
    Env = {"late", "metadata", "restart"}
SYMMETRY PasswordSymmetry
 
 
INVARIANT LatestDataIsStored
INVARIANT SecretsOnlyIfAsked
INVARIANT NoOrphanData
INVARIANT CacheFlushed
CHECK_DEADLOCK FALSE
