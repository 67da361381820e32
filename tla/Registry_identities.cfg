SPECIFICATION Spec
CONSTANTS
    i1 = i1
    i2 = i2
    c1 = c1
    s1 = s1
    s2 = s2
    s3 = s3
    c2 = c2
    p1 = p1
    p2 = p2
    Identities = {i1, i2}
    Cores = {c1}
    Sessions = {s1}
    Peers = {p1, p2}
    NoPeer = NoPeer
    NoObject = NoObject
    Acl <- MCAcl
    MaxId = 1
    MaxDialogs = 2
    Env = {"unknown"}
SYMMETRY Symmetry
INVARIANT TablesNameLiveObjects
INVARIANT OneObjectPerIdentity
 
INVARIANT EndsUnused
PROPERTY NoDialogLost
CHECK_DEADLOCK FALSE
