SPECIFICATION FairSpec
CONSTANTS
    i1 = i1
    i2 = i2
    c1 = c1
    c2 = c2
    s1 = s1
    s2 = s2
    s3 = s3
    p1 = p1
    p2 = p2
    Identities = {}
    Cores = {c1, c2}
    Sessions = {s1, s2, s3}
    Peers = {p1}
    NoPeer = NoPeer
    NoObject = NoObject
    Acl <- MCAcl
    MaxId = 1
    MaxDialogs = 0
    Env = {"busy"}
PROPERTY NoRequestLost
PROPERTY NothingKept
CHECK_DEADLOCK FALSE
