SPECIFICATION Spec
CONSTANTS
    t1 = t1
    t2 = t2
    method = method
    mechanism = mechanism
    realm = realm
    Applications = {t1, t2}
    Methods = {method}
    Mechanisms = {mechanism}
    Realms = {realm}
    References = {r1}
    Infos <- MCInfos
    Null = Null
    MaxId = 2
    Files = {"none", "version0", "version1"}
    Env = {"kill"}
PROPERTY StoresIdentities
INVARIANT NoDanglingRows
