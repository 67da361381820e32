CONSTANTS
    r1 = r1
    r2 = r2
    r3 = r3
    s1 = s1
    s2 = s2
    Requests = {r1, r2, r3}
    NoRequest = NoRequest
    Sessions = {s1, s2}
    CancelKey <- MCShared
    Policy <- MCPolicies
    Env = {}
    MaxChatter = 1
    Stored = TRUE
    SecretsDBOpen = FALSE
    MaxCancels = 2
SPECIFICATION Spec
INVARIANT NoStalledQueue
INVARIANT DialogBelongsToActive
 
INVARIANT WritesBelongToTheirRequest
INVARIANT NoAbortUnlessForgotten
PROPERTY ServesTheQueue
CHECK_DEADLOCK FALSE
