CONSTANTS
    r1 = r1
    r2 = r2
    r3 = r3
    s1 = s1
    s2 = s2
    Requests = {r1, r2}
    NoRequest = NoRequest
    Sessions = {s1, s2}
    CancelKey <- MCOneEach
    Policy <- MCDefault
    Env = {"crash", "late", "unasked"}
    MaxChatter = 1
    Stored = TRUE
    SecretsDBOpen = TRUE
    MaxCancels = 1
SPECIFICATION FairSpec
PROPERTY EveryRequestAnswered
CHECK_DEADLOCK FALSE
