CONSTANTS
    r1 = r1
    r2 = r2
    r3 = r3
    s1 = s1
    s2 = s2
    Requests = {r1, r2}
    NoRequest = NoRequest
    Sessions = {s1, s2}
    CancelKey <- MCOneEach
    Policy <- MCDefault
    Env = {"crash", "restart", "torn", "idle"}
    MaxChatter = 1
    Stored = TRUE
    SecretsDBOpen = FALSE
    MaxCancels = 1
SPECIFICATION FairSpec
INVARIANT TypeOK
INVARIANT OnlyCanceledRepliedAgain
PROPERTY EveryRequestAnswered
PROPERTY NoSilentDrop
CHECK_DEADLOCK FALSE
