SPECIFICATION FairSpec
CONSTANTS
    Kinds = {"session", "identity", "service"}
    MaxCalls = 2
    MaxEvents = 1
    Env = {"unregister", "others", "die", "refuse", "noservice"}
INVARIANT ExecutedOnce
INVARIANT CanceledNeverExecuted
INVARIANT MechanismsMatch
INVARIANT ToldOnce
PROPERTY EveryCallSettled
CHECK_DEADLOCK FALSE
