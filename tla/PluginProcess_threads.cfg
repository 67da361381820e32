CONSTANTS
    Env = {"torn", "ahead", "early", "destroy"}
    Pages = {1, 2, 3}
    MaxOperations = 3
    MaxDialogs = 2
SPECIFICATION FairSpec
INVARIANT NothingMisread
PROPERTY EveryOperationAnswered
CHECK_DEADLOCK FALSE
