SPECIFICATION Spec
CONSTANTS
    Keys = {a, b}
    NoKey = NoKey
    KeySlots = 2
    KeyManagers = {m1, m2}
    Senders = {s1}
    Authorizers = {"default", "extension"}
    Events = {"disable", "storage", "restart", "backup", "restore", "backupMode"}
    Faults = {"header", "database", "metadata"}
    FileFaults = {"tree", "copy", "kill", "killAfter"}
SYMMETRY KeySymmetry
INVARIANT BackupComplete
