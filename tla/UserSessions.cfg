SPECIFICATION MCSpec
CONSTANTS
    Threshold = 3
    Window = 2
    BaseLock = 2
    MaxLock = 4
    LevelReset = 6
    MaxTime = 9
    Families = {f1}
    Requests = {1, 2}
    Instances = {1, 2}
    NoFamily = NoFamily
    Ttl = 1
    MaxTokens = 3
    MaxPasswords = 2
    MaxCrashes = 1
INVARIANTS
    AccessInv
    AttemptsAreBounded
    OldPasswordEnds
CHECK_DEADLOCK FALSE
