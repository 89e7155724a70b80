SPECIFICATION Spec
VIEW Live
CONSTANTS
    SECOND = 1
    INTERVAL = 4
    TIME_MOD = 64
    TRIES_MOD = 8
    CLOCK_LIMIT = 0
    MaxTriesValues <- TwoLimits
    RecoveryTimes <- ZeroOrOne
    LockoutRecoveries <- ZeroOrOne
    DefaultMaxTries = 2
    DefaultRecovery = 1
    DefaultLockoutRecovery = 1
    LockoutPolicy = FALSE
    CleanShutdown = FALSE
    MaxPowered = 3
INVARIANT TypeOK
INVARIANT LockoutAssertion
