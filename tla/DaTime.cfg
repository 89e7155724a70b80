SPECIFICATION Spec
VIEW LiveWithHistories
CONSTANTS
    SECOND = 2
    INTERVAL = 2
    TIME_MOD = 64
    TRIES_MOD = 8
    CLOCK_LIMIT = 3
    MaxTriesValues <- OneLimit
    RecoveryTimes <- OneTime
    LockoutRecoveries <- OneTime
    DefaultMaxTries = 2
    DefaultRecovery = 1
    DefaultLockoutRecovery = 1
    LockoutPolicy = FALSE
    CleanShutdown = TRUE
    MaxPowered = 4
INVARIANT HealingIsPaid
INVARIANT LockoutWaits
INVARIANT SafeClock
