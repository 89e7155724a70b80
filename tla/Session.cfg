SPECIFICATION Spec
VIEW LiveState
CONSTANTS
    MAX_ACTIVE_SESSIONS = 3
    MAX_LOADED_SESSIONS = 1
    SLOT_MOD = 5
    COUNTER_MAX = 9
    MaxResets = 1
INVARIANT TypeOK
INVARIANT SlotsMatchArray
INVARIANT GapIsRecoverable
INVARIANT OnlyNewestAcceptable
INVARIANT NoReplay
PROPERTY RevivedOnlyByResume
