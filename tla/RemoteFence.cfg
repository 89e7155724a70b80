SPECIFICATION Spec
CONSTANTS
    Harts = {0, 1, 2}
    Asids = {0, 1}
    Vmids = {0}
    ADDR_MOD = 8
    PAGE_SIZE = 2
    NumEntries = 1
    Free = Free
    FlushLimit = 2
    Requests <- Few
    Masks <- Chosen
    IpiSenders = {2}
    MaxCalls = 1
CHECK_DEADLOCK FALSE
INVARIANT TypeOK
INVARIANT NoLostWakeup
PROPERTY ImplementsService
PROPERTY CallsReturn

