\* The allocation a PCR_Allocate wrote to NV.
SPECIFICATION Spec
CONSTANTS
    Handles = {h1}
    Banks = {"sha256", "sha384"}
    PCRs = {0, 16, 17}
    StateSave = {0}
    TCB = {16}
    Extendable = {0, 16}
    Resettable = {16}
    DRTM_PCR = 17
    DefaultBanks = {"sha256"}
    Selections <- MCSelections
    AllocRequests <- MCAllocRequests
    Commands <- MCCommands
    Codes = {"Create", "PolicySecret"}
    NoCode = "none"
    Digests = {"d1", "d2"}
    NoDigest = "empty"
    Localities <- MCLocalities
    SECOND = 2
    MaxTime = 3
    MaxEpoch = 2
    MaxExtends = 1
    MaxCounter = 9
    MaxAssertions = 2
    MaxTickets = 1
    Expirations = {0, 1}

INVARIANT AllocationAsRequested
