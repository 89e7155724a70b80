SPECIFICATION Spec
CONSTANTS
    UNASSIGNED = UNASSIGNED
    Handles = {h1, h2}
    Ordinary = {c1}
    Requests <- MCRequests
    Algs = {sha256, sha384}
    InitialAlg = sha256
    MaxCounter = 2
    AuditAfterShutdown = FALSE
VIEW Agreement
INVARIANT TypeOK
INVARIANT ExclusiveMeansAll
INVARIANT CommandLogComplete
INVARIANT OneLogPerCounter
