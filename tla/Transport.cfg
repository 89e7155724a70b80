SPECIFICATION Spec
CONSTANTS
    a = a
    b = b
    c = c
    None = None
    Callers = {a, b, c}
    Resident = {a, b}
    Harts = {0}
    Blocks = 2
    Written <- MCWritten
    MaxCalls = 1
CHECK_DEADLOCK FALSE
INVARIANT TypeOK
 
PROPERTY ImplementsService
PROPERTY CallsReturn
