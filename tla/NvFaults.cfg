SPECIFICATION Spec
CONSTANTS
    MaxSeed = 1
    Faults <- AllFaults
    FirstSizes <- AnyFile
INVARIANT TypeOK
INVARIANT Durable
INVARIANT CardKeepsPromise
INVARIANT SavedStateIsCurrent
INVARIANT StartsFromWhole
PROPERTY Answers
