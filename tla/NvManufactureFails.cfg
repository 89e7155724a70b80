SPECIFICATION Spec
CONSTANTS
    MaxSeed = 1
    Faults <- WriteFault
    FirstSizes <- NoFile
INVARIANT StartsManufactured
