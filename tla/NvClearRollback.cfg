SPECIFICATION Spec
CONSTANTS
  a = a
  b = b
  p = p
  None = None
  Handles = {a, b}
  Persistent = {p}
  Templates <- OwnersOrderlyCounter
  Values = {1}
  OrderlyMod = 2
  MaxCount = 5
  MaxChain = 1
  NvSize = 9
  RamSize = 4
  NvHeader = 2
  RamHeader = 1
  EvictSize = 2
  Terminator = 1
  CounterData = 1
  MIN_EVICT_OBJECTS = 1
  MIN_COUNTER_INDICES = 1
PROPERTY NewCounterAboveDeleted
