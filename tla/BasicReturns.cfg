CONSTANTS
  a = a
  b = b
  Units <- TwoUnits
  Groups <- None
  Requires <- BFollowsA
  Policy <- AllAbort
  Burst = 1
  RestartSec = 1
  NoTimeout <- None
  Timeout <- OneTick
  MayEnd <- None
  BusCapacity = 1
  Mode = "BASIC"
  Default = 1
  Prompt = FALSE
  ReadFails <- None
  EarlySubs <- AMayBeStarting
  Torn <- None
SPECIFICATION BasicSpec
INVARIANTS Patience
PROPERTIES RunReturns
