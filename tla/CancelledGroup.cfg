CONSTANTS
  a = a
  b = b
  Units <- TwoUnits
  Groups <- OnlyB
  Requires <- BFollowsA
  Policy <- AllAbort
  Burst = 1
  RestartSec = 1
  NoTimeout <- OnlyB
  Timeout <- OneTick
  MayEnd <- None
  BusCapacity = 1
  Mode = "BASIC"
  Default = 1
  Prompt = TRUE
  ReadFails <- None
  EarlySubs <- AllDead
  Torn <- None
SPECIFICATION BasicSpec
PROPERTIES RunReturns
