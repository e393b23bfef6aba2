CONSTANTS
  a = a
  b = b
  Units <- TwoUnits
  Groups <- OnlyB
  Requires <- BFollowsA
  Policy <- ARestarts
  Burst = 1
  RestartSec = 1
  NoTimeout <- OnlyB
  Timeout <- OneTick
  MayEnd <- OnlyA
  BusCapacity = 1
  Mode = "BASIC"
  Default = 1
  Prompt = FALSE
  ReadFails <- None
  EarlySubs <- AMayBeUp
  Torn <- None
SPECIFICATION Spec
INVARIANTS TypeOK PhaseCurrent NoNewsLost 
PROPERTIES KeepsPromise
