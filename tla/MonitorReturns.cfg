CONSTANTS
  a = a
  b = b
  Units <- OnlyA
  Groups <- None
  Requires <- Alone
  Policy <- AllRestart
  Burst = 2
  RestartSec = 1
  NoTimeout <- None
  Timeout <- OneTick
  MayEnd <- OnlyA
  BusCapacity = 1
  Mode = "MONITOR"
  Default = 1
  Prompt = FALSE
  ReadFails <- None
  EarlySubs <- AMayBeUp
  Torn <- OnlyA
SPECIFICATION MonitorSpec
 
PROPERTIES RunReturns 
