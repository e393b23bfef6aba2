CONSTANTS
  a = a
  Units <- OnlyA
  MayFail <- None
  Endings = {"dead", "failed"}
  BusCapacity = 1
SPECIFICATION Spec
INVARIANTS StoppedMeansStopped
