CONSTANTS
  a = a
  Units <- OnlyA
  MayFail <- OnlyA
  Endings = {"dead"}
  BusCapacity = 2
SPECIFICATION FairSpec
INVARIANTS TypeOK NothingLost
PROPERTIES Follows
