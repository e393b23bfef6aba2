CONSTANTS
  Documents <- AllDocuments
  Nodes <- AllNodes
  Names <- AllNames
  Side <- SideOf
  Cascade = TRUE
SPECIFICATION Spec
INVARIANT StrataAcyclic
