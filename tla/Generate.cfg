CONSTANTS
  Documents <- AllDocuments
  Nodes <- AllNodes
  Names <- AllNames
  Side <- SideOf
  Cascade = TRUE
SPECIFICATION Spec
INVARIANTS TypeOK DependenciesEnforced StartOrderExists ManifestAgrees RejectionJustified AcceptedIsAcyclic CycleIsReal ItemsOrdered RefusedForACause
