CONSTANTS
  c1 = c1
  c2 = c2
  r1 = r1
  r2 = r2
  Comps <- MCComps
  Reqs <- MCReqs
  Main = Main
  NoOne = NoOne
SPECIFICATION FairSpec
SYMMETRY Symmetry
INVARIANTS
  TypeOK
  OneOperation
  NoOrphan
  NoControlWhenDefunct
  ConfigAppliedOrReported
PROPERTIES
  OperationEnds
  ShutdownEnds
  SpawnAfterRelease
  DefunctForever
  ImplementsLifecycle
CHECK_DEADLOCK FALSE
