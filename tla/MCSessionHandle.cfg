CONSTANTS
  c1 = c1
  c2 = c2
  r1 = r1
  r2 = r2
  Comps <- MCComps
  Reqs <- MCReqs
  Main = Main
  NoOne = NoOne
SPECIFICATION Spec
SYMMETRY Symmetry
INVARIANT HandleNeverOverwritten
CHECK_DEADLOCK FALSE
