CONSTANTS
  h1 = h1
  d1 = d1
  c1 = c1
  c2 = c2
  Creators <- MCCreators
  Changers = {}
  Conns <- MCConns
  NoOne = NoOne
SPECIFICATION Spec
SYMMETRY Symmetry
INVARIANTS
  TypeOK
  OneClient
  EndIsKnown
CHECK_DEADLOCK FALSE
