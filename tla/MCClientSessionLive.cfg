CONSTANTS
  h1 = h1
  d1 = d1
  c1 = c1
  c2 = c2
  Creators <- MCCreators
  Changers <- MCChangers
  Conns = {c1}
  NoOne = NoOne
SPECIFICATION FairSpec
INVARIANT AckMeansRouted
PROPERTIES
  KickReaches
  LeaverForgotten
  DispatcherReturns
CHECK_DEADLOCK FALSE
