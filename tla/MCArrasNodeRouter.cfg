CONSTANTS
  r1 = r1
  m1 = m1
  s1 = s1
  Reqs <- MCReqs
  Modifiers <- MCModifiers
  Sessions <- MCSessions
  RouterLost = RouterLost
  NoOne = NoOne
SPECIFICATION FairSpec
PROPERTY LostRouterStops
CHECK_DEADLOCK FALSE
