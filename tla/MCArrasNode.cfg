CONSTANTS
  r1 = r1
  m1 = m1
  s1 = s1
  Reqs <- MCReqs
  Modifiers <- MCModifiers
  Sessions <- MCSessions
  RouterLost = RouterLost
  NoOne = NoOne
SPECIFICATION FairSpec
INVARIANTS
  TypeOK
  ShutdownAllComplete
  EventsNotDropped
  DeregisteredAtExit
PROPERTY StopHonoured
CHECK_DEADLOCK FALSE
