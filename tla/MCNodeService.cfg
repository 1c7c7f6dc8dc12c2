CONSTANTS
  r1 = r1
  r2 = r2
  a1 = a1
  NoAddr = NoAddr
  NoOne = NoOne
  Reqs <- MCReqs
  Addrs <- MCAddrs
  Workloads <- MCWorkloads
  CountToBan = 2
  SecToUnBan = 1
SPECIFICATION FairSpec
INVARIANTS
  TypeOK
  SupportedPathsMapped
  BanDeserved
  TagsConsistent
  AcceptedApplied
  ConsulAgrees
PROPERTY BanEnds
CHECK_DEADLOCK FALSE
