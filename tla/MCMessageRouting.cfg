CONSTANTS
  c1 = c1
  c2 = c2
  p1 = p1
  Conns <- MCConns
  Comps <- MCComps
  Service = Service
  Router = Router
  Client = Client
  None = None
  MaxMsgs <- MCMaxMsgs
SPECIFICATION Spec
SYMMETRY Symmetry
INVARIANTS
  TypeOK
  InOrder
  StashDelivered
  NoDangling
CHECK_DEADLOCK FALSE
