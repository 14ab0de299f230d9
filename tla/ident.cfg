SPECIFICATION Spec
CONSTANTS
  Object = {o1, o2}
  Client = {c1, c2}
  MaxId = 2
  Password = {p1, p2}
  UserName = {x1, x2}
  MaxRetries = 1
  None = None
  Interferences = {{}, {"dialogs", "meanwhile", "late"}, {"removed"}, {"removed", "write"}}
  p1 = p1
  x1 = x1
SYMMETRY Symmetric
CONSTRAINT Bound
CHECK_DEADLOCK FALSE
INVARIANTS
  TypeOK
  OneObjectPerIdentity
  MapIsLiveUnlessRemoved
  OrderlyAnswersAreTrue
PROPERTIES
  ClientsAreServed
