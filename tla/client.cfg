SPECIFICATION Spec
CONSTANTS
  p1 = p1
  p2 = p2
  m1 = m1
  x1 = x1
  r1 = r1
  r2 = r2
  password = password
  Main = Main
  None = None
  Own <- TheCalls
  ProcessCall <- TheProcessCalls
  CancelCall <- TheCancelCalls
  MechanismsQuery <- TheQueries
  Reg <- TheRegistrations
  MaxEnds = 2
  Interferences <- TheInterferences
\* Once every call is made and answered nothing is left to do.
CHECK_DEADLOCK FALSE
INVARIANTS
  SessionInv
  IdentityInv
  ServiceInv
PROPERTIES
  NewsHeeded
  CallsEnd
