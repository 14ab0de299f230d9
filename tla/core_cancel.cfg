SPECIFICATION FairSpec
CONSTANTS
  Req = {r1,r2,r3}
  NoReq = NoReq
  NoUi = {r1,r2}
  Faults = {}
  MaxFaults = 1
  MaxUi = 2
  PluginStores = TRUE
  PluginAnswersCancel = TRUE
  Session = {s1,s2}
  Cancellable = {s1, s2}
  HasIdentity = TRUE
  StorageLocked = TRUE
  InitiallyReady = FALSE
  r1 = r1
  r2 = r2
  r3 = r3
  s1 = s1
  s2 = s2
  Owner <- OwnerShared
INVARIANTS
  TypeOK
  NoStall
  CoreActsInTime
  RequestsKeptApart
PROPERTIES
  ImplementsRequestQueue
  DestroyLosesNothing
  EventuallyAnswered
\* The core is destroyed when it is idle.
CHECK_DEADLOCK FALSE
