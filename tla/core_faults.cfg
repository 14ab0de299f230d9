SPECIFICATION FairSpec
CONSTANTS
  Req = {r1,r2,r3}
  NoReq = NoReq
  NoUi = {r2}
  Faults = {"crash", "restart", "blob"}
  MaxFaults = 2
  MaxUi = 1
  PluginStores = FALSE
  PluginAnswersCancel = TRUE
  Session = {s1,s2}
  Cancellable = {}
  HasIdentity = TRUE
  StorageLocked = TRUE
  InitiallyReady = TRUE
  r1 = r1
  r2 = r2
  r3 = r3
  s1 = s1
  s2 = s2
  Owner <- OwnerShared
INVARIANTS
  AnsweredOnce
  UiClosedWhenDone
PROPERTIES
  EventuallyAnswered
\* The core is destroyed when it is idle.
CHECK_DEADLOCK FALSE
