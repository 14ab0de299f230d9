SPECIFICATION Spec
CONSTANTS
  o1 = o1
  o2 = o2
  Unset = Unset
  Off = Off
  Object <- MCObject
  Setting <- MCSetting
  Environment <- MCEnvironment
  Disorders <- MCDisorders
  Interferences <- MCInterferences
  MaxCalls = 4
  MaxSignals = 2
  MaxPages = 3
  MaxRequests = 3
  MaxSends = 5
\* The process ends; the bounds end the answers.
CHECK_DEADLOCK FALSE
INVARIANTS
  LifeInv
  PipeInv
PROPERTIES
  EndsWhenDue
  Answered
