SPECIFICATION Spec

CONSTANTS
  Key = {k1, k2, k3}
  NoKey = NoKey
  MaxSlots = 4
  Interferences = {{"restart"}}
  k1 = k1
  k2 = k2
  k3 = k3

INVARIANTS
  RevokedKeysAreOut
