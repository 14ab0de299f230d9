SPECIFICATION Spec
CONSTANTS
  Key = {k1, k2, k3, k4}
  NoKey = NoKey
  MaxSlots = 6
  Interferences = {
    {},
    {"db"},
    {"need", "backup", "closed", "restart", "slot", "db"}}
  k1 = k1
  k2 = k2
  k3 = k3
  k4 = k4
SYMMETRY Keys
INVARIANTS
  TypeOK
  AuthorizedKeysOpen
  OpenWhileKeyed
PROPERTIES
  FormattedOnlyIfLost
