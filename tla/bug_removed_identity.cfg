SPECIFICATION Spec

CONSTANTS
  MaxId = 2
  Name = {u}
  Password = {p1, p2}
  Data = {d}
  TooLarge = {}
  Empty = Empty
  Absent = Absent
  NoRow = NoRow
  Session = {c1}
  SecretNames = {1}
  Interference = {"remove"}
  u = u
  p1 = p1
  p2 = p2
  d = d
  c1 = c1

INVARIANTS
  OnlyStoredIdentities
