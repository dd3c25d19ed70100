SPECIFICATION Spec
CONSTANTS
  k1 = k1
  k2 = k2
  k3 = k3
  s1 = s1
  Key = {k1, k2, k3}
  Stray = {s1}
  PrefixOf <- MCShared
  Admin = {a, b}
  Caller = {c}
  NoKey = NoKey
  Free = Free
  DbErrors = TRUE
SYMMETRY MCAdmins
INVARIANTS
  KeyTypeOK
  RevokedStaysOut
  HandedOutIsStored
  OneKeyPerLine
PROPERTIES
  ImplementsAccessList
