SPECIFICATION Spec
CONSTANTS
  User = {u1, u2}
  Name = {n1, n2}
  Manager = {k1, k2, k3}
  Listener = {l1}
  Run = {r1, r2}
  MaxInit = 2
  MaxList = 2
  ID_OFFSET = 5
  None = None
SYMMETRY Symmetry
INVARIANT StampsUnique
