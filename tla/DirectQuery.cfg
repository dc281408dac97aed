SPECIFICATION Spec
CONSTANTS
  Manager = {m1}
  Reader = {r1, r2}
  BuiltModel = {b1}
  Legacy = {l1, l2, l3}
  MaxStamp = 3
  MaxDeath = 1
  None = None
SYMMETRY Symmetry
INVARIANTS
  TypeOK
  LegacySound
