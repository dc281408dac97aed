SPECIFICATION FairSpec
CONSTANTS
  Manager = {m1, m2}
  Reader = {}
  BuiltModel = {b1}
  Legacy = {l1, l2}
  MaxStamp = 2
  MaxDeath = 1
  None = None
PROPERTY CallsReturn
