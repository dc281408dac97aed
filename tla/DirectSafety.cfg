SPECIFICATION Spec
CONSTANTS
  Manager = {m1, m2}
  Reader = {}
  BuiltModel = {b1}
  Legacy = {l1, l2}
  MaxStamp = 4
  MaxDeath = 1
  None = None
SYMMETRY Symmetry
INVARIANTS
  LoadsSound
  AnswersSound
PROPERTY RunsLedger
