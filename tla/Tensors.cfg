CONSTANTS
  CubeSize = 4
  Int8C0 = 8
  Int32Max = 1023
  MaxCount = 960
  AlignSize = 32
  DimMax = 8
  WordBits = 4
SPECIFICATION Spec
INVARIANTS SizesSound LayoutSound NumbersExact AippSound TransferSound ModelsRestored
CHECK_DEADLOCK FALSE
