SPECIFICATION Spec
CONSTANTS
  Node = {dataA, dataB, config, source, cOp, oOp, nextIt, other}
  dataA = dataA
  dataB = dataB
  config = config
  source = source
  cOp = cOp
  oOp = oOp
  nextIt = nextIt
  other = other
  Edge <- MCEdge
  Store <- MCStore
  Order <- MCOrder
  Kind <- MCKind
  SIZE_MAX = 15
  None = None
INVARIANTS
  TypeOK
  SortedIsTopological
  InputsInOrder
  FailureJustified
  ListedOnce
