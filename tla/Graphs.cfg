SPECIFICATION Spec
CONSTANTS
  Graph = {main, sub}
  main = main
  sub = sub
  Node = {dat, wgt, sum, act, cast, net}
  dat = dat
  wgt = wgt
  sum = sum
  act = act
  cast = cast
  net = net
  None = None
  Kind <- MCKind
  Ins <- MCIns
  Outs <- MCOuts
  Address <- MCAddress
  Start <- MCStart
  Edge <- MCEdge
  Lists <- MCLists
  MAX_CALLS = 3
CHECK_DEADLOCK FALSE
INVARIANTS
  TypeOK
  StructureSound
PROPERTIES
  
  PruneKeepsOutputs
