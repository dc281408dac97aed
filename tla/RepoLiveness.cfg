SPECIFICATION FairSpec
CONSTANTS
  Thread = {t1, t2}
  Object = {o1, o2, o3}
  Model = {m1}
  Table = {tab1}
  File = {f1}
  Device <- Broken
  Supported <- AllTypes
  V1 = V1
  None = None
  f1 = f1
  f2 = f2
  tab1 = tab1
  tab2 = tab2
  FileOf <- OneFile
PROPERTY CallEnds
