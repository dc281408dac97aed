SPECIFICATION RecordsSpec
CONSTANTS
  Handles = {h1}
  Files = {"f"}
  Sizes = {0, 8}
  MaxExternal = 12
  MaxTarget = 9
  MaxDescs = 3
  MaxCount = 5
  Roms <- Libraries
  Descs <- TensorDescs
  Images <- TensorImages
  Int32Max = 15
  Calls <- Creations
  Tensors = {"t"}
  Envs <- Cases
  MaxCalls = 4
  MaxHeld = 2
  Inputs <- BuildInputs
  Faults <- MallocFaults
  Plugins <- SettersMissing
  Delivered <- ModelsDelivered
  Customs <- CustomsSet
  ModelRoms <- Foundations
  Paras = {"a1", "a2"}
  MaxBatch = 2
  MaxSets = 3
  Networks <- IrNetworks
  Names = {"size"}
  AttrValues <- AttrInputs
  DataTypes = {"FLOAT", "DUAL", "QUINT8"}
  Raws <- AttrRaws
  MaxUses = 4
INVARIANTS OptionsSound BuiltModelsSound ParaSound LinksSound GraphsSound AttributesSound BuffersSound
CHECK_DEADLOCK FALSE
