SPECIFICATION MeaningSpec
CONSTANTS
  f = f
  g = g
  KeepCode = TRUE
  Names = {"x"}
  Funs = {}
  Numbers = {2}
  Strings = {}
  StructTypes <- MCStructTypes
  Signatures = {}
  Ops = {"SUB", "LESS"}
  Kinds <- DataKinds
  Word = 15
  MaxCells = 7
  MaxDepth = 3
  MaxArray = 1
  MaxCode = 4
  Byte = 3
  TapeSize = 20
  Inputs = {0, 1}
INVARIANTS MachineTypeOK ContractsHold DirtySound ValuesRight PrintsRight
CONSTRAINT Separate
VIEW MeaningView
