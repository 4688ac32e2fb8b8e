SPECIFICATION MachineSpec
CONSTANTS
  KeepCode = TRUE
  Names = {"x"}
  Funs = {}
  Numbers = {2}
  Strings = {}
  StructTypes = {}
  Signatures = {}
  Ops = {"ADD"}
  Kinds <- LoopKinds
  Word = 16
  MaxCells = 4
  MaxDepth = 3
  MaxArray = 0
  MaxCode = 8
  Byte = 4
  TapeSize = 24
  Inputs = {0, 1}
INVARIANTS ContractsHold
