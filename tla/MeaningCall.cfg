SPECIFICATION MeaningSpec
CONSTANTS
  KeepCode = TRUE
  Names = {"x", "y"}
  f = f
  g = g
  Funs = {f, g}
  Numbers = {1}
  Strings = {}
  StructTypes = {}
  Signatures <- MCSignatures
  Ops = {}
  Kinds <- CallKinds
  Word = 16
  MaxCells = 5
  MaxDepth = 4
  MaxArray = 0
  MaxCode = 4
  Byte = 2
  TapeSize = 20
  Inputs = {0, 1}
INVARIANTS ContractsHold ValuesRight VariablesDisjoint
PROPERTIES CallsIsolated
VIEW MeaningView
SYMMETRY FunSymmetry
