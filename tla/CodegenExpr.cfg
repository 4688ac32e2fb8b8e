SPECIFICATION Spec
CONSTANTS
  f = f
  g = g
  KeepCode = TRUE
  Names = {"x"}
  Funs = {}
  Numbers = {0, 1}
  Strings = {}
  StructTypes = {}
  Signatures = {}
  Ops <- ExprOps
  Kinds <- ExprForms
  Word = 16
  MaxCells = 8
  MaxDepth = 4
  MaxArray = 1
  MaxCode = 1000
INVARIANTS TypeOK ScratchZero TempsOwned
PROPERTIES StatementsReclaim HeldUntouched ExpressionsReadOnly
VIEW StateView
