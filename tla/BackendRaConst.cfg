SPECIFICATION Spec
CONSTANTS
  KeepCode = TRUE
  Programs <- FarDest
  Inputs = {0}
PROPERTIES MeansIR
