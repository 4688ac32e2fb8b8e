SPECIFICATION Spec
CONSTANTS
  Labels = {a, b}
  NoLabel = none
  Instructions = {i, j}
  MaxBody = 2
  MaxWritten = 1
  StackLimit = 3
INVARIANTS TypeOK ActiveIsStack ExpansionDefinesNothing StackSuffices
PROPERTIES EveryLineEnds MeansFile
