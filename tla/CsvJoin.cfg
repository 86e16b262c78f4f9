SPECIFICATION JoinSpec
CONSTANTS
  Inputs <- MCInputs
  NewRows <- MCNewRows
  MaxAppends = 1
  NS_PER_SEC = 8
  NS_PER_US = 2
  US_RANGE = 4
INVARIANTS
  JoinInv
  CellsRight
  DeltasMatchColumns
