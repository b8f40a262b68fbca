SPECIFICATION Spec
CONSTANTS
  Values = {0, 1}
  Inputs <- MCInputs
  Options <- MCOptions
INVARIANTS
  ReportsAreReal
  EarliestReported
