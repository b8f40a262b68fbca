SPECIFICATION Spec
CONSTANTS
  None = None
  States <- MCStates
  PowerOn = 1
  ResetState = 0
  Inputs <- MCInputs
  NoInput = "idle"
  Ports <- MCPorts
  Output <- MCOutput
  Step <- MCStep
  ExitStates = {3}
  ResetCycles = 1
  WarmupCycles = 2
  MaxCycles = 5
INVARIANTS
  TypeOK
  NoFalseAlarm
  DivergenceEndsRun
  VerdictIsRight
