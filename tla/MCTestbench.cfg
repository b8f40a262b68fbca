SPECIFICATION Spec
CONSTANTS
  SizeOf <- MCSizeOf
  MaxSize = 4096
  MaxHalf = 255
  CommandLines <- MCCommandLines
  Files <- MCFiles
  Lost = {0, 1, 3}
  Dotted = {"t.vcd"}
  ByteBase = 4
  WordBytes = 2
  TOHOST_ADDR = 16
  FROMHOST_ADDR = 18
  TOHOST_DATA_ADDR = 20
  TOHOST_DATA_SIZE = 4
  SYS_write = 2
  Fill <- MCFill
  MemPins <- MCMemPins
  MmioPins <- MCMmioPins
  ResetCycles = 1
  WarmupCycles = 2
  MaxCycles = 2
  BadLimit = 2
  None = None
INVARIANTS
  ImageIsFile
  OutcomeIsRight
PROPERTY PortsShareMemory
