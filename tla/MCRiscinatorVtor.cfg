SPECIFICATION Spec
CONSTANTS
  Testbench = "vtor"
  Args = {"none", "itype", "unknown", "many"}
  Fetches <- MCFetches
  Loads <- MCLoads
  Stores <- MCStores
  Bytes = {0, 1}
  Images <- MCImages
  Expected <- MCExpected
  MemBase = 32
  MemWords = 2
  FinishAddr = 240
  MaxUnsigned = 256
  MaxSize = 4096
  MaxCycles = 2
  Repeats = 2
  None = None
INVARIANT
  ExpectedResultsPass
