SPECIFICATION Spec
CONSTANTS
  Testbench = "arcs"
  Args = {"none", "itype", "unknown", "many"}
  Fetches <- MCFetches
  Loads <- MCLoads
  Stores <- MCStores
  Bytes = {0, 1}
  Images <- MCImages
  Expected <- MCExpected
  MemBase = 32
  MemWords = 2
  FinishAddr = 240
  MaxUnsigned = 256
  MaxSize = 4096
  MaxCycles = 3
  Repeats = 2
  None = None
INVARIANTS
  AnswersAreDue
  MemoryAgrees
  AssertMeansOutside
  VerdictIsRight
