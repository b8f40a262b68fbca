SPECIFICATION Spec
CONSTANTS
  None = None
  d0 = d0
  d1 = d1
  Wfi = wfi
  Data = {d0, d1}
  Reads <- MCReads
  Writes <- MCWrites
  Strobes <- MCStrobes
  Images <- MCImages
  Garbage <- MCGarbage
INVARIANTS
  TypeOK
  ReadAgreement
  WriteAgreement
  MemoryAgreement
  PinsMatchBursts
  LastAssertNeverFails
  MaskAssertOnlyForPartialBeats
PROPERTIES
  StalledBeatKeepsItsPlace
  MemorySpec
