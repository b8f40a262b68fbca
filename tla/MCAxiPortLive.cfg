SPECIFICATION FairSpec
CONSTANTS
  None = None
  d0 = d0
  d1 = d1
  Wfi = wfi
  Data = {d0}
  Reads <- LiveReads
  Writes <- LiveWrites
  Strobes <- LiveStrobes
  Images <- LiveImages
  Garbage <- MCGarbage
PROPERTIES
  ReadsServed
  WritesServed
