SPECIFICATION Spec
CONSTANTS
  SizeOf <- MCSizeOf
  MaxSize = 4096
  MaxHalf = 255
  ByteBase = 256
  WordBytes = 2
  HalfBytes = 2
  BloomBits = 8
  Programs <- MCPrograms
  SectionChoices <- MCSectionChoices
  SegmentChoices <- MCSegmentChoices
  EntryChoices <- MCEntryChoices
  Shstrtab <- MCShstrtab
  MaxSections = 4
  MaxSegments = 2
  MaxEntries = 2
  MaxSaves = 2
  LostCells = {0, 1, 9}
CHECK_DEADLOCK FALSE
INVARIANTS
  SavedIsLoaded
  SegmentsCarrySections
  LaidOutApart
  TablesKeepEntries
  ReferencesFollow
  SymbolsAreFound
PROPERTY ResaveKeepsImage
