SPECIFICATION DSpec
CONSTANTS
  FAT_SECTORS = 2
  LastCluster = 4
  SectorEntries = 3
  EOC = 65535
  NUM_FATS = 2
  RootEntries = 2
  d1 = d1
  d2 = d2
  Chunks = {d1, d2}
  Zero = d1
  Contents <- MCContents
  Names <- MCNames
  Names83 <- MCNames83
  GivenName <- MCGiven
  Upper <- MCUpper
  BaseLen = 2
  ExtLen = 1
  MaxFiles = 2
  MaxNodes = 2
  MaxCalls = 4
  Nothing = none
  MaxFaults = 1
CONSTRAINT Bounded
INVARIANTS FilesIntact NamesUnique NoLeak OpenReads
