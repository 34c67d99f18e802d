SPECIFICATION FairSpec
CONSTANTS
  ChunkSize = 2
  HeaderSizes = {2, 3}
  TextSizes = {1, 2}
  FileSizes = {0, 2, 3}
  MaxChanges = 2
CHECK_DEADLOCK FALSE
INVARIANTS
  TypeOK
  SourceLeft
  HeaderFirst
  AnnouncedIsSent
  TwoWrites
  ListsOnlyIfAllowed
  AbortsOnlyOnRace
PROPERTIES
  Finishes
