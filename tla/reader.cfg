SPECIFICATION Spec
CONSTANTS
  MaxMethod = 2
  Asked <- MCAsked
  Damages = {"G", "SP", "CR", "LF", "%", ":"}
  ChunkSize = 5
  MaxHeader = 38
  IntMax = 7
CHECK_DEADLOCK FALSE
INVARIANTS
  TypeOK
  PiecesDoNotMatter
  SaysWhatWasMeant
  OffsetsInside
  BodyIsTheRest
PROPERTIES
  KeepsContract
