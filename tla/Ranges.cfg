SPECIFICATION Spec
CONSTANTS
  None = None
  Blank = Blank
  NotInt = NotInt
  Unsatisfiable = Unsatisfiable
  MaxTotal = 5
  MaxOffset = 6
  ChunkSize = 2
INVARIANTS
  TypeOK
  ParserIsExact
  BodyMeetsAnswer
  ShotNeedsWholeFile
