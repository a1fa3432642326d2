CONSTANTS
  NoColumn = NoColumn
  Malformed = Malformed
  MaxBatches = 3
  Limit = 11
  Words <- MCWords
  Metadata <- MCMetadata
  Payloads <- MCPayloads
  DriverCodes <- MCDriverCodes
  Contents <- MCContents
  CodeSets <- MCCodeSets
SPECIFICATION InfoFairSpec
INVARIANTS
  AnswersAgree
  FramesAgree
  InfoRowsExact
PROPERTIES
  ReadsTheStream
  ReadingEnds
CHECK_DEADLOCK FALSE
