SPECIFICATION MemorySpec
CONSTANTS
  PageCount = 4
  PageBytes = 2
  Unmapped = unmapped
  Refuses = TRUE
  MaxCount = 5
  MaxDispositions = 2
  IntLimit = 4
  TaskRuns = FALSE
  Word = 4
INVARIANTS
  TypeOK
  WriteCounts
  WriteStopsAtHole
  ReadIsMaximal
  ProtectionsRestored
  InfoExact
  DirtyPagesExact
PROPERTY
  WalkEnds
