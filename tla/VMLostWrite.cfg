SPECIFICATION Spec
CONSTANTS
  PageCount = 2
  PageBytes = 2
  Unmapped = unmapped
  Refuses = FALSE
  MaxCount = 3
  TaskRuns = TRUE
  Word = 4
INVARIANTS
  WriteCounts
