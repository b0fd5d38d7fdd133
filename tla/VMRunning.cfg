SPECIFICATION Spec
CONSTANTS
  PageCount = 2
  PageBytes = 2
  Unmapped = unmapped
  Refuses = TRUE
  MaxCount = 3
  TaskRuns = TRUE
  Word = 3
INVARIANTS
  WriteInRange
PROPERTY
  CallReturns
