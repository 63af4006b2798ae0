SPECIFICATION Spec
CONSTANTS
  Old <- OneOld
  LIMIT = 1
  STEP = 50
  MaxRows = 2
  MaxLines = 3
INVARIANT TypeOK
INVARIANT EditsAreMarked
INVARIANT CopyOnDisk
PROPERTY LinesKept
PROPERTY OldLogbooksGrowNot
