SPECIFICATION Spec
CONSTANTS
  Kinds <- MCKinds
  Entries <- MCEntries
  Totals <- MCTotals
  Capacity = 4
  Output = 3
  Places <- MCPlaces
  Short <- MCShort
  Garbage <- MCGarbage
  MaxRows = 3
  MaxLines <- MCLines
  MaxTotal = 4
INVARIANT TypeOK
PROPERTIES TotalsAddUp DeletionKeepsEntries
CHECK_DEADLOCK FALSE
