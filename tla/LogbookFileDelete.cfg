SPECIFICATION Spec
CONSTANTS
  Old <- OneOld
  LIMIT = 499
  STEP = 50
  MaxRows = 3
  MaxLines = 3
PROPERTY DeletesTheNamedRow
