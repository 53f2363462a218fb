\* Four rows, the first batch of one row and then two at most; more batches
\* allowed than the rows need; every aftermath of a reset.
CONSTANTS
  c1 = c1
  c2 = c2
  x = x
  y = y
  None = None
  Column <- MCColumn
  Value <- MCValue
  Table <- MCTable
  CursorId = {1, 2}
  PrefetchRows = 1
  DefaultPrefetch = 1
  RowSize = 2
  BatchSize = 3
  MaxRowsPerFetch = 3
  MaxBatches = 5
  MaxPauses = 1
  Aftermaths = {"closed", "rest", "ok", "error"}
SPECIFICATION FairSpec
INVARIANTS TypeOK InStep CursorKnown
PROPERTIES ImplementsStream QueryEnds
