CONSTANTS
  Cursor = {c1, c2}
  Result <- MCResult
  Text <- MCText
  Size = {0, 2}
  MaxMany = 2
  MaxChanges = 1
SYMMETRY MCSymmetry
SPECIFICATION Spec
INVARIANTS TypeOK DeliversOwnRows SendsOwnStatement ReturnedMeansDurable
