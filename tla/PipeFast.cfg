SPECIFICATION Spec
CONSTANTS
  Readers = {r1, r2}
  Writers = {w1}
  PAGE_SIZE = 2
  RING_PAGE = 2
  MaxLen = 2
  MaxBytes = 4
  Fast = TRUE
  None = None
INVARIANT FastMovesAll
