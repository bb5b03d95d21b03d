SPECIFICATION FairSpec
CONSTANTS
  Readers = {r1}
  Writers = {w1, w2}
  PAGE_SIZE = 2
  RING_PAGE = 2
  MaxLen = 2
  MaxBytes = 2
  Fast = TRUE
  None = None
INVARIANT TypeOK
INVARIANT BytesInOrder
INVARIANT NoSleepBesideRoom
PROPERTY SleeperWoken
