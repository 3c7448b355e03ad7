\* Three slots; the first store is accepted at once, the others in their time.
CONSTANTS
  Depth = 3
  Data = {a, b}
  Pass = {e}
  Free = Free
  GoodStart = TRUE
SPECIFICATION FairSpec
INVARIANTS NothingLost
PROPERTIES StoreKept PairedInOrder KeepsMoving
