\* The first store is left waiting by the LSU.
CONSTANTS
  Depth = 3
  Data = {a, b}
  Pass = {}
  Free = Free
  GoodStart = FALSE
SPECIFICATION Spec
PROPERTY StoreKept
