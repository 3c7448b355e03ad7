\* Two requests in flight against two slots, and a token that is none.
CONSTANTS
  InDepth = 2
  OutDepth = 2
  Load = {a, b}
  Pass = {e}
  Free = Free
SPECIFICATION FairSpec
INVARIANTS OneOwner AnswerHasRoom
PROPERTIES RequestKept InOrder KeepsMoving
