\* One consumer that the configuration lists before the source: a back edge.
CONSTANTS
  Depth = 2
  Token = {a, b}
  Free = Free
  Before = {c1}
  After = {}
  Watched = c1
SPECIFICATION Spec
INVARIANT BackNeverRefused
