\* One output feeding a consumer listed before it and two listed after it,
\* in both stall modes.
CONSTANTS
  Depth = 2
  Token = {a, b}
  Free = Free
  Before = {c1}
  After = {c2, c3}
  Watched = c2
SPECIFICATION SpecModes
INVARIANTS BuffersConsistent ForwardNeverRefused
PROPERTIES LinkIsStream CreditReturns StoredAtOnce
