\* Four outer values, four inner ones each, and a body of one slow path.
CONSTANTS
  OuterInitial = 0
  OuterBound = 3
  OuterStep = 1
  InnerInitial = 1
  InnerBound = 6
  InnerStep = 2
  BufferDepth = 1
  EndPorts = {{0}, {0, 4}}
  BreakValue = 3
  Capacity = 3
  Free = Free
SPECIFICATION FairSpec
INVARIANTS TypeOK PassedHasRoom EndAfterBody
PROPERTIES CountsIterations Terminates
CHECK_DEADLOCK FALSE
