\* Two paths through the body, each with an end port of its own.
CONSTANTS
  OuterInitial = 0
  OuterBound = 1
  OuterStep = 1
  InnerInitial = 0
  InnerBound = 1
  InnerStep = 1
  BufferDepth = 1
  EndPorts = {{0, 1}}
  BreakValue = 1
  Capacity = 4
  Free = Free
SPECIFICATION Spec
INVARIANT EndAfterBody
CHECK_DEADLOCK FALSE
