\* nop in mode break_pre: an ALU of depth 0 that waits for two operands.
CONSTANTS
  Value = {0, 1, 2, 3}
  Alu <- Compute
  Configs <- NopConfig
  Free = Free
  OutDepth = 1
SPECIFICATION Spec
INVARIANT NeverRefused
