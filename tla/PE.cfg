\* Elements that break out of a loop and that multiply.
CONSTANTS
  Value = {0, 1, 2, 3}
  Alu <- Compute
  Configs <- PassConfigs
  Free = Free
  OutDepth = 1
SPECIFICATION FairSpec
INVARIANTS TypeOK NeverRefused PipelineInOrder
PROPERTIES PairsOperands CreditReturns
