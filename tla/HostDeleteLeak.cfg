SPECIFICATION Spec
CONSTANTS
  Hosts = {h1}
  Cfgs = {c1}
  Invalid = Invalid
  Manual = Manual
  NoCfg = NoCfg
  NoHash = NoHash
  Nobody = Nobody
  MaxId = 3
  RetrySteps = 3
  MaxLag = 0
  OtherFinalizer = FALSE
  Budgets <- DeleteBudgets
SYMMETRY HostSymmetry
INVARIANT NoOrphan
CHECK_DEADLOCK FALSE
