SPECIFICATION FairSpec
CONSTANTS
  Hosts = {h1}
  Cfgs = {c1, c2}
  Invalid = Invalid
  Manual = Manual
  NoCfg = NoCfg
  NoHash = NoHash
  Nobody = Nobody
  MaxId = 3
  RetrySteps = 3
  MaxLag = 0
  OtherFinalizer = FALSE
  Budgets <- GoneBudgets
PROPERTY Settles
CHECK_DEADLOCK FALSE
