SPECIFICATION Spec
CONSTANTS
  Specs = {s1}
  Refused = {}
  Keys = {k1}
  NoKey = NoKey
  Manual = Manual
  NoCfg = NoCfg
  MaxId = 2
  RetrySteps = 2
  MaxLag = 1
  Budgets <- NoBudgets
INVARIANT OneMonitor
CHECK_DEADLOCK FALSE
