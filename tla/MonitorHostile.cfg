SPECIFICATION Spec
CONSTANTS
  Specs = {s1, s2}
  Refused = {}
  Keys = {k1}
  NoKey = NoKey
  Manual = Manual
  NoCfg = NoCfg
  MaxId = 3
  RetrySteps = 2
  MaxLag = 1
  Budgets <- HostileBudgets
SYMMETRY SpecSymmetry
INVARIANT TypeOK
INVARIANT GenerationVouches
INVARIANT MonitorGuarded
PROPERTY KeepsLedger
CHECK_DEADLOCK FALSE
