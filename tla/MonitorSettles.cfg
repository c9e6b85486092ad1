SPECIFICATION FairSpec
CONSTANTS
  Specs = {s1, s2, s3}
  Refused = {s3}
  Keys = {k1, k2}
  NoKey = NoKey
  Manual = Manual
  NoCfg = NoCfg
  MaxId = 8
  RetrySteps = 4
  MaxLag = 0
  Budgets <- SettlingBudgets
INVARIANT NoOrphan
PROPERTY Settles
PROPERTY EditsStop
PROPERTY WritesStop
PROPERTY ReadyTruthful
CHECK_DEADLOCK FALSE
