SPECIFICATION Spec
CONSTANTS
  Hosts = {h1, h2}
  Cfgs = {c1}
  Invalid = Invalid
  Manual = Manual
  NoCfg = NoCfg
  NoHash = NoHash
  Nobody = Nobody
  MaxId = 3
  RetrySteps = 2
  MaxLag = 1
  OtherFinalizer = FALSE
  Budgets <- HostileBudgets
SYMMETRY HostSymmetry
INVARIANT TypeOK
INVARIANT RecordedOwned
INVARIANT HashVouches
INVARIANT MonitorsGuarded
PROPERTY CleanRelease
PROPERTY KeepsLedger
CHECK_DEADLOCK FALSE
