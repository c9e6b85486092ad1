SPECIFICATION FairSpec
CONSTANTS
  Hosts = {h1, h2}
  Cfgs = {c1}
  Invalid = Invalid
  Manual = Manual
  NoCfg = NoCfg
  NoHash = NoHash
  Nobody = Nobody
  MaxId = 10
  RetrySteps = 3
  MaxLag = 0
  OtherFinalizer = TRUE
  Budgets <- SettlingBudgets
INVARIANT EditsKeepOneEach
PROPERTY EditsAbandonNothing
PROPERTY Settles
PROPERTY EditsStop
 
CHECK_DEADLOCK FALSE
