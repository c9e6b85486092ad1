SPECIFICATION FairSpec
CONSTANTS
  Callers = {w1, w2}
  Prober = Prober
  Free = Free
  MaxConns = 4
  Budget <- OneOfEach
INVARIANT TypeOK
INVARIANT DownAgrees
INVARIANT ClosedOnce
PROPERTY OnlyFaultedDropped
PROPERTY CallsReturn
PROPERTY ReadyAgain
PROPERTY Reconnects
