SPECIFICATION FairSpec
CONSTANTS
  None = None
  Invalid = Invalid
  Garbage = Garbage
  Edited = Edited
  IntOf <- Ints
  BoolOf <- Bools
  DurationOf <- Durations
  Lower <- Lowered
  Rooted = {"/", "/health"}
  Compiles = {"team-.*"}
  Names = {"web", "blog", "api", "db"}
  Kind <- Kinds
  Namespace <- Namespaces
  Secrets = {"good"}
  Worlds <- SomeWorlds
  MaxId = 7
INVARIANT TypeOK
INVARIANT NothingLeaked
PROPERTY ScopeAsConfigured
PROPERTY Settles
PROPERTY GaugeTotals
CHECK_DEADLOCK FALSE
