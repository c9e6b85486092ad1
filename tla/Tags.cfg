SPECIFICATION FairSpec
CONSTANTS
  ingress = ingress
  service = service
  m1 = m1
  m2 = m2
  m3 = m3
  team = team
  env = env
  Nameless = Nameless
  Controllers = {ingress, service}
  Monitors = {m1, m2, m3}
  Owner <- Owners
  Names = {team, env}
  DefaultTags <- NoDefaults
  Inferred = {env}
  Requests <- Asks
  OldTags = 0
  MaxTags = 5
  Budgets <- OneAtATime
INVARIANT TypeOK
INVARIANT FewPerName
PROPERTY KeepsNames
PROPERTY TagsSettle
