\* Two executions that overlap in every way, while a project changes.
SPECIFICATION Spec
CONSTANTS
  x1 = x1
  x2 = x2
  steady = steady
  moving = moving
  q1 = q1
  q2 = q2
  q3 = q3
  acme = acme
  ubuntu = ubuntu
  large = large
  here = here
  there = there
  on = on
  off = off
  trusted = trusted
  private = private
  vetted = vetted
  rogue = rogue
  absent = absent
  empty = empty
  Executions = {x1, x2}
  Projects = {steady, moving}
  Pools = {q1, q2, q3}
  Site <- MCSite
  Servable = {q1, q2, q3}
  Values <- MCValues
  Absent = absent
  Empty = empty
  Available = on
  Trusted = trusted
  Allowed <- MCAllowed
  Worlds <- FewWorlds
  Registries <- MCRegistries
INVARIANTS
  UndisturbedRunIsExact
  StaleKeysNeedOverlap
PROPERTIES
  PermanentPoolsStay
  RepairsLast
  RegistryConverges
