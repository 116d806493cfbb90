\* Two executions that overlap in every way while a job is looked up.
SPECIFICATION SysSpec
CONSTANTS
  x1 = x1
  x2 = x2
  steady = steady
  moving = moving
  q1 = q1
  q2 = q2
  r1 = r1
  acme = acme
  default = default
  ubuntu = ubuntu
  large = large
  here = here
  on = on
  private = private
  absent = absent
  Executions = {x1, x2}
  Projects = {steady, moving}
  Pools = {q1, q2}
  Site <- MCSite
  Servable = {q1, q2}
  Values <- MCValues
  Absent = absent
  Empty = empty
  Available = on
  Trusted = trusted
  Allowed <- MCAllowed
  Worlds <- MCWorlds
  Registries <- MCRegistries
  Labels = {ubuntu, large}
  Requests = {r1}
  Events <- MCEvents
  Orgs = {acme}
  DefaultPrefix = default
  Pool404 = pool404
  NoPool = noPool
  NoEvent = noEvent
  NoReply = noReply
  Aliases <- MCAliases
  Supported = {ubuntu, large}
  Ignored = {}
  Configs <- MCConfigs
  MaxTries = 1
CONSTRAINT LookingUp
INVARIANTS
  SysTypeOK
  StableJobsAreServed
PROPERTY
  LookupsFollowFolder
