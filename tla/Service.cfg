\* One delivery of any event, under every combination of settings, while the
\* registry changes at will and GitHub disposes of the job and its runners.
SPECIFICATION ServiceSpec
CONSTANTS
  r1 = r1
  j1 = j1
  runsOn = runsOn
  Jobs = {j1}
  JobOf <- MCJobOf
  ClassOf <- MCClassOf
  NoRunner = noRunner
  ubuntu = ubuntu
  latest = latest
  legacy = legacy
  exotic = exotic
  looping = looping
  acme = acme
  default = default
  orgPool = orgPool
  defaultPool = defaultPool
  Requests = {r1}
  Labels <- MCLabels
  Events <- MCEvents
  Orgs = {acme}
  DefaultPrefix = default
  Pools = {orgPool, defaultPool}
  Pool404 = pool404
  NoPool = noPool
  NoEvent = noEvent
  NoReply = noReply
  Aliases <- MCAliases
  Supported <- MCSupported
  Ignored <- MCIgnored
  Configs <- PlacementConfigs
  MaxTries = 1
  Catalogues <- MCCatalogues
INVARIANTS
  ServiceTypeOK
  PlacementIsJustified
  RunnersOnlyForEligibleJobs
PROPERTY
  ImplementsFleet
