\* The 404 runner on a server that has 404 switched off, when neither key of the
\* job's label is in the registry.
SPECIFICATION Spec
CONSTANTS
  r1 = r1
  ubuntu = ubuntu
  latest = latest
  legacy = legacy
  exotic = exotic
  looping = looping
  acme = acme
  default = default
  orgPool = orgPool
  defaultPool = defaultPool
  Requests = {r1}
  Labels <- MCLabels
  Events <- MCEvents
  Orgs = {acme}
  DefaultPrefix = default
  Pools = {orgPool, defaultPool}
  Pool404 = pool404
  NoPool = noPool
  NoEvent = noEvent
  NoReply = noReply
  Aliases <- MCAliases
  Supported <- MCSupported
  Ignored <- MCIgnored
  Configs <- RegistryConfigs
  MaxTries = 1
  Catalogues <- EmptyCatalogue
INVARIANT
  No404UnlessEnabled
