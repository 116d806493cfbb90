\* One delivery of a job that starts runners, with up to three runners and up
\* to three attempts at each call, under a registry that stays as it is.
SPECIFICATION FairSpec
CONSTANTS
  r1 = r1
  ubuntu = ubuntu
  latest = latest
  legacy = legacy
  exotic = exotic
  looping = looping
  acme = acme
  default = default
  orgPool = orgPool
  defaultPool = defaultPool
  Requests = {r1}
  Labels <- MCLabels
  Events <- RunnableEvents
  Orgs = {acme}
  DefaultPrefix = default
  Pools = {orgPool, defaultPool}
  Pool404 = pool404
  NoPool = noPool
  NoEvent = noEvent
  NoReply = noReply
  Aliases <- MCAliases
  Supported <- MCSupported
  Ignored <- MCIgnored
  Configs <- CallConfigs
  MaxTries = 2
  Catalogues <- FixedCatalogue
INVARIANTS
  PromiseIsKept
  AtMostOneOrphan
  ExtraBuildsNeedALoss
  LostConfigurationDooms
  BuildsAreBounded
PROPERTIES
  EveryDeliveryEnds
  HandlersProgress
  ImplementsContract
