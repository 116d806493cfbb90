\* Three labels: enough for a chain of two aliases, a cycle of three, and a
\* cycle of two that is entered from outside.
SPECIFICATION StartFairSpec
CONSTANTS
  ubuntu = ubuntu
  large = large
  legacy = legacy
  Labels <- MCLabels
  Environments <- MCEnvironments
\* A start that fails ends the process.
CHECK_DEADLOCK FALSE
INVARIANTS
  LoopMeetsReference
  CanHandleIffSupported
  AliasLeadsToSupported
  StartTypeOK
  RequestsAreComplete
  HandlersGetTheirSettings
PROPERTIES
  EveryLabelSettles
