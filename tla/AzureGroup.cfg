\* Two machines, all actions, and one failure or expired token.
SPECIFICATION FairSpec
CONSTANTS
  v1 = v1
  v2 = v2
  main = main
  VM = {v1, v2}
  Main = main
  Call <- MCCall
  RetryCount = 2
  RetryLimit = 1
  Schemes = {"ServicePrincipal", "ManagedServiceIdentity"}
  Actions <- AllActions
  Listings <- TwoPages
  Fleets <- OffAndBroken
  MaxFaults = 1
CHECK_DEADLOCK FALSE
INVARIANTS
  TypeOK
  SuccessIsReal
  VerdictIsComplete
  ExpiryIsSurvived
  RepeatsAreLost
  DeploymentIsOver
PROPERTIES
  EventuallyVerdict
