\* One machine and no failing request.
SPECIFICATION Spec
CONSTANTS
  v1 = v1
  v2 = v2
  main = main
  VM = {v1, v2}
  Main = main
  Call <- MCCall
  RetryCount = 2
  RetryLimit = 1
  Schemes = {"ServicePrincipal"}
  Actions = {"Delete"}
  Listings <- OnePage
  Fleets <- OffAndBroken
  MaxFaults = 0
CHECK_DEADLOCK FALSE
PROPERTIES
  DeletedIsGone
