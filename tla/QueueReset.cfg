SPECIFICATION FairSpec
CONSTANTS
  Ident <- PairIdent
  RootIdent = "R"
  Downstream <- PairDownstream
  History <- PairNoHistory
  Discarded <- PairNoHistory
  Results = {"SUCCESS"}
  TriggerOn = {"SUCCESS"}
  Uncaused = {}
  MaxForeign = 0
  Job <- PairJob
  Root = "r"
  NoJob = "none"
  IdentOf <- PairIdentOf
  Kids <- PairKids
  Inputs <- Captured
  Plugin = FALSE
  ExitOnFailed = TRUE
  FaultKinds <- ResetFaults
  MaxFaults = 1
CHECK_DEADLOCK FALSE
PROPERTIES
  EventuallyVerdict
