SPECIFICATION FairSpec
CONSTANTS
  Ident <- PairIdent
  RootIdent = "R"
  Downstream <- PairDownstream
  History <- PairHistory
  Discarded <- PairNoHistory
  Results = {"SUCCESS", "FAILURE"}
  TriggerOn = {"SUCCESS"}
  Uncaused <- ForeignUncaused
  MaxForeign = 1
  Job <- PairJob
  Root = "r"
  NoJob = "none"
  IdentOf <- PairIdentOf
  Kids <- PairKids
  Inputs <- AnyInputs
  Plugin = TRUE
  ExitOnFailed = TRUE
  FaultKinds <- HarmlessFaults
  MaxFaults = 2
CHECK_DEADLOCK FALSE
PROPERTIES
  EventuallyVerdict
  SucceedsOnceQueued
