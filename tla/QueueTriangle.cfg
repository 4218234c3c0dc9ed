SPECIFICATION TriangleRunSpec
CONSTANTS
  Ident <- TriangleIdent
  RootIdent = "R"
  Downstream <- TriangleDownstream
  History <- TriangleNoHistory
  Discarded <- TriangleNoHistory
  Results = {"SUCCESS", "FAILURE"}
  TriggerOn = {"SUCCESS"}
  Uncaused = {}
  MaxForeign = 0
  Job <- TriangleJob
  Root = "r"
  NoJob = "none"
  IdentOf <- TriangleIdentOf
  Kids <- TriangleKids
  Inputs <- Captured
  Plugin = FALSE
  ExitOnFailed = TRUE
  FaultKinds <- AllFaults
  MaxFaults = 1
CHECK_DEADLOCK FALSE
INVARIANTS
  NoOrphans
  FailureIsReported
