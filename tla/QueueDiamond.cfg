SPECIFICATION Spec
CONSTANTS
  Ident <- DiamondIdent
  RootIdent = "R"
  Downstream <- DiamondDownstream
  History <- DiamondNoHistory
  Discarded <- DiamondNoHistory
  Results = {"SUCCESS"}
  TriggerOn = {"SUCCESS"}
  Uncaused = {}
  MaxForeign = 0
  Job <- DiamondJob
  Root = "r"
  NoJob = "none"
  IdentOf <- DiamondIdentOf
  Kids <- DiamondKids
  Inputs <- Captured
  Plugin = FALSE
  ExitOnFailed = TRUE
  FaultKinds = {}
  MaxFaults = 0
CHECK_DEADLOCK FALSE
INVARIANTS
  TypeOK
  OneConsoleWriter
  OneTrackerPerBuild
  OneMainJob
  FollowsItsCause
  SuccessCoversPipeline
PROPERTIES
  LifecycleSpec
  KnowledgeIsKept
