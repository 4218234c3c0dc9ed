\* Two steps and a wait: builds registered, waited for or left alone, a timeout
\* or none, one request of each phase that fails.
SPECIFICATION FairPipelineSpec
CONSTANTS
  b1 = b1
  b2 = b2
  Build <- MCBuild
  Outcomes <- MCOutcomes
  Timed = {TRUE, FALSE}
  Cancelling = TRUE
  FaultKinds = {"get", "timeline", "update"}
  MaxFaults = 1
  MaxAsked = 2
  MaxCalls = 1
  Steps <- TwoSteps
  Modes <- MCModes
  MaxMishaps = 1
INVARIANTS PipelineTypeOK SuccessIsWhole
PROPERTY EventuallyEnded
CHECK_DEADLOCK FALSE
