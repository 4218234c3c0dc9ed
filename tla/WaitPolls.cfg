\* Two builds, one of which can succeed in part; a timeout or none; one request
\* that fails; up to two overlapping requests for each build, and up to two
\* calls that cancel the rest.
SPECIFICATION Spec
CONSTANTS
  Build = {b1, b2}
  Partly = {b1}
  Outcomes <- MCOutcomes
  Timed = {TRUE, FALSE}
  Cancelling = TRUE
  FaultKinds = {"connect", "get", "timeline", "update"}
  MaxFaults = 1
  MaxAsked = 2
  MaxCalls = 2
INVARIANTS TypeOK SuccessIsEarned RemovedIsOver ChainIsCancelled
PROPERTY VerdictStands
CHECK_DEADLOCK FALSE
