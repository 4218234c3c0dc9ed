\* A swap whose first request or its answer is lost, with one fault.
SPECIFICATION Spec
CONSTANTS
  Job = {j1}
  Extension = {e1}
  ApplicationInsights = e1
  RetryCount = 2
  KuduRetries = 1
  ProcessPolls = 2
  OperationPolls = 2
  MaxFaults = 1
CHECK_DEADLOCK FALSE
INVARIANT SlotsAreSwapped
