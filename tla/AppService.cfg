\* Every action, with two faults; a swap and a restart of Kudu take two rounds or more.
SPECIFICATION FairSpec
CONSTANTS
  Job = {j1, j2}
  Extension = {e1, e2}
  ApplicationInsights = e1
  RetryCount = 2
  KuduRetries = 1
  ProcessPolls = 2
  OperationPolls = 2
  MaxFaults = 2
CHECK_DEADLOCK FALSE
INVARIANTS TypeOK SuccessIsReal SwappedOnce
PROPERTY EventuallyEnded
