\* All eight providers with and without the inputs, two requests that fail;
\* every loop has a round that is repeated and a last one.
SPECIFICATION FairSpec
CONSTANTS
  RetryCount = 2
  KuduRetries = 1
  MonitorPolls = 2
  FilePolls = 2
  DeployRetries = 2
  MaxFaults = 2
CHECK_DEADLOCK FALSE
INVARIANTS TypeOK SyncIsOffline SuccessIsComplete ScriptAfterSync
PROPERTY EventuallyEnded
