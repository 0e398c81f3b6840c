SPECIFICATION ExecFairSpec
CONSTANTS
  Calls <- MCCalls
  Workloads <- MCWorkloads
  MaxConcurrentSSH = 1
  sshMaxRetries = 1
PROPERTIES KeepsPromise CallsReturn
