CONSTANTS
  Jobs = {j1}
  Runners = {r1, r2}
  Foreign = Foreign
  NoRunner = NoRunner
  NoJob = NoJob
  Repos <- OneRepo
  RepoOf <- RepoOfMC
  Env = {"tick", "age", "lifetime", "crash", "shutdown", "dockerError", "storeError", "cancel", "redeliver", "ghCancel", "foreign"}
  MaxConcurrentRunners = 1
  QueueCap = 1
  LaunchRetryMax = 2
  TimerCap = 1
SPECIFICATION Spec
INVARIANT TypeOK
 
 
SYMMETRY Symmetry
