CONSTANTS
  Jobs = {j1}
  Runners = {r1, r2, r3}
  Foreign = Foreign
  NoRunner = NoRunner
  NoJob = NoJob
  Repos <- OneRepo
  RepoOf <- RepoOfMC
  Env = {"tick", "age", "lifetime", "launchFail", "containerCrash"}
  MaxConcurrentRunners = 2
  QueueCap = 1
  LaunchRetryMax = 2
  TimerCap = 1
SPECIFICATION Spec
INVARIANT NoDuplicateRunner
 
 
SYMMETRY Symmetry
