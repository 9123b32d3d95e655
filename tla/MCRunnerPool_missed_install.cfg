CONSTANTS
  Jobs = {j1}
  Runners = {r1}
  Foreign = Foreign
  NoRunner = NoRunner
  NoJob = NoJob
  Repos <- OneRepo
  RepoOf <- RepoOfMC
  Env = {"install"}
  MaxConcurrentRunners = 1
  QueueCap = 1
  LaunchRetryMax = 2
  TimerCap = 1
SPECIFICATION Spec
PROPERTY FallbackSparesInstalled
