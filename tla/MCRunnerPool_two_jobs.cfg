CONSTANTS
  Jobs = {j1, j2}
  Runners = {r1, r2}
  Foreign = Foreign
  NoRunner = NoRunner
  NoJob = NoJob
  Repos <- OneRepo
  RepoOf <- RepoOfMC
  Env = {"tick", "containerCrash"}
  MaxConcurrentRunners = 1
  QueueCap = 1
  LaunchRetryMax = 2
  TimerCap = 1
SPECIFICATION Spec
INVARIANT CapRespected
PROPERTY CapSlotsSpec
SYMMETRY Symmetry
