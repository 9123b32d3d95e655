CONSTANTS
  Users = {u1}
  Slots = {s1, s2}
  Requests = {q1, q2}
  NoSlot = NoSlot
  Idle = Idle
  PortalEnv = {"commandFails", "dies", "restart", "storeError", "slowProbes"}
SPECIFICATION PortalFairSpec
INVARIANT SlotsMatchAssignments
PROPERTY TenancySpec
PROPERTY StartsSettle
PROPERTY DeadInstanceNoticed
