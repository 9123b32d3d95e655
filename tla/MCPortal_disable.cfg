CONSTANTS
  Users = {u1}
  Slots = {s1}
  Requests = {q1, q2}
  NoSlot = NoSlot
  Idle = Idle
  PortalEnv = {}
SPECIFICATION PortalSpec
INVARIANT DisabledIsStopped
