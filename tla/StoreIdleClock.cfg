SPECIFICATION Spec
CONSTANTS
  u1 = u1
  u2 = u2
  a1 = a1
  a2 = a2
  p1 = p1
  p2 = p2
  p3 = p3
  NoProc = NoProc
  NoId = NoId
  Continue = Continue
  Users = {u1}
  AgentIds = {a1}
  Savers = {p1}
  Managers = {p2}
  WriteFaults = FALSE
  MaxSessions = 1
  MaxUses = 2
  MaxCrashes = 1
INVARIANTS IdleByUser
CHECK_DEADLOCK FALSE
