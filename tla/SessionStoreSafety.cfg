SPECIFICATION Spec
CONSTANTS
  u1 = u1
  u2 = u2
  a1 = a1
  a2 = a2
  p1 = p1
  p2 = p2
  p3 = p3
  NoProc = NoProc
  NoId = NoId
  Continue = Continue
  Users = {u1, u2}
  AgentIds = {a1, a2}
  Savers = {p1, p2}
  Managers = {p2}
  WriteFaults = TRUE
  MaxSessions = 2
  MaxUses = 1
  MaxCrashes = 1
INVARIANTS TypeOK OwnedByOne FreshIds LegacySound KeptOnDisk
PROPERTIES NoResurrection
SYMMETRY Symmetry
CHECK_DEADLOCK FALSE
