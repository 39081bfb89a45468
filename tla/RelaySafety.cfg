SPECIFICATION Spec
CONSTANTS
  r1 = r1
  r2 = r2
  s1 = s1
  s2 = s2
  Requests = {r1, r2}
  Sources = {s1}
  RelayFaults = {"resume", "start", "send"}
  MaxEvents = 2
INVARIANTS
  Attended
  Resumable
CHECK_DEADLOCK FALSE
