SPECIFICATION FairSpec
CONSTANTS
  r1 = r1
  r2 = r2
  s1 = s1
  s2 = s2
  Requests = {r1}
  Sources = {s1}
  RelayFaults = {}
  MaxEvents = 2
PROPERTIES
  Deadline
CHECK_DEADLOCK FALSE
