SPECIFICATION Spec
CONSTANTS
  r1 = r1
  r2 = r2
  r3 = r3
  d1 = d1
  Replies = {r1}
  Approvers = {r1}
  Teardowns = {d1}
  TeardownKinds = {"cleanup", "stop"}
  MaxRequests = 3
  Questions = {2}
  NumQuestions = 2
  Serial = TRUE
INVARIANTS ReleasedByTeardown
CHECK_DEADLOCK FALSE
