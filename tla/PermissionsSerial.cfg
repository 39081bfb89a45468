SPECIFICATION Spec
CONSTANTS
  r1 = r1
  r2 = r2
  r3 = r3
  d1 = d1
  Replies = {r1, r2, r3}
  Approvers = {r1, r2}
  Teardowns = {d1}
  TeardownKinds = {"cleanup", "stop"}
  MaxRequests = 3
  Questions = {2}
  NumQuestions = 2
  Serial = TRUE
INVARIANTS AnsweredOnce Authorized QuestionsComplete Answerable
SYMMETRY Symmetry
CHECK_DEADLOCK FALSE
