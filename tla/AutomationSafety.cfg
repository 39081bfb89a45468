SPECIFICATION Spec
CONSTANTS
  m1 = m1
  m2 = m2
  j1 = j1
  j2 = j2
  a1 = a1
  a2 = a2
  r1 = r1
  r2 = r2
  b1 = b1
  b2 = b2
  p1 = p1
  p2 = p2
  Users = {m1, m2}
  Jobs = {j1}
  Admins = {a1, a2}
  Runs = {r1, r2}
  NewPerRun = {j1}
  CronFaults = {"write", "timeout", "project", "platform", "mute"}
  Projects = {p1, p2}
  Beating = p1
  Beats = {b1}
  IdleOnly = {TRUE, FALSE}
  HeartbeatFaults = {"timeout", "platform", "write", "torn"}
  Restarts = TRUE
  MaxStimuli = 3
INVARIANTS
  OneHolder
  NoneStranded
  OneEntry
  EnabledScheduled
PROPERTIES
  OverridesKept
SYMMETRY Symmetry
CHECK_DEADLOCK FALSE
