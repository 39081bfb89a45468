SPECIFICATION Spec
CONSTANTS
  m1 = m1
  m2 = m2
  m3 = m3
  m4 = m4
  c1 = c1
  c2 = c2
  Msgs = {m1, m2}
  Channels = {c1}
  Channel <- OneChannel
  Compresses = {}
  Untouched = {}
  Long = {}
  MaxReaps = 1
INVARIANTS
  ReaperSpares
CHECK_DEADLOCK FALSE
