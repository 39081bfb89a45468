SPECIFICATION Spec
CONSTANTS
  m1 = m1
  m2 = m2
  m3 = m3
  m4 = m4
  c1 = c1
  c2 = c2
  Msgs = {m1, m2, m3, m4}
  Channels = {c1, c2}
  Channel <- TwoChannels
  Compresses = {m3}
  Untouched = {}
  Long = {}
  MaxReaps = 2
INVARIANTS
  OneTurn
  TurnsCounted
  Reapable
CHECK_DEADLOCK FALSE
