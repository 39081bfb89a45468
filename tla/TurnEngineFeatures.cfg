SPECIFICATION Spec
CONSTANTS
  m1 = m1
  m2 = m2
  m3 = m3
  c1 = c1
  NoMsg = NoMsg
  Session0 = Session0
  Msgs = {m1, m2}
  CompressCmds = {m2}
  Commands = {c1}
  CmdKinds = {"new", "stop", "recall"}
  MaxQueue = 1
  Warm = TRUE
  Faults = {"exit", "error", "send", "start", "resume", "timeout", "hang"}
  IdleReset = TRUE
  MaxAutoCompress = 1
INVARIANTS OnePlace
PROPERTIES ToldOnce
