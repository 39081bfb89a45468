SPECIFICATION FairSpec
CONSTANTS
  m1 = m1
  m2 = m2
  m3 = m3
  c1 = c1
  NoMsg = NoMsg
  Session0 = Session0
  Msgs = {m1, m2, m3}
  CompressCmds = {m3}
  Commands = {}
  CmdKinds = {}
  MaxQueue = 2
  Warm = TRUE
  Faults = {"error"}
  IdleReset = FALSE
  MaxAutoCompress = 0
INVARIANTS QueueServed
PROPERTIES EverySenderTold ServiceSpec
