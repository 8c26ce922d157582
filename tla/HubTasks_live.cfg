SPECIFICATION FairSpec
CHECK_DEADLOCK FALSE
CONSTANTS
  a1 = a1  a2 = a2  t1 = t1  t2 = t2  t3 = t3  t4 = t4  m1 = m1  k1 = k1
  None = None
  Agents = {a1, a2}
  Steady = {a1}
  Withdrawers = {}
  Tasks = {t1, t2}
  Modules = {m1}
  Stages = {"execute"}
  Requests <- ModuleRequests
  Keys = {k1}
  ReadyLimit = 2
  MaxLapses = 1
  MaxCrashes = 1
INVARIANTS KeyActsOnce WorkIsReady
PROPERTIES AllWorkIsDone
