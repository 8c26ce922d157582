SPECIFICATION Spec
CHECK_DEADLOCK FALSE
CONSTANTS
  a1 = a1  a2 = a2  t1 = t1  t2 = t2  t3 = t3  t4 = t4  m1 = m1  k1 = k1
  None = None
  Agents = {a1, a2}
  Steady = {a1, a2}
  Withdrawers = {a1, a2}
  Tasks = {t1, t2, t3, t4}
  Modules = {}
  Stages = {"execute", "compile"}
  Requests <- TreeRequests
  Keys = {}
  ReadyLimit = 2
  MaxLapses = 1
  MaxCrashes = 0
SYMMETRY AgentSymmetry
INVARIANTS TypeOK CompletedOnce NoStrandedParent
PROPERTIES ImplementsBoard
