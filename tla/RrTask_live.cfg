CONSTANTS
  m1 = m1  s1 = s1  t1 = t1  t2 = t2  c1 = c1  c2 = c2
  Masters = {m1}
  Targets = {s1}
  Hub = Hub
  Tasks = {t1}
  Chats = {}
  None = None
  Recoverers = {Hub}
  Removable = {s1}
  MaxFaults = 1
  MaxReports = 1
SPECIFICATION FairSpec
INVARIANTS
  ReleasedImpliesTold
  ResultRepeatsOnlyAfterFailure
PROPERTIES
  AcceptedLeadsToTold
  LockLeadsToFree
CHECK_DEADLOCK FALSE
