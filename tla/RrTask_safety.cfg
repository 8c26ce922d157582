CONSTANTS
  m1 = m1  s1 = s1  t1 = t1  t2 = t2  c1 = c1  c2 = c2
  Masters = {m1}
  Targets = {s1}
  Hub = Hub
  Tasks = {t1, t2}
  Chats = {c1}
  None = None
  Recoverers = {Hub}
  Removable = {}
  MaxFaults = 0
  MaxReports = 0
SYMMETRY Interchangeable
SPECIFICATION Spec
INVARIANTS
  TypeOK
  TimelyTargetIsUndisturbed
  AcknowledgedWasAnswered
PROPERTIES UndisturbedMailbox
CHECK_DEADLOCK FALSE
