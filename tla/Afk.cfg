SPECIFICATION Spec
CHECK_DEADLOCK FALSE
CONSTANTS
  None = None
  First <- Both
  t1 = t1
  t2 = t2
  m1 = m1
  m2 = m2
  Tasks = {t1, t2}
  Masters = {m1, m2}
  Cap = 1
  Desired = 1
  MaxLoops = 2
  MaxEvents = 1
SYMMETRY Swap
INVARIANTS
  TypeOK
  PromptsDoNotPile
  PauseHolds
  LoopsAreBounded
  PoolIsBounded
  RotationIsFair
