SPECIFICATION SysvSpec
CONSTANTS
  m1 = m1
  m2 = m2
  m3 = m3
  t1 = t1
  t2 = t2
  t3 = t3
  t4 = t4
  Tasks = {t1, t2, t3}
  Messages = {m1, m2, m3}
  MType <- MCType
  MSize <- MCSize
  QBytes = {1, 2}
  Modes <- TwoModes
  RcvArgs <- MCArgs
  LongMin <- Min4Bits
  IntMax = 7
  NoTask = NoTask
  Sems = {1, 2}
  SEMVMX = 2
  SEMAEM = 2
  Parts = {"sem"}
SYMMETRY TaskSymmetry
INVARIANTS
  WokenIsInside
CHECK_DEADLOCK FALSE
