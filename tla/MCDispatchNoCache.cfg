SPECIFICATION DispatchSpec
CONSTANTS
  wr = wr
  fu = fu
  ff = ff
  fl = fl
  Reqs <- MCReqs
  Kind <- MCKind
  FlagSets <- AnyCache
  Queueable = FALSE
  FlushRq = FlushRq
  c1 = c1
  c2 = c2
  c3 = c3
  g1 = g1
  g2 = g2
  CfqQueues = {c1, c2, c3}
  NoQ = NoQ
  t1 = t1
  t2 = t2
  t3 = t3
  i1 = i1
  i2 = i2
  i3 = i3
  RefTasks = {t1, t2, t3}
  Iocs = {i1, i2, i3}
  RefQueues = {c1, c2, c3, c4}
  NoQueue = NoQ
  Oom = oom_cfqq
  RootGroup = root_group
  RefGroups = {g1}
  OomRefs = 5
  Parts = {"cacheoff"}
INVARIANTS
  DataWritten
CHECK_DEADLOCK FALSE
