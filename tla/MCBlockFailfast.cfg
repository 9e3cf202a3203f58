SPECIFICATION BlockSpec
CONSTANTS
  qa = qa
  qb = qb
  r1 = r1
  r2 = r2
  r3 = r3
  Queues = {qa, qb}
  Reqs <- MCReqs
  QueueOf <- MCQueueOf
  Sync <- MCSync
  RealMaxDepth = 2
  NoReq = NoReq
  t1 = t1
  t2 = t2
  t3 = t3
  e1 = e1
  e2 = e2
  Tasks = {t1, t2, t3}
  Elevators = {e1, e2}
  InitElevator = e1
  Cgroups = {cg}
  Root = root
  Submitters = {t1, t2}
  HZ = 4
  throtl_slice = 2
  throtl_quantum = 2
  max_nr_reads = 1
  max_nr_writes = 1
  EvProcs = {t1, t2, t3}
  Files = {f1, f2}
  Bds = {bd1, bd2}
  Cmds = {k1, k2}
  NoBd = NoBd
  NoCmd = NoCmd
  f1 = f1
  f2 = f2
  k1 = k1
  k2 = k2
  MCSchedScopes <- Mixed
  Parts = {"sched"}
INVARIANTS
  MixedFollowsFirst
CHECK_DEADLOCK FALSE
