SPECIFICATION IpcObjSpec
CONSTANTS
  IPCMNI = 2
  SEQ_MAX = 1
  IPC_PRIVATE = private
  n0 = n0
  n1 = n1
  t1 = t1
  t2 = t2
  Namespaces = {n0, n1}
  InitNs = n0
  Tasks = {t1, t2}
  Segs = {o1, o2}
  Files = {f1}
  Keys = {k1}
  Pages = {1}
  shm_ctlall = 2
  shm_ctlmni = 2
  MaxRefs = 2
  Scopes <- ShmScopes
  Users = {t1, t2}
  Admins = {t3}
  Sems = {a1, a2}
  Undos = {o1, o2}
  Lists = {ul1, ul2}
  SEMVMX = 1
  SEMAEM = 1
  MaxArrays = 2
  Parts = {"shm", "undo"}
SYMMETRY Symmetry
INVARIANTS
  ShmPinned
  ShmAccounting
  ShmIdentity
  NsReachable
  
CHECK_DEADLOCK FALSE
