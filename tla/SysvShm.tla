------------------------------ MODULE SysvShm ------------------------------
(***************************************************************************)
(* SysV shared memory (ipc/shm.c) in its identifier tables (IpcIds) and    *)
(* namespaces (IpcNs): shmget, shmctl, the steps of do_shmat between its   *)
(* locks, fork and unmap of the mappings, the attach files whose last fput *)
(* puts the namespace, the /proc/sysvipc readers that hold the table's     *)
(* rw_mutex, and the teardown of a namespace.  A section under rw_mutex    *)
(* held for writing is one action; ipc_lock without rw_mutex is two, the   *)
(* lookup under RCU and the section of the object's lock.                  *)
(***************************************************************************)
EXTENDS IpcNs

CONSTANTS Tasks, Segs, Files,  \* processes; segment and file structures
          Keys, Pages,         \* keys besides IPC_PRIVATE; sizes in pages
          shm_ctlall, shm_ctlmni,
          MaxRefs,             \* bound: references per attach file
          Scopes               \* bounds explored together, see scope

NONE == "none"

ASSUME ShmAssumption ==
  /\ IsFiniteSet(Tasks) /\ IsFiniteSet(Segs) /\ IsFiniteSet(Files)
  /\ InitNs \in Namespaces /\ "mem" \notin Namespaces
  /\ NONE \notin Namespaces \cup Segs \cup Files
  /\ IPCMNI \in Nat \ {0} /\ SEQ_MAX \in Nat /\ shm_ctlmni \in Nat /\ shm_ctlall \in Nat
  /\ IPC_PRIVATE \notin Keys /\ Pages \subseteq Nat
  /\ \A c \in Scopes : \A n \in Namespaces : c.made[n] \in Nat

VARIABLES
  ids, shm_tot,  \* per namespace: shm_ids(ns) and the pages in use
  seg,   \* per struct shmid_kernel: mem, key, id, pages, nattch, dest (SHM_DEST)
         \* and made (history: its number in its namespace)
  file,  \* per attach file: its sfd (ns, id), vmas that map it, and f_count
  task,  \* per process: ns, nsfd (an open /proc/PID/ns/ipc), pc and the locals
         \* shmid, meant (history: the segment shmget returned), shp, file
  made,  \* history, per namespace: segments created so far
  scope  \* the bounds of this behaviour: segments created per namespace,
         \* processes that read /proc/sysvipc, and movers between namespaces

shmVars == <<ids, shm_tot, seg, file, task, made, scope>>
vars == <<nsVars, shmVars>>

NoSeg == [mem |-> "free", key |-> IPC_PRIVATE, id |-> 0, pages |-> 0, nattch |-> 0,
          dest |-> FALSE, made |-> 0]
NoFile == [ns |-> NONE, id |-> 0, vmas |-> 0, refs |-> 0]
NewTask == [ns |-> InitNs, nsfd |-> NONE, pc |-> "idle", shmid |-> 0, meant |-> 0,
            shp |-> NONE, file |-> NONE, pns |-> NONE, pos |-> 0]

Init ==
  /\ NsInit(Cardinality(Tasks))
  /\ ids = [n \in Namespaces |-> ipc_init_ids]
  /\ shm_tot = [n \in Namespaces |-> 0]
  /\ seg = [s \in Segs |-> NoSeg]
  /\ file = [f \in Files |-> NoFile]
  /\ task = [t \in Tasks |-> NewTask]
  /\ made = [n \in Namespaces |-> 0]
  /\ scope \in Scopes
-----------------------------------------------------------------------------
(* Locks *)

\* a /proc/sysvipc/shm reader between start and stop
Reading(t, n) == task[t].pc = "reading" /\ task[t].pns = n

\* shm_ids(n).rw_mutex can be had for writing
Writable(n) == \A t \in Tasks : ~Reading(t, n)

\* the object's spinlock, which the reader holds for the entry it shows
Locked(s) == \E t \in Tasks : task[t].pc = "reading" /\ task[t].shp = s

\* shm_lock: the object the table has at the identifier's index
shm_lock(n, id) == ids[n].ipcs_idr[ipcid_to_idx(id)]

shm_lock_check(n, id) == {s \in idr_find(ids[n], id) : ipc_checkid(seg[s], id)}

-----------------------------------------------------------------------------
(* Segments *)

shm_destroy(n, s) ==
  /\ shm_tot' = [shm_tot EXCEPT ![n] = @ - seg[s].pages]
  /\ ids' = [ids EXCEPT ![n] = ipc_rmid(@, seg[s].id)]
  /\ seg' = [seg EXCEPT ![s].mem = "deleted"]

\* mutant: the last detach does not look for SHM_DEST
detach_keeps(n, s) ==
  /\ seg' = [seg EXCEPT ![s].nattch = @ - 1]
  /\ UNCHANGED <<ids, shm_tot>>

\* the end of shm_close and of do_shmat, under rw_mutex and the lock
detach(n, s) ==
  \/ /\ seg[s].nattch = 1 /\ seg[s].dest
     /\ shm_destroy(n, s)
  \/ /\ ~(seg[s].nattch = 1 /\ seg[s].dest)
     /\ seg' = [seg EXCEPT ![s].nattch = @ - 1]
     /\ UNCHANGED <<ids, shm_tot>>

\* mutant: a segment in use is destroyed at once
do_shm_rmid_attached(n, s) == shm_destroy(n, s)

do_shm_rmid(n, s) ==
  \/ /\ seg[s].nattch = 0
     /\ shm_destroy(n, s)
  \/ /\ seg[s].nattch # 0
     /\ seg' = [seg EXCEPT ![s].dest = TRUE, ![s].key = IPC_PRIVATE]
     /\ UNCHANGED <<ids, shm_tot>>

\* ipc_rcu_putref of the last reference, after a grace period
RcuFree(s) ==
  /\ seg[s].mem = "deleted"
  /\ ~\E t \in Tasks : task[t].pc = "found" /\ task[t].shp = s
  /\ seg' = [seg EXCEPT ![s] = NoSeg]
  /\ UNCHANGED <<nsVars, ids, shm_tot, file, task, made, scope>>

-----------------------------------------------------------------------------
(* shmget *)

newseg(n, s, key, pages) ==
  /\ shm_tot[n] + pages <= shm_ctlall /\ ipc_addid_ok(ids[n], shm_ctlmni)
  /\ ids' = [ids EXCEPT ![n] = ipc_addid(@, s)]
  /\ seg' = [seg EXCEPT ![s] = [mem |-> "live", key |-> key, id |-> NewId(ids[n]),
               pages |-> pages, nattch |-> 0, dest |-> FALSE, made |-> made[n] + 1]]
  /\ shm_tot' = [shm_tot EXCEPT ![n] = @ + pages]

\* ipcget_new, and ipcget_public with IPC_CREAT and a key not in use
ShmgetNew(t, s, key, pages) ==
  LET n == task[t].ns IN
  /\ task[t].pc = "idle" /\ Writable(n)
  /\ seg[s].mem = "free" /\ made[n] < scope.made[n]
  /\ key = IPC_PRIVATE \/ ipc_findkey(ids[n], seg, key) = {}
  /\ newseg(n, s, key, pages)
  /\ made' = [made EXCEPT ![n] = @ + 1]
  /\ task' = [task EXCEPT ![t].shmid = NewId(ids[n]), ![t].meant = made[n] + 1]
  /\ UNCHANGED <<nsVars, file, scope>>

\* ipcget_public without IPC_EXCL and a key in use; shm_more_checks
ShmgetOld(t, s, pages) ==
  LET n == task[t].ns IN
  /\ task[t].pc = "idle" /\ Writable(n)
  /\ \E key \in Keys : s \in ipc_findkey(ids[n], seg, key)
  /\ ~Locked(s) /\ seg[s].pages >= pages
  /\ task' = [task EXCEPT ![t].shmid = seg[s].id, ![t].meant = seg[s].made]
  /\ UNCHANGED <<nsVars, ids, shm_tot, seg, file, made, scope>>

-----------------------------------------------------------------------------
(* shmctl *)

\* shmctl_down with IPC_RMID, for a caller ipcctl_pre_down accepts
ShmctlRmid(t) ==
  LET n == task[t].ns IN
  /\ task[t].pc = "idle" /\ task[t].meant # 0 /\ Writable(n)
  /\ \E s \in shm_lock_check(n, task[t].shmid) : ~Locked(s) /\ do_shm_rmid(n, s)
  /\ UNCHANGED <<nsVars, file, task, made, scope>>

\* ipc_lock without rw_mutex: idr_find in the RCU section
IpcLockFind(t) ==
  /\ task[t].pc = "idle" /\ task[t].meant # 0
  /\ \E s \in idr_find(ids[task[t].ns], task[t].shmid) :
       task' = [task EXCEPT ![t].pc = "found", ![t].shp = s]
  /\ UNCHANGED <<nsVars, ids, shm_tot, seg, file, made, scope>>

\* ... and the spinlock, with the checks for deletion and sequence number
IpcLocked(t) ==
  LET s == task[t].shp IN
  /\ task[t].pc = "found" /\ ~Locked(s)
  /\ seg[s].mem # "deleted" /\ ipc_checkid(seg[s], task[t].shmid)

\* EINVAL, EIDRM, or a caller without the permissions
IpcLockFail(t) ==
  /\ task[t].pc = "found" /\ ~Locked(task[t].shp)
  /\ task' = [task EXCEPT ![t].pc = "idle", ![t].shp = NONE]
  /\ UNCHANGED <<nsVars, ids, shm_tot, seg, file, made, scope>>

-----------------------------------------------------------------------------
(* do_shmat *)

\* the segment is found and permitted: pinned by nattch, then unlocked
ShmatPin(t) ==
  /\ IpcLocked(t)
  /\ seg' = [seg EXCEPT ![task[t].shp].nattch = @ + 1]
  /\ task' = [task EXCEPT ![t].pc = "pinned"]
  /\ UNCHANGED <<nsVars, ids, shm_tot, file, made, scope>>

\* kzalloc or alloc_file fails
ShmatNoFile(t) ==
  /\ task[t].pc = "pinned"
  /\ task' = [task EXCEPT ![t].pc = "out"]
  /\ UNCHANGED <<nsVars, ids, shm_tot, seg, file, made, scope>>

\* the file, its sfd read from shp without the lock, and get_ipc_ns
ShmatFile(t, f) ==
  /\ task[t].pc = "pinned" /\ file[f].refs = 0
  /\ file' = [file EXCEPT ![f] = [ns |-> task[t].ns, id |-> seg[task[t].shp].id,
                                  vmas |-> 0, refs |-> 1]]
  /\ ns' = get_ipc_ns(ns, task[t].ns)
  /\ task' = [task EXCEPT ![t].pc = "filed", ![t].file = f]
  /\ UNCHANGED <<chain, walk, ids, shm_tot, seg, made, scope>>

\* shm_open: one more mapping of file f
shm_open(f) ==
  LET s == shm_lock(file[f].ns, file[f].id) IN
  /\ ~Locked(s)
  /\ seg' = [seg EXCEPT ![s].nattch = @ + 1]
  /\ file' = [file EXCEPT ![f].vmas = @ + 1, ![f].refs = @ + 1]

\* do_mmap calls shm_mmap, which calls shm_open
ShmatMap(t) ==
  /\ task[t].pc = "filed"
  /\ shm_open(task[t].file)
  /\ task' = [task EXCEPT ![t].pc = "mapped"]
  /\ UNCHANGED <<nsVars, ids, shm_tot, made, scope>>

\* the address range is taken, or do_mmap fails
ShmatNoMap(t) ==
  /\ task[t].pc = "filed"
  /\ task' = [task EXCEPT ![t].pc = "mapped"]
  /\ UNCHANGED <<nsVars, ids, shm_tot, seg, file, made, scope>>

\* fput; shm_release puts the namespace of a file with no other reference
fput(f) ==
  \/ /\ file[f].refs = 1
     /\ file' = [file EXCEPT ![f] = NoFile]
     /\ ns' = put_ipc_ns(ns, file[f].ns)
  \/ /\ file[f].refs > 1
     /\ file' = [file EXCEPT ![f].refs = @ - 1]
     /\ UNCHANGED ns

ShmatFput(t) ==
  /\ task[t].pc = "mapped"
  /\ fput(task[t].file)
  /\ task' = [task EXCEPT ![t].pc = "out", ![t].file = NONE]
  /\ UNCHANGED <<chain, walk, ids, shm_tot, seg, made, scope>>

\* out_nattch: the segment is looked up again by shmid
ShmatOut(t) ==
  LET n == task[t].ns
      s == shm_lock(n, task[t].shmid)
  IN  /\ task[t].pc = "out" /\ Writable(n) /\ ~Locked(s)
      /\ detach(n, s)
      /\ task' = [task EXCEPT ![t].pc = "idle", ![t].shp = NONE]
      /\ UNCHANGED <<nsVars, file, made, scope>>

-----------------------------------------------------------------------------
(* Mappings *)

\* fork, or a mapping split in two
Fork(f) ==
  /\ file[f].vmas > 0 /\ file[f].refs < MaxRefs
  /\ shm_open(f)
  /\ UNCHANGED <<nsVars, ids, shm_tot, task, made, scope>>

\* shmdt, munmap or exit: shm_close of one mapping; its fput comes after
shm_close(f) ==
  LET s == shm_lock(file[f].ns, file[f].id) IN
  /\ file[f].vmas > 0 /\ Writable(file[f].ns) /\ ~Locked(s)
  /\ detach(file[f].ns, s)
  /\ file' = [file EXCEPT ![f].vmas = @ - 1]
  /\ UNCHANGED <<nsVars, task, made, scope>>

\* references of do_shmat calls in progress
Holders(f) == Cardinality({t \in Tasks : task[t].file = f})

VmaFput(f) ==
  /\ file[f].refs > file[f].vmas + Holders(f)
  /\ fput(f)
  /\ UNCHANGED <<chain, walk, ids, shm_tot, seg, task, made, scope>>

-----------------------------------------------------------------------------
(* /proc/sysvipc/shm *)

ProcOpen(t) ==
  /\ task[t].pc = "idle" /\ t \in scope.readers
  /\ ns' = get_ipc_ns(ns, task[t].ns)
  /\ task' = [task EXCEPT ![t].pc = "open", ![t].pns = task[t].ns]
  /\ UNCHANGED <<chain, walk, ids, shm_tot, seg, file, made, scope>>

\* sysvipc_find_ipc: the first entry at or after pos, and its position
Entries(n, pos) == {i \in DOMAIN ids[n].ipcs_idr : i >= pos}
FindIpc(t, n, pos) ==
  IF Cardinality({i \in DOMAIN ids[n].ipcs_idr : i < pos}) >= ids[n].in_use
  THEN task' = [task EXCEPT ![t].pc = "reading", ![t].shp = NONE]
  ELSE LET i == Min(Entries(n, pos)) IN
       /\ ~\E u \in Tasks \ {t} : task[u].pc = "reading" /\ task[u].shp = ids[n].ipcs_idr[i]
       /\ task' = [task EXCEPT ![t].pc = "reading", ![t].shp = ids[n].ipcs_idr[i],
                               ![t].pos = i + 1]

\* start: down_read, then the entry at the file position
sysvipc_proc_start(t) ==
  /\ task[t].pc = "open"
  /\ FindIpc(t, task[t].pns, task[t].pos)
  /\ UNCHANGED <<nsVars, ids, shm_tot, seg, file, made, scope>>

\* next: unlock the entry, lock the next one
sysvipc_proc_next(t) ==
  /\ task[t].pc = "reading" /\ task[t].shp # NONE
  /\ FindIpc(t, task[t].pns, task[t].pos)
  /\ UNCHANGED <<nsVars, ids, shm_tot, seg, file, made, scope>>

sysvipc_proc_stop(t) ==
  /\ task[t].pc = "reading"
  /\ task' = [task EXCEPT ![t].pc = "open", ![t].shp = NONE]
  /\ UNCHANGED <<nsVars, ids, shm_tot, seg, file, made, scope>>

sysvipc_proc_release(t) ==
  /\ task[t].pc = "open"
  /\ ns' = put_ipc_ns(ns, task[t].pns)
  /\ task' = [task EXCEPT ![t].pc = "idle", ![t].pns = NONE, ![t].pos = 0]
  /\ UNCHANGED <<chain, walk, ids, shm_tot, seg, file, made, scope>>

-----------------------------------------------------------------------------
(* Namespaces of processes *)

\* CLONE_NEWIPC: copy_ipcs; the old namespace is put with the old nsproxy
copy_ipcs(t, n) ==
  /\ task[t].pc = "idle" /\ t \in scope.movers /\ n # task[t].ns
  /\ create_ipc_ns(n)
  /\ task' = [task EXCEPT ![t].pc = "creating", ![t].pns = n]
  /\ ids' = [ids EXCEPT ![n] = ipc_init_ids]
  /\ shm_tot' = [shm_tot EXCEPT ![n] = 0]
  /\ made' = [made EXCEPT ![n] = 0]
  /\ UNCHANGED <<seg, file, scope>>

\* the new namespace is registered, the process enters it
NsCreated(t) ==
  /\ task[t].pc = "creating"
  /\ register_ipcns_notifier(task[t].pns)
  /\ task' = [task EXCEPT ![t].pc = "switching"]
  /\ UNCHANGED <<ids, shm_tot, seg, file, made, scope>>

NsSwitch(t) ==
  /\ task[t].pc = "switching"
  /\ ns' = put_ipc_ns(ns, task[t].ns)
  /\ task' = [task EXCEPT ![t].pc = "idle", ![t].ns = task[t].pns, ![t].pns = NONE,
                          ![t].shmid = 0, ![t].meant = 0]
  /\ UNCHANGED <<chain, walk, ids, shm_tot, seg, file, made, scope>>

\* open of /proc/u/ns/ipc
ipcns_get(t, u) ==
  /\ task[t].pc = "idle" /\ t \in scope.movers /\ task[t].nsfd = NONE
  /\ ns' = get_ipc_ns(ns, task[u].ns)
  /\ task' = [task EXCEPT ![t].nsfd = task[u].ns]
  /\ UNCHANGED <<chain, walk, ids, shm_tot, seg, file, made, scope>>

ipcns_put(t) ==
  /\ task[t].nsfd # NONE
  /\ ns' = put_ipc_ns(ns, task[t].nsfd)
  /\ task' = [task EXCEPT ![t].nsfd = NONE]
  /\ UNCHANGED <<chain, walk, ids, shm_tot, seg, file, made, scope>>

\* setns: the old namespace is put before the new one is taken
ipcns_install(t) ==
  /\ task[t].pc = "idle" /\ task[t].nsfd # NONE
  /\ ns' = get_ipc_ns(put_ipc_ns(ns, task[t].ns), task[t].nsfd)
  /\ task' = [task EXCEPT ![t].ns = task[t].nsfd, ![t].shmid = 0, ![t].meant = 0]
  /\ UNCHANGED <<chain, walk, ids, shm_tot, seg, file, made, scope>>

\* the pages of the segments in S
PagesOf(S) == Cardinality(UNION {{s} \X (1..seg[s].pages) : s \in S})

\* shm_exit_ns: free_ipcs with do_shm_rmid, then IPCNS_REMOVED begins
shm_exit_ns(n) ==
  LET all == {ids[n].ipcs_idr[i] : i \in Visited(ids[n])}
      gone == {s \in all : seg[s].nattch = 0}
  IN  /\ ns[n].life = "unregistered" /\ Writable(n)
      /\ ids' = [ids EXCEPT ![n].ipcs_idr = RestrictValues(@, LAMBDA s : s \notin gone),
                            ![n].in_use = @ - Cardinality(gone)]
      /\ shm_tot' = [shm_tot EXCEPT ![n] = @ - PagesOf(gone)]
      /\ seg' = [s \in Segs |->
                   IF s \in gone THEN [seg[s] EXCEPT !.mem = "deleted"]
                   ELSE IF s \in all THEN [seg[s] EXCEPT !.dest = TRUE, !.key = IPC_PRIVATE]
                   ELSE seg[s]]
      /\ ns' = [ns EXCEPT ![n].life = "exited"]
      /\ walk' = [walk EXCEPT ![n] = chain]
      /\ UNCHANGED <<chain, file, task, made, scope>>

-----------------------------------------------------------------------------
NsStep ==
  /\ scope.movers # {}   \* nothing of it matters while all stay in InitNs
  /\ \/ \E n \in Namespaces : \/ unregister_ipcns_notifier(n) \/ NotifyRemoved(n)
                              \/ get_ns_from_inode(n) \/ mqueue_put_ns(n)
     \/ ipc_memory_notifier
     \/ \E w \in Notifiers, n \in Namespaces : ipcns_callback(w, n)
  /\ UNCHANGED shmVars

Next ==
  \/ NsStep
  \/ \E n \in Namespaces : shm_exit_ns(n)
  \/ \E s \in Segs : RcuFree(s)
  \/ \E f \in Files : Fork(f) \/ shm_close(f) \/ VmaFput(f)
  \/ \E t \in Tasks :
       \/ \E s \in Segs, p \in Pages :
            \/ \E key \in Keys \cup {IPC_PRIVATE} : ShmgetNew(t, s, key, p)
            \/ ShmgetOld(t, s, p)
       \/ ShmctlRmid(t) \/ IpcLockFind(t) \/ IpcLockFail(t)
       \/ ShmatPin(t) \/ ShmatNoFile(t) \/ ShmatMap(t) \/ ShmatNoMap(t)
       \/ ShmatFput(t) \/ ShmatOut(t)
       \/ \E f \in Files : ShmatFile(t, f)
       \/ ProcOpen(t) \/ sysvipc_proc_start(t) \/ sysvipc_proc_next(t)
       \/ sysvipc_proc_stop(t) \/ sysvipc_proc_release(t)
       \/ \E n \in Namespaces : copy_ipcs(t, n)
       \/ NsCreated(t) \/ NsSwitch(t)
       \/ \E u \in Tasks : ipcns_get(t, u)
       \/ ipcns_put(t) \/ ipcns_install(t)

Spec == Init /\ [][Next]_vars

-----------------------------------------------------------------------------
(* Properties *)

Attached(s, n, id) ==
  /\ ns[n].life \in {"live", "new"}
  /\ ipcid_to_idx(id) \in DOMAIN ids[n].ipcs_idr
  /\ shm_lock(n, id) = s /\ seg[s].mem = "live" /\ seg[s].id = id

InShmat(t) == task[t].pc \in {"pinned", "filed", "mapped", "out"}

\* The lookups whose failure is a BUG_ON in shm_open, shm_close and do_shmat
\* never fail and always return the segment that was attached: nothing that
\* happens between do_shmat's shm_unlock and out_nattch, or while a mapping
\* exists, destroys the segment, reuses its index or frees its namespace.
ShmPinned ==
  /\ \A t \in Tasks : InShmat(t) => Attached(task[t].shp, task[t].ns, task[t].shmid)
  /\ \A f \in Files : file[f].vmas > 0 =>
       /\ ipcid_to_idx(file[f].id) \in DOMAIN ids[file[f].ns].ipcs_idr
       /\ Attached(shm_lock(file[f].ns, file[f].id), file[f].ns, file[f].id)

SegsOf(n) == {ids[n].ipcs_idr[i] : i \in DOMAIN ids[n].ipcs_idr}

\* the files s is mapped from, and the mappings
FilesOf(s) == {f \in Files : file[f].vmas > 0 /\ shm_lock(file[f].ns, file[f].id) = s}
Mappings(s) == UNION {{f} \X (1..file[f].vmas) : f \in FilesOf(s)}

\* nattch is the number of mappings plus the do_shmat calls in progress, a
\* segment marked SHM_DEST is still attached, in_use and shm_tot are exact,
\* and a namespace whose tables were freed (free_ipcs) has nothing left.
ShmAccounting ==
  /\ \A n \in Namespaces :
       /\ ids[n].in_use = Cardinality(DOMAIN ids[n].ipcs_idr)
       /\ shm_tot[n] = PagesOf(SegsOf(n))
       /\ ns[n].life \in {"none", "exited"} => ids[n].in_use = 0
  /\ \A s \in Segs : seg[s].mem = "live" =>
       /\ seg[s].nattch = Cardinality(Mappings(s)) + Cardinality({t \in Tasks : InShmat(t) /\ task[t].shp = s})
       /\ seg[s].dest => seg[s].nattch > 0

\* A key finds at most one segment, and an identifier obtained from shmget
\* attaches the segment it was returned for, unless at least SEQ_MAX + 1
\* segments were created since (the sequence numbers of ipc_addid).
ShmIdentity ==
  /\ \A n \in Namespaces, key \in Keys : Cardinality(ipc_findkey(ids[n], seg, key)) <= 1
  /\ \A t \in Tasks : InShmat(t) =>
       \/ seg[task[t].shp].made = task[t].meant
       \/ seg[task[t].shp].made - task[t].meant > SEQ_MAX

\* Whoever can reach a namespace holds one of its references: the count is
\* the number of processes, files, open proc files and mqueue operations that
\* use it, and neither the notifier chain (ipcns_callback) nor the mqueue
\* superblock reaches a namespace whose count has dropped to zero.
NsReachable ==
  /\ \A n \in Namespaces :
       /\ ns[n].count = (IF n = InitNs THEN 1 ELSE 0) + ns[n].mq
            + Cardinality({t \in Tasks : task[t].ns = n})
            + Cardinality({t \in Tasks : task[t].nsfd = n})
            + Cardinality({t \in Tasks : task[t].pns = n})
            + Cardinality({f \in Files : file[f].refs > 0 /\ file[f].ns = n})
       /\ (ns[n].count = 0) = (ns[n].life \notin {"new", "live"})
       /\ ns[n].sb => ns[n].life \in {"new", "live"}
  /\ \A w \in Notifiers : \A n \in walk[w] : ns[n].life \in {"live", "dying"}
=============================================================================
