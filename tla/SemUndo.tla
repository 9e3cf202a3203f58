------------------------------ MODULE SemUndo ------------------------------
(***************************************************************************)
(* The undo structures of ipc/sem.c: lists shared by processes             *)
(* (CLONE_SYSVSEM), find_alloc_undo with the array unlocked around its     *)
(* allocation, IPC_RMID unlinking the structures of an array from lists of *)
(* other processes, and exit_sem walking a list whose arrays may go away.  *)
(* Arrays have one semaphore; blocking operations are in SysvSem.          *)
(***************************************************************************)
EXTENDS IpcIds, Sequences, SequencesExt

CONSTANTS Users, Admins,               \* processes that use SEM_UNDO; that
                                       \* create and remove arrays
          Sems, Undos, Lists,          \* sem_array, sem_undo and
                                       \* sem_undo_list structures
          SEMVMX, SEMAEM,              \* largest semval, largest semadj
          MaxArrays                    \* bound: arrays created

VARIABLES
  sem_ids,  \* the table of arrays
  sma,      \* per array: mem, id, refs (ipc_rcu), val, list_id, holder of its
            \* lock, made (history: number of the array)
  ulp,      \* per list: mem, refcnt, list_proc, holder of its lock
  un,       \* per undo: mem, semid (-1 once its array is gone), ulp, adj,
            \* made (history: the array it was allocated for)
  proc,     \* per process: undo_list, pc and the locals semid, sma, un
  arrays    \* history: arrays created

UTasks == Users \cup Admins

undoVars == <<sem_ids, sma, ulp, un, proc, arrays>>

NOBODY == "nobody"
SemFree == [mem |-> "free", id |-> -1, refs |-> 0, val |-> 1, list_id |-> {},
            holder |-> NOBODY, made |-> 0]
UndoFree == [mem |-> "free", semid |-> -1, ulp |-> NOBODY, adj |-> 0, made |-> 0]

Init ==
  /\ sem_ids = ipc_init_ids /\ arrays = 0
  /\ sma = [a \in Sems |-> SemFree]
  /\ ulp = [l \in Lists |-> [mem |-> "free", refcnt |-> 0, list_proc |-> <<>>, holder |-> NOBODY]]
  /\ un = [u \in Undos |-> UndoFree]
  /\ proc = [t \in UTasks |-> [undo_list |-> NOBODY, pc |-> "idle", semid |-> -1,
                               sma |-> NOBODY, un |-> NOBODY]]

\* sem_lock_check: an array the table has, its lock free
sem_lock_check(id) ==
  {a \in idr_find(sem_ids, id) : sma[a].holder = NOBODY /\ ipc_checkid(sma[a], id)}
NoSuchArray(id) ==
  id = -1 \/ \A a \in idr_find(sem_ids, id) : ~ipc_checkid(sma[a], id)

Idle(t) == [proc[t] EXCEPT !.pc = "idle", !.semid = -1, !.sma = NOBODY, !.un = NOBODY]

\* ipc_rcu_putref, and the memory free after a grace period
Put(a) == [a EXCEPT !.refs = @ - 1]
RcuFreeArray(a) ==
  /\ sma[a].mem = "deleted" /\ sma[a].refs = 0
  /\ sma' = [sma EXCEPT ![a] = SemFree]
  /\ UNCHANGED <<sem_ids, ulp, un, proc, arrays>>

\* free_un: no reader in an RCU section; exit_sem has left its section
RcuFreeUndo(u) ==
  /\ un[u].mem = "call_rcu"
  /\ ~\E t \in UTasks : proc[t].pc = "have" /\ proc[t].un = u
  /\ un' = [un EXCEPT ![u] = UndoFree]
  /\ UNCHANGED <<sem_ids, sma, ulp, proc, arrays>>

\* semget: newary
newary(t, a) ==
  /\ proc[t].pc = "idle" /\ sma[a].mem = "free" /\ arrays < MaxArrays
  /\ ipc_addid_ok(sem_ids, IPCMNI)
  /\ sem_ids' = ipc_addid(sem_ids, a)
  /\ sma' = [sma EXCEPT ![a] = [SemFree EXCEPT !.mem = "live", !.id = NewId(sem_ids),
                                              !.refs = 1, !.made = arrays + 1]]
  /\ arrays' = arrays + 1
  /\ UNCHANGED <<ulp, un, proc>>

-----------------------------------------------------------------------------
(* Lists of processes *)

\* get_undo_list: the process has a list, or gets this one
HasList(t, l) == proc[t].undo_list = l \/ (proc[t].undo_list = NOBODY /\ ulp[l].mem = "free")
WithList(t, l) == IF proc[t].undo_list = l THEN ulp[l]
                  ELSE [ulp[l] EXCEPT !.mem = "live", !.refcnt = 1]

\* clone with CLONE_SYSVSEM: u is the new process
copy_semundo(t, u, l) ==
  /\ proc[t].pc = "idle" /\ proc[u].pc = "idle" /\ t # u
  /\ proc[u].undo_list = NOBODY /\ HasList(t, l)
  /\ ulp' = [ulp EXCEPT ![l] = [WithList(t, l) EXCEPT !.refcnt = @ + 1]]
  /\ proc' = [proc EXCEPT ![t].undo_list = l, ![u].undo_list = l]
  /\ UNCHANGED <<sem_ids, sma, un, arrays>>

\* lookup_undo: the structure for semid, moved to the head of the list
On(l, id) == {u \in ToSet(ulp[l].list_proc) : un[u].semid = id}
lookup_undo(l, u) == <<u>> \o Remove(ulp[l].list_proc, u)

\* find_alloc_undo up to the first lookup, under the list's lock
FindUndo(t, l, id) ==
  LET ul == WithList(t, l) IN
  /\ proc[t].pc = "idle" /\ HasList(t, l) /\ ulp[l].holder = NOBODY
  /\ \/ /\ On(l, id) = {}
        /\ ulp' = [ulp EXCEPT ![l] = ul]
        /\ proc' = [proc EXCEPT ![t].undo_list = l, ![t].pc = "missing", ![t].semid = id]
     \/ \E u \in On(l, id) :
        /\ ulp' = [ulp EXCEPT ![l] = [ul EXCEPT !.list_proc = lookup_undo(l, u)]]
        /\ proc' = [proc EXCEPT ![t].pc = "have", ![t].semid = id, ![t].un = u]
  /\ UNCHANGED <<sem_ids, sma, un, arrays>>

\* step 1: the array is found, referenced and unlocked; or EINVAL, EIDRM
FindArray(t) ==
  /\ proc[t].pc = "missing"
  /\ \/ /\ NoSuchArray(proc[t].semid)
        /\ proc' = [proc EXCEPT ![t] = Idle(t)]
        /\ UNCHANGED sma
     \/ \E a \in sem_lock_check(proc[t].semid) :
        /\ sma' = [sma EXCEPT ![a].refs = @ + 1]
        /\ proc' = [proc EXCEPT ![t].pc = "alloc", ![t].sma = a]
  /\ UNCHANGED <<sem_ids, ulp, un, arrays>>

\* step 2: kzalloc fails; or step 3 finds the array deleted
AllocFails(t) ==
  LET a == proc[t].sma IN
  /\ proc[t].pc = "alloc" /\ sma[a].holder = NOBODY
  /\ sma' = [sma EXCEPT ![a] = Put(@)]
  /\ proc' = [proc EXCEPT ![t] = Idle(t)]
  /\ UNCHANGED <<sem_ids, ulp, un, arrays>>


\* steps 3 to 5: array and list locked, the race for the same structure,
\* the new one linked in both lists
LinkUndo(t, u) ==
  LET a == proc[t].sma
      l == proc[t].undo_list
      id == proc[t].semid
  IN  /\ proc[t].pc = "alloc" /\ sma[a].holder = NOBODY /\ ulp[l].holder = NOBODY
      /\ sma[a].mem = "live"
      /\ \/ /\ On(l, id) = {} /\ un[u].mem = "free"
            /\ un' = [un EXCEPT ![u] = [mem |-> "live", semid |-> id, ulp |-> l,
                                        adj |-> 0, made |-> sma[a].made]]
            /\ ulp' = [ulp EXCEPT ![l].list_proc = <<u>> \o @]
            /\ sma' = [sma EXCEPT ![a] = [Put(@) EXCEPT !.list_id = @ \cup {u}]]
         \/ /\ u \in On(l, id)
            /\ ulp' = [ulp EXCEPT ![l].list_proc = lookup_undo(l, u)]
            /\ sma' = [sma EXCEPT ![a] = Put(@)]
            /\ UNCHANGED un
      /\ proc' = [proc EXCEPT ![t].pc = "have", ![t].sma = NOBODY, ![t].un = u]
      /\ UNCHANGED <<sem_ids, arrays>>

\* semtimedop after find_alloc_undo: the array is looked up again, un->semid
\* tells an array with the same identifier from the one un belongs to
Semop(t, op) ==
  LET u == proc[t].un IN
  /\ proc[t].pc = "have"
  /\ \/ /\ NoSuchArray(proc[t].semid) \/ un[u].semid = -1
        /\ UNCHANGED <<sma, un>>
     \/ \E a \in sem_lock_check(proc[t].semid) :
        /\ un[u].semid # -1
        /\ sma[a].val + op \in 0..SEMVMX /\ un[u].adj - op \in -SEMAEM - 1..SEMAEM
        /\ sma' = [sma EXCEPT ![a].val = @ + op]
        /\ un' = [un EXCEPT ![u].adj = @ - op]
  /\ proc' = [proc EXCEPT ![t] = Idle(t)]
  /\ UNCHANGED <<sem_ids, ulp, arrays>>

\* try_atomic_semop fails: EAGAIN, ERANGE
SemopFails(t) ==
  /\ proc[t].pc = "have"
  /\ proc' = [proc EXCEPT ![t] = Idle(t)]
  /\ UNCHANGED <<sem_ids, sma, ulp, un, arrays>>

-----------------------------------------------------------------------------
(* IPC_RMID: freeary, with the array's lock held from here to its end *)

RmidStart(t, a) ==
  /\ proc[t].pc = "idle" /\ sma[a].mem = "live" /\ sma[a].holder = NOBODY
  /\ \A u \in UTasks : proc[u].pc \notin {"freeary", "freeun"}   \* rw_mutex
  /\ sma' = [sma EXCEPT ![a].holder = t]
  /\ proc' = [proc EXCEPT ![t].pc = "freeary", ![t].sma = a]
  /\ UNCHANGED <<sem_ids, ulp, un, arrays>>

\* off list_id; under the list's lock semid becomes -1 ...
FreearyMark(t, u) ==
  LET a == proc[t].sma IN
  /\ proc[t].pc = "freeary" /\ u \in sma[a].list_id /\ ulp[un[u].ulp].holder = NOBODY
  /\ sma' = [sma EXCEPT ![a].list_id = @ \ {u}]
  /\ ulp' = [ulp EXCEPT ![un[u].ulp].holder = t]
  /\ un' = [un EXCEPT ![u].semid = -1]
  /\ proc' = [proc EXCEPT ![t].pc = "freeun", ![t].un = u]
  /\ UNCHANGED <<sem_ids, arrays>>

\* ... and the structure leaves list_proc
FreearyUnlink(t) ==
  LET u == proc[t].un IN
  /\ proc[t].pc = "freeun"
  /\ ulp' = [ulp EXCEPT ![un[u].ulp].list_proc = Remove(@, u), ![un[u].ulp].holder = NOBODY]
  /\ un' = [un EXCEPT ![u].mem = "call_rcu"]
  /\ proc' = [proc EXCEPT ![t].pc = "freeary", ![t].un = NOBODY]
  /\ UNCHANGED <<sem_ids, sma, arrays>>

FreearyEnd(t) ==
  LET a == proc[t].sma IN
  /\ proc[t].pc = "freeary" /\ sma[a].list_id = {}
  /\ sem_ids' = ipc_rmid(sem_ids, sma[a].id)
  /\ sma' = [sma EXCEPT ![a] = [Put(@) EXCEPT !.mem = "deleted", !.holder = NOBODY]]
  /\ proc' = [proc EXCEPT ![t] = Idle(t)]
  /\ UNCHANGED <<ulp, un, arrays>>

-----------------------------------------------------------------------------
(* exit_sem *)

ExitStart(t) ==
  LET l == proc[t].undo_list IN
  /\ proc[t].pc = "idle" /\ l # NOBODY
  /\ ulp' = [ulp EXCEPT ![l].refcnt = @ - 1]
  /\ proc' = [proc EXCEPT ![t].undo_list = NOBODY, ![t].sma = l,
                          ![t].pc = IF ulp[l].refcnt = 1 THEN "exit" ELSE "gone"]
  /\ UNCHANGED <<sem_ids, sma, un, arrays>>

\* semid of the first entry, or -1 when there is none
FirstSemid(l) == IF ulp[l].list_proc = <<>> THEN -1 ELSE un[Head(ulp[l].list_proc)].semid

\* the first entry is read in an RCU section; -1 ends the loop
ExitPeek(t) ==
  LET l == proc[t].sma IN
  /\ proc[t].pc = "exit"
  /\ \/ /\ FirstSemid(l) # -1
        /\ proc' = [proc EXCEPT ![t].pc = "exitlock", ![t].un = Head(ulp[l].list_proc),
                                ![t].semid = FirstSemid(l)]
        /\ UNCHANGED ulp
     \/ /\ FirstSemid(l) = -1
        /\ proc' = [proc EXCEPT ![t] = [Idle(t) EXCEPT !.pc = "gone"]]
        /\ ulp' = [ulp EXCEPT ![l].mem = "freed"]
  /\ UNCHANGED <<sem_ids, sma, un, arrays>>

\* un->semid as read again after rcu_read_unlock: of freed memory, anything
Reread(u) == IF un[u].mem = "free" THEN -1..IPCMNI * (SEQ_MAX + 1) - 1 ELSE {un[u].semid}

\* the array of that identifier is locked, the structure looked up again,
\* unlinked, applied and freed; or there is nothing to do
ExitApply(t) ==
  LET l == proc[t].sma IN
  /\ proc[t].pc = "exitlock"
  /\ \E id \in Reread(proc[t].un) :
     \/ /\ NoSuchArray(id)
        /\ UNCHANGED <<sma, ulp, un>>
     \/ \E a \in sem_lock_check(id) :
        \/ /\ On(l, proc[t].semid) = {}
           /\ UNCHANGED <<sma, ulp, un>>
        \/ \E u \in On(l, proc[t].semid) :
           /\ ulp[l].holder = NOBODY
           /\ sma' = [sma EXCEPT ![a].list_id = @ \ {u}, ![a].val = @ + un[u].adj]
           /\ ulp' = [ulp EXCEPT ![l].list_proc = Remove(@, u)]
           /\ un' = [un EXCEPT ![u].mem = "call_rcu"]
  /\ proc' = [proc EXCEPT ![t].pc = "exit", ![t].semid = -1, ![t].un = NOBODY]
  /\ UNCHANGED <<sem_ids, arrays>>

Next ==
  \/ \E a \in Sems : RcuFreeArray(a)
  \/ \E u \in Undos : RcuFreeUndo(u)
  \/ \E t \in Admins :
       \/ \E a \in Sems : newary(t, a) \/ RmidStart(t, a)
       \/ \E u \in Undos : FreearyMark(t, u)
       \/ FreearyUnlink(t) \/ FreearyEnd(t)
  \/ \E t \in Users :
       \/ \E u \in Users, l \in Lists : copy_semundo(t, u, l)
       \/ \E l \in Lists, a \in Sems : sma[a].mem = "live" /\ FindUndo(t, l, sma[a].id)
       \/ FindArray(t) \/ AllocFails(t) \/ SemopFails(t)
       \/ \E u \in Undos : LinkUndo(t, u)
       \/ \E op \in {-1, 1} : Semop(t, op)
       \/ ExitStart(t) \/ ExitPeek(t) \/ ExitApply(t)

Spec == Init /\ [][Next]_undoVars

-----------------------------------------------------------------------------
(* Properties *)


\* exit_sem frees the list of the last process only when no undo structure
\* is left on it ("add semadj values to semaphores, free undo structures").
ExitFreesUndo ==
  \A u \in Undos : un[u].mem = "live" => ulp[un[u].ulp].mem = "live"
=============================================================================
