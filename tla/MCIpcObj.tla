------------------------------ MODULE MCIpcObj ------------------------------
(***************************************************************************)
(* The lifetimes of SysV objects: one small instance of SysvShm (shared    *)
(* memory, identifier tables, namespaces and their notifier chain) and one *)
(* of SemUndo (undo lists against array removal and task exit).  The two   *)
(* share no state, so a behaviour runs one of them; `part' says which.     *)
(***************************************************************************)
EXTENDS SysvShm, TLC

CONSTANTS n0, n1, t1, t2,
          Users, Admins, Sems, Undos, Lists, SEMVMX, SEMAEM, MaxArrays,
          Parts               \* the components this configuration runs

VARIABLES sem_ids, sma, ulp, un, proc, arrays, part

U == INSTANCE SemUndo WITH SEQ_MAX <- 0

undoVars == <<sem_ids, sma, ulp, un, proc, arrays>>
allVars == <<vars, undoVars, part>>

\* How far a behaviour of SysvShm goes: segments made per namespace, the
\* tasks that read /proc/sysvipc/shm and the tasks that change namespace.
Sc(a, b, r, m) ==
  [made |-> (n0 :> a) @@ (n1 :> b), readers |-> r, movers |-> m]

ShmScopes == {Sc(3, 0, {}, {}), Sc(2, 0, {t1, t2}, {}),
              Sc(0, 1, {}, {t1, t2}), Sc(0, 1, {t1}, {t1})}

IpcObjInit ==
  /\ Init /\ U!Init /\ part \in Parts
  /\ part = "undo" => scope = Sc(3, 0, {}, {})

IpcObjNext ==
  \/ part = "shm" /\ Next /\ UNCHANGED <<undoVars, part>>
  \/ part = "undo" /\ U!Next /\ UNCHANGED <<vars, part>>

IpcObjSpec == IpcObjInit /\ [][IpcObjNext]_allVars

\* Segs and Undos have the same members: one of the two is at rest.
Symmetry == Permutations(Segs) \cup Permutations(Sems)


\* exit_sem() frees every undo structure of the exiting process
\* (SemUndo.ExitFreesUndo).
ExitFreesUndo == U!ExitFreesUndo
=============================================================================
