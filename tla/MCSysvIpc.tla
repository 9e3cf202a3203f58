----------------------------- MODULE MCSysvIpc -----------------------------
(***************************************************************************)
(* Small instances of a message queue (SysvMsg) and of a semaphore array   *)
(* (SysvSem).  They share no state, so a behaviour runs one of them;       *)
(* `part' says which, and the variables of the other stay as they are.     *)
(***************************************************************************)
EXTENDS SysvMsg, TLC

CONSTANTS m1, m2, m3, t1, t2, t3, t4,
          Sems, SEMVMX, SEMAEM,
          Parts           \* the components this configuration runs

VARIABLES arr, semgone, sempc, semtask, interrupted, sops, status, wake, semscope, part

-----------------------------------------------------------------------------
(* Message queues *)

\* two messages of one type, one too long for some receivers, an empty one
MCType == (m1 :> 2) @@ (m2 :> 1) @@ (m3 :> 2)
MCSize == (m1 :> 1) @@ (m2 :> 2) @@ (m3 :> 0)
OneType == m1 :> 1
OneSize == m1 :> 1

Arg(typ, sz, noerr, exc, nowait) ==
  [msgtyp |-> typ, msgsz |-> sz, noerror |-> noerr, except |-> exc, nowait |-> nowait]

\* each search mode, each size rule, with and without IPC_NOWAIT
MCArgs == {Arg(0, 1, FALSE, FALSE, FALSE), Arg(-2, 0, TRUE, FALSE, FALSE),
           Arg(2, 2, FALSE, FALSE, FALSE), Arg(2, 2, FALSE, TRUE, TRUE)}
OneArg == {Arg(0, 1, FALSE, FALSE, FALSE)}

Min4Bits == -8

OpenMode == {{"r", "w"}}
TwoModes == {{"r", "w"}, {}}

-----------------------------------------------------------------------------
(* Semaphores *)

Sop(num, op, undo, nowait) == [num |-> num, op |-> op, undo |-> undo, nowait |-> nowait]
Plain(num, op) == Sop(num, op, FALSE, FALSE)

\* simple increments, decrements and waits for zero, with and without
\* SEM_UNDO, and an operation on both semaphores
MCOps == {<<Plain(1, 1)>>, <<Sop(1, -2, TRUE, FALSE)>>, <<Plain(1, 0)>>,
          <<Sop(2, 1, TRUE, FALSE), Plain(1, -1)>>}

\* what a sleeper may wait for when a fourth process posts; the last one may
\* also be refused after it slept
SleepOps == {<<Plain(1, -1)>>, <<Plain(1, -2)>>, <<Plain(1, 0)>>, <<Plain(2, 0), Plain(1, -1)>>,
             <<Plain(2, 0), Sop(1, -2, FALSE, TRUE)>>}

SemTasks == {t1, t2, t3, t4}

ThreeTasks(ops) == [t \in SemTasks |-> IF t = t4 THEN {} ELSE ops]

\* three processes that do everything, with signals except when they also wait
\* for zero, and three that only wait, at the same time, for a fourth
MCSemScopes ==
  {[ops |-> ThreeTasks(MCOps \ {<<Plain(1, 0)>>}), ctl |-> {t1, t2, t3}, signals |-> TRUE],
   [ops |-> ThreeTasks(MCOps), ctl |-> {t1, t2, t3}, signals |-> FALSE],
   [ops |-> [t \in SemTasks |-> IF t = t4 THEN {<<Plain(1, 1)>>, <<Plain(1, 2)>>, <<Plain(2, 1)>>,
                                                <<Plain(2, -1)>>} ELSE SleepOps],
    ctl |-> {t4}, signals |-> FALSE]}

S == INSTANCE SysvSem WITH
  Tasks <- SemTasks, SemScopes <- MCSemScopes, deleted <- semgone, pc <- sempc,
  tstate <- semtask, scope <- semscope

ASSUME MCSemAssumption == S!SemAssumption

-----------------------------------------------------------------------------

semVars == <<arr, semgone, sempc, semtask, interrupted, sops, status, wake, semscope>>

SysvInit ==
  /\ part \in Parts /\ Init
  /\ IF part = "sem"
     THEN S!Init /\ q_qbytes = (CHOOSE b \in QBytes : TRUE) /\ q_mode = (CHOOSE m \in Modes : TRUE)
     ELSE arr = 0 /\ semgone = 0 /\ sempc = 0 /\ semtask = 0 /\ interrupted = 0 /\ sops = 0
          /\ status = 0 /\ wake = 0 /\ semscope = 0

SysvNext ==
  \/ part = "msg" /\ Next /\ UNCHANGED <<semVars, part>>
  \/ part = "sem" /\ S!Next /\ UNCHANGED <<vars, part>>

SysvSpec == SysvInit /\ [][SysvNext]_<<vars, semVars, part>>

\* with the fairness of SysvMsg, for configurations that run the queue alone
SysvFairSpec == SysvSpec /\ Fairness

\* t1, t2 and t3 may be exchanged: t4 only posts
TaskSymmetry == Permutations({t1, t2, t3})

\* No operation is left pending that could be carried out or would fail now
\* (SysvSem.NoRunnablePending).
NoRunnablePending == part = "sem" => S!NoRunnablePending

\* The pending lists describe the sleepers nobody has answered
\* (SysvSem.PendingLists).
PendingLists == part = "sem" => S!PendingLists

\* Values and registered adjustments balance (SysvSem.UndoBalance).
UndoBalance == part = "sem" => S!UndoBalance

\* A task on a wake-up list is still inside semtimedop (SysvSem.WokenIsInside).
WokenIsInside == part = "sem" => S!WokenIsInside
=============================================================================
