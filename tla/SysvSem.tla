------------------------------ MODULE SysvSem ------------------------------
(***************************************************************************)
(* One semaphore array of ipc/sem.c: semtimedop with its pending lists,    *)
(* update_queue with the short cuts of do_smart_update and check_restart,  *)
(* wake-ups done after the unlock (IN_WAKEUP), SEM_UNDO adjustments, SETVAL*)
(* SETALL, IPC_RMID and the adjustments at exit.  Every critical section   *)
(* of the array's spinlock is one action; what follows sem_unlock is not.  *)
(***************************************************************************)
EXTENDS Integers, FiniteSets, Sequences, SequencesExt

CONSTANTS Tasks,          \* processes, each with an undo list of its own
          Sems,           \* semaphore numbers
          SEMVMX, SEMAEM, \* largest semval, largest |semadj|
          SemScopes       \* who does what, see scope

\* what the constants are assumed to be
SemAssumption ==
  /\ SEMVMX \in Nat \ {0} /\ SEMAEM \in Nat
  /\ \A sc \in SemScopes : sc.ctl \subseteq Tasks /\ sc.signals \in BOOLEAN /\ \A t \in Tasks :
       \A ops \in sc.ops[t] : ops # <<>> /\ \A k \in 1..Len(ops) :
         ops[k] \in [num : Sems, op : Int, undo : BOOLEAN, nowait : BOOLEAN]

VARIABLES
  arr,       \* the array and its undo structures, see Arrays below
  deleted,
  pc, tstate, interrupted,  \* per task; interrupted: signal or timeout
  sops,      \* per task: the operations it sleeps on
  status,    \* per task: queue.status
  wake,      \* per task: its wake-up list `tasks`, pairs of sleeper and result
  scope      \* of this behaviour: per task, the arrays of struct sembuf it
             \* calls semop with; who calls semctl and exits; are there signals

vars == <<arr, deleted, pc, tstate, interrupted, sops, status, wake, scope>>

(***************************************************************************)
(* arr.val     semval                  arr.adj      semadj of each process *)
(* arr.pend    sem_pending             arr.simple   per-semaphore lists    *)
(* arr.cc      complex_count           arr.base     history: the value a   *)
(*                                     semaphore has with every adjustment *)
(*                                     applied                             *)
(* arr.out     wake-ups prepared in this critical section                  *)
(***************************************************************************)

-----------------------------------------------------------------------------
(* try_atomic_semop *)

\* One turn of the first loop: acc is "ok" so far, or the failure.
TryOne(acc, sop, adj) ==
  LET v == acc.val[sop.num]
      blocked == (sop.op = 0 /\ v # 0) \/ v + sop.op < 0
      range == \/ v + sop.op > SEMVMX
               \/ sop.undo /\ adj[sop.num] - sop.op \notin -SEMAEM - 1..SEMAEM
  IN  IF acc.res # "ok" THEN acc
      ELSE IF blocked THEN [acc EXCEPT !.res = IF sop.nowait THEN "EAGAIN" ELSE "block"]
      ELSE IF range THEN [acc EXCEPT !.res = "ERANGE"]
      ELSE [acc EXCEPT !.val[sop.num] = v + sop.op]

Outcome(st, t, ops) ==
  FoldLeft(LAMBDA acc, sop : TryOne(acc, sop, st.adj[t]), [res |-> "ok", val |-> st.val], ops)

Total(ops, i, undo) ==
  FoldLeft(LAMBDA n, sop : IF sop.num = i /\ sop.undo = undo THEN n + sop.op ELSE n, 0, ops)

\* all operations done: the values, and the second loop's adjustments
Done(st, t, ops) ==
  [st EXCEPT !.val = Outcome(st, t, ops).val,
             !.adj[t] = [i \in Sems |-> @[i] - Total(ops, i, TRUE)],
             !.base = [i \in Sems |-> @[i] + Total(ops, i, FALSE)]]

-----------------------------------------------------------------------------
(* The pending lists and update_queue *)

Alter(ops) == \E k \in 1..Len(ops) : ops[k].op # 0

\* list_add_tail for altering operations, list_add for the others
Add(list, t, ops) == IF Alter(ops) THEN Append(list, t) ELSE <<t>> \o list

link_queue(st, t, ops) ==
  IF Len(ops) = 1
  THEN [st EXCEPT !.pend = Add(@, t, ops), !.simple[ops[1].num] = Add(@, t, ops)]
  ELSE [st EXCEPT !.pend = Add(@, t, ops), !.cc = @ + 1]

unlink_queue(st, t) ==
  IF Len(sops[t]) = 1
  THEN [st EXCEPT !.pend = Remove(@, t), !.simple[sops[t][1].num] = Remove(@, t)]
  ELSE [st EXCEPT !.pend = Remove(@, t), !.cc = @ - 1]

\* mutant: those that wait for zero are forgotten
check_restart_nozero(st, t) == Alter(sops[t]) /\ (st.cc > 0 \/ Len(sops[t]) > 1)

\* must the scan start again after t's operation was completed?
check_restart(st, t) ==
  LET i == sops[t][1].num IN
  /\ Alter(sops[t])
  /\ \/ st.cc > 0
     \/ Len(sops[t]) > 1
     \/ /\ st.simple[i] # <<>> /\ st.val[i] = 0
        /\ sops[Head(st.simple[i])][1].op = 0

\* wake_up_sem_queue_prepare
Prepare(st, t, res) == [st EXCEPT !.out = Append(@, <<t, res>>)]

\* update_queue from the k-th entry on; semnum is a semaphore, or -1 for all
RECURSIVE Scan(_, _, _)
Scan(st, semnum, k) ==
  LET list == IF semnum = -1 THEN st.pend ELSE st.simple[semnum]
      t == list[k]
      res == Outcome(st, t, sops[t]).res
      next == IF res = "ok" THEN Done(unlink_queue(st, t), t, sops[t]) ELSE unlink_queue(st, t)
  IN  IF k > Len(list) THEN st
      ELSE IF semnum # -1 /\ st.val[semnum] = 0 /\ Alter(sops[t]) THEN st
      ELSE IF res = "block" THEN Scan(st, semnum, k + 1)
      ELSE Scan(Prepare(next, t, res), semnum,
                IF res = "ok" /\ check_restart(next, t) THEN 1 ELSE k)

update_queue(st, semnum) == Scan(st, IF st.cc > 0 THEN -1 ELSE semnum, 1)

\* do_smart_update after the operations ops, or after any change (sops NULL)
do_smart_update(st, ops) ==
  IF st.cc > 0 THEN update_queue(st, -1)
  ELSE FoldLeft(LAMBDA s, sop :
         IF sop.op > 0 \/ (sop.op < 0 /\ s.val[sop.num] = 0)
         THEN update_queue(s, sop.num) ELSE s, st, ops)

do_full_update(st) == update_queue(st, -1)

-----------------------------------------------------------------------------
(* What every critical section ends with *)

\* sem_unlock: the prepared sleepers are IN_WAKEUP, and t has them to wake.
\* A caller with nobody to wake returns.
Publish(t, st) ==
  /\ arr' = [st EXCEPT !.out = <<>>]
  /\ status' = [u \in Tasks |->
       IF \E k \in 1..Len(st.out) : st.out[k][1] = u THEN "IN_WAKEUP" ELSE status[u]]
  /\ wake' = [wake EXCEPT ![t] = st.out]
  /\ pc' = [pc EXCEPT ![t] = IF st.out = <<>> THEN "idle" ELSE "wake"]

-----------------------------------------------------------------------------
(* semtimedop *)

\* try_atomic_semop succeeds: do_smart_update if the array was altered.  A
\* call that ends in an error changes nothing.
SemopNow(t, ops) ==
  /\ pc[t] = "idle" /\ ~deleted
  /\ Outcome(arr, t, ops).res = "ok"
  /\ Publish(t, LET st == Done(arr, t, ops)
                IN  IF Alter(ops) THEN do_smart_update(st, ops) ELSE st)
  /\ UNCHANGED <<deleted, tstate, interrupted, sops>>

SemopSleep(t, ops) ==
  /\ pc[t] = "idle" /\ ~deleted
  /\ Outcome(arr, t, ops).res = "block"
  /\ arr' = link_queue(arr, t, ops)
  /\ sops' = [sops EXCEPT ![t] = ops]
  /\ status' = [status EXCEPT ![t] = "EINTR"]
  /\ pc' = [pc EXCEPT ![t] = "sleep"] /\ tstate' = [tstate EXCEPT ![t] = "sleeping"]
  /\ UNCHANGED <<deleted, interrupted, wake>>

\* back to user space, the struct sem_queue on the stack is gone
Leave(t) ==
  /\ pc' = [pc EXCEPT ![t] = "idle"]
  /\ interrupted' = [interrupted EXCEPT ![t] = FALSE]
  /\ sops' = [sops EXCEPT ![t] = <<>>] /\ status' = [status EXCEPT ![t] = "none"]

\* schedule returned; get_queue_result spins while IN_WAKEUP; anything but
\* -EINTR is the result, accepted without the lock
SemopAwake(t) ==
  /\ pc[t] = "sleep" /\ tstate[t] = "running" /\ status[t] # "IN_WAKEUP"
  /\ \/ status[t] # "EINTR" /\ Leave(t)
     \/ /\ status[t] = "EINTR" /\ pc' = [pc EXCEPT ![t] = "relock"]
        /\ UNCHANGED <<interrupted, sops, status>>
  /\ UNCHANGED <<arr, deleted, tstate, wake>>

\* mutant: the second get_queue_result is left out
SemopRelockBlind(t) ==
  /\ pc[t] = "relock" /\ Leave(t)
  /\ arr' = IF deleted THEN arr ELSE unlink_queue(arr, t)
  /\ UNCHANGED <<deleted, tstate, wake>>

\* sem_lock(semid): no array, -EIDRM; else get_queue_result again, and a
\* sleeper nobody has answered unlinks itself: -EINTR or -EAGAIN
SemopRelock(t) ==
  /\ pc[t] = "relock"
  /\ \/ deleted /\ UNCHANGED arr
     \/ ~deleted /\ status[t] \notin {"IN_WAKEUP", "EINTR"} /\ UNCHANGED arr
     \/ ~deleted /\ status[t] = "EINTR" /\ arr' = unlink_queue(arr, t)
  /\ Leave(t)
  /\ UNCHANGED <<deleted, tstate, wake>>

\* wake_up_sem_queue_do: wake_up_process, then q->status := the result
WakeProcess(t) ==
  /\ pc[t] = "wake"
  /\ tstate' = [tstate EXCEPT ![wake[t][1][1]] = "running"]
  /\ pc' = [pc EXCEPT ![t] = "status"]
  /\ UNCHANGED <<arr, deleted, interrupted, sops, status, wake>>

\* (a store into the stack of a task that has left hits nothing modelled)
WakeStatus(t) ==
  /\ pc[t] = "status"
  /\ LET u == wake[t][1][1] IN
     status' = IF pc[u] = "idle" THEN status ELSE [status EXCEPT ![u] = wake[t][1][2]]
  /\ wake' = [wake EXCEPT ![t] = Tail(@)]
  /\ pc' = [pc EXCEPT ![t] = IF Len(wake[t]) = 1 THEN "idle" ELSE "wake"]
  /\ UNCHANGED <<arr, deleted, tstate, interrupted, sops>>

-----------------------------------------------------------------------------
(* semctl and exit *)

Setval(st, i, v) ==
  [st EXCEPT !.val[i] = v, !.base[i] = v, !.adj = [p \in Tasks |-> [@[p] EXCEPT ![i] = 0]]]

SemctlSetval(t, i, v) ==
  /\ pc[t] = "idle" /\ ~deleted
  /\ Publish(t, do_full_update(Setval(arr, i, v)))
  /\ UNCHANGED <<deleted, tstate, interrupted, sops>>

\* SETALL, from the second sem_lock on
SemctlSetall(t, vals) ==
  /\ pc[t] = "idle" /\ ~deleted
  /\ Publish(t, do_full_update([arr EXCEPT !.val = vals, !.base = vals,
                                           !.adj = [p \in Tasks |-> [i \in Sems |-> 0]]]))
  /\ UNCHANGED <<deleted, tstate, interrupted, sops>>

\* freeary: every sleeper gets -EIDRM; the undo structures go too
SemctlRmid(t) ==
  /\ pc[t] = "idle" /\ ~deleted
  /\ deleted' = TRUE
  /\ Publish(t, FoldLeft(LAMBDA st, u : Prepare(unlink_queue(st, u), u, "EIDRM"), arr, arr.pend))
  /\ UNCHANGED <<tstate, interrupted, sops>>

\* mutant: an adjustment that would leave the range is ignored
ExitValueIgnored(st, p, i) ==
  IF st.val[i] + st.adj[p][i] \in 0..SEMVMX THEN st.val[i] + st.adj[p][i] ELSE st.val[i]

\* exit_sem: the adjusted value, capped at 0 and at SEMVMX
ExitValue(st, p, i) ==
  LET v == st.val[i] + st.adj[p][i]
  IN  IF st.adj[p][i] = 0 THEN st.val[i]
      ELSE IF v < 0 THEN 0 ELSE IF v > SEMVMX THEN SEMVMX ELSE v

\* by how much an adjusted value must be moved to be a legal one
Excess(v) == v - CHOOSE w \in 0..SEMVMX : \A x \in 0..SEMVMX :
                   (w - v) * (w - v) <= (x - v) * (x - v)

\* exit_sem of one undo structure.  Of what it takes away from the history
\* only the excess is lost.
Adjusted(st, p) ==
  [st EXCEPT !.val = [i \in Sems |-> ExitValue(st, p, i)],
             !.base = [i \in Sems |-> @[i] - Excess(st.val[i] + st.adj[p][i])],
             !.adj[p] = [i \in Sems |-> 0]]

ExitSem(t) ==
  /\ pc[t] = "idle" /\ ~deleted
  /\ Publish(t, do_full_update(Adjusted(arr, t)))
  /\ UNCHANGED <<deleted, tstate, interrupted, sops>>

\* a signal, or the end of the timeout
Interrupt(t) ==
  /\ pc[t] = "sleep" /\ ~interrupted[t]
  /\ interrupted' = [interrupted EXCEPT ![t] = TRUE]
  /\ tstate' = [tstate EXCEPT ![t] = "running"]
  /\ UNCHANGED <<arr, deleted, pc, sops, status, wake>>

-----------------------------------------------------------------------------
Zeros == [i \in Sems |-> 0]

Init ==
  /\ arr = [val |-> Zeros, adj |-> [p \in Tasks |-> Zeros], pend |-> <<>>,
            simple |-> [i \in Sems |-> <<>>], cc |-> 0, base |-> Zeros, out |-> <<>>]
  /\ deleted = FALSE
  /\ pc = [t \in Tasks |-> "idle"] /\ tstate = [t \in Tasks |-> "running"]
  /\ interrupted = [t \in Tasks |-> FALSE]
  /\ sops = [t \in Tasks |-> <<>>] /\ status = [t \in Tasks |-> "none"]
  /\ wake = [t \in Tasks |-> <<>>] /\ scope \in SemScopes

Control(t) ==
  \/ \E i \in Sems, v \in 0..SEMVMX : SemctlSetval(t, i, v)
  \/ \E vals \in [Sems -> 0..SEMVMX] : SemctlSetall(t, vals)
  \/ SemctlRmid(t) \/ ExitSem(t)

Next ==
  /\ \E t \in Tasks :
       \/ \E ops \in scope.ops[t] : SemopNow(t, ops) \/ SemopSleep(t, ops)
       \/ SemopAwake(t) \/ SemopRelock(t) \/ WakeProcess(t) \/ WakeStatus(t)
       \/ t \in scope.ctl /\ Control(t)
       \/ scope.signals /\ Interrupt(t)
  /\ UNCHANGED scope

Spec == Init /\ [][Next]_vars

-----------------------------------------------------------------------------
(* Properties *)

\* "undo adjustments at process exit are limited to 0..SEMVMX", and so is
\* every value try_atomic_semop, update_queue and semctl leave behind.
SemTypeOK ==
  /\ arr.val \in [Sems -> 0..SEMVMX] /\ arr.base \in [Sems -> Int]
  /\ arr.adj \in [Tasks -> [Sems -> -SEMAEM - 1..SEMAEM]]
  /\ arr.pend \in Seq(Tasks) /\ arr.simple \in [Sems -> Seq(Tasks)]
  /\ arr.cc \in Nat /\ arr.out = <<>>
  /\ pc \in [Tasks -> {"idle", "sleep", "relock", "wake", "status"}]
  /\ tstate \in [Tasks -> {"running", "sleeping"}]
  /\ status \in [Tasks -> {"none", "EINTR", "IN_WAKEUP", "ok", "EAGAIN", "ERANGE", "EIDRM"}]

\* No operation is left pending that could be carried out or would fail now:
\* the short cuts of do_smart_update, update_queue and check_restart never
\* skip an entry that matters.
NoRunnablePending ==
  \A k \in 1..Len(arr.pend) :
    Outcome(arr, arr.pend[k], sops[arr.pend[k]]).res = "block"

Ranked(list) == \A j, k \in 1..Len(list) : j < k => Alter(sops[list[k]]) \/ ~Alter(sops[list[j]])

\* The lists describe the sleepers nobody has answered, each once: the
\* per-semaphore lists are the simple operations in the order of sem_pending,
\* those that wait for zero come first (check_restart relies on it),
\* complex_count is the number of the others, and a simple altering sleeper
\* is a decrement, which check_restart asserts.
PendingLists ==
  /\ IsInjective(arr.pend) /\ Ranked(arr.pend)
  /\ \A t \in Tasks : Contains(arr.pend, t) <=>
       ~deleted /\ pc[t] \in {"sleep", "relock"} /\ status[t] = "EINTR"
  /\ \A i \in Sems : arr.simple[i] =
       SelectSeq(arr.pend, LAMBDA t : Len(sops[t]) = 1 /\ sops[t][1].num = i)
  /\ arr.cc = Len(SelectSeq(arr.pend, LAMBDA t : Len(sops[t]) > 1))
  /\ \A k \in 1..Len(arr.pend) : LET ops == sops[arr.pend[k]] IN Len(ops) = 1 => ops[1].op <= 0

\* What the operations without SEM_UNDO and semctl made of a semaphore is
\* its value plus all adjustments still registered: an undone process leaves
\* no trace but the part of its adjustments that 0..SEMVMX has no room for
\* ("Linux caps the semaphore value, both at 0 and at SEMVMX"); and every value stays within 0..SEMVMX, every adjustment within
\* SEMAEM, in a well typed state.
UndoBalance ==
  /\ SemTypeOK
  /\ ~deleted => \A i \in Sems :
       arr.val[i] + SumFunction([p \in Tasks |-> arr.adj[p][i]]) = arr.base[i]

\* "the tasks can disappear as soon as the status is set to the actual return
\* code": until then a task on a wake-up list is inside semtimedop, its
\* struct sem_queue still there to be read and written.
WokenIsInside ==
  \A t \in Tasks : \A k \in 1..Len(wake[t]) :
    pc[wake[t][k][1]] \in {"sleep", "relock"} /\ status[wake[t][k][1]] = "IN_WAKEUP"

=============================================================================
