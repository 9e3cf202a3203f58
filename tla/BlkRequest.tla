----------------------------- MODULE BlkRequest -----------------------------
(***************************************************************************)
(* The request list of a queue: allocation of requests with its limits,    *)
(* batching and exclusive waiters (blk-core.c), plug lists, synchronous    *)
(* execution (blk-exec.c), changes of nr_requests (blk-sysfs.c), and the   *)
(* switch of elevators, which waits until no request has private data of   *)
(* the old one (elevator.c).                                               *)
(*                                                                         *)
(* A request in flight is told apart by where it is, its direction and the *)
(* elevator its private data belongs to, so `reqs' counts requests of each *)
(* such kind; a request a task is working on is in the task's record.      *)
(***************************************************************************)
EXTENDS Integers, Sequences, FiniteSets, FiniteSetsExt, SequencesExt, TLC

CONSTANTS Tasks, Elevators, InitElevator,
          RqScopes      \* bounds explored together, see rqscope

VARIABLES
  rl,    \* count, starved and wait per direction, elvpriv
  q,     \* nr_requests; full, congested per direction; elvswitch; elevator
  elv,   \* per elevator: none or live
  reqs,  \* requests in a plug list, in the elevator, or dispatched
  task,  \* per task: pc, plugged?, ioc (batch left, -1 without context), and
         \* the request being made: sync, kind, wait, priv, elevator
  sw,    \* elevator_switch: pc, new, old
  rqscope \* the bounds of this behaviour: values of nr_requests, nr_batching,
          \* tasks, directions and kinds of requests, tasks that plug, whether
          \* private data may fail to be had, elevators to switch to

rqVars == <<rl, q, elv, reqs, task, sw, rqscope>>

Dirs == {"sync", "async"}
Other(s) == IF s = "sync" THEN "async" ELSE "sync"
NONE == "none"
Kinds == (Tasks \cup {"elv", "disp"}) \X Dirs \X (Elevators \cup {NONE})

blk_queue_congestion_threshold(nr) ==
  LET off == nr - nr \div 8 - nr \div 16 - 1 IN
  [on |-> Min({nr - nr \div 8 + 1, nr}), off |-> Max({off, 1})]
On == blk_queue_congestion_threshold(q.nr).on
Off(nr) == blk_queue_congestion_threshold(nr).off

\* a task that is not making a request
Running(plug, ioc) ==
  [pc |-> "run", plug |-> plug, ioc |-> ioc, sync |-> "sync", kind |-> "fs",
   wait |-> TRUE, priv |-> FALSE, elv |-> NONE, counted |-> FALSE]

RqInit ==
  \E nr \in {Max(sc.nr) : sc \in RqScopes} :
  /\ rqscope \in {sc \in RqScopes : Max(sc.nr) = nr}
  /\ rl = [count |-> [s \in Dirs |-> 0], starved |-> [s \in Dirs |-> FALSE],
           wait |-> [s \in Dirs |-> <<>>], elvpriv |-> 0]
  /\ q = [nr |-> nr, full |-> [s \in Dirs |-> FALSE],
          congested |-> [s \in Dirs |-> FALSE], elvswitch |-> FALSE,
          elevator |-> InitElevator]
  /\ elv = [e \in Elevators |-> IF e = InitElevator THEN "live" ELSE NONE]
  /\ reqs = [k \in Kinds |-> 0]
  /\ task = [t \in Tasks |-> Running(FALSE, -1)]
  /\ sw = [pc |-> "idle", new |-> NONE, old |-> NONE]

-----------------------------------------------------------------------------
(* Release *)

\* wake_up on an exclusive wait queue whose entries remove themselves
WakeFirst(ws) == IF ws = <<>> THEN ws ELSE Tail(ws)
Woken(tk, ws) ==
  IF ws = <<>> THEN tk
  ELSE [tk EXCEPT ![Head(ws)].pc = IF @ = "sleep" THEN "woken" ELSE @]

\* mutant: the limit is off by one
freed_one_late(st, s) ==
  LET room == st.rl.count[s] + 1 < st.q.nr
      calm == st.rl.count[s] < Off(st.q.nr) IN
  [rl |-> IF room THEN [st.rl EXCEPT !.wait[s] = WakeFirst(@)] ELSE st.rl,
   q  |-> [st.q EXCEPT !.congested[s] = @ /\ ~calm, !.full[s] = @ /\ ~room],
   task |-> IF room THEN Woken(st.task, st.rl.wait[s]) ELSE st.task]

\* __freed_request on the state st = [rl, q, task]
freed_one(st, s) ==
  LET room == st.rl.count[s] + 1 <= st.q.nr
      calm == st.rl.count[s] < Off(st.q.nr) IN
  [rl |-> IF room THEN [st.rl EXCEPT !.wait[s] = WakeFirst(@)] ELSE st.rl,
   q  |-> [st.q EXCEPT !.congested[s] = @ /\ ~calm, !.full[s] = @ /\ ~room],
   task |-> IF room THEN Woken(st.task, st.rl.wait[s]) ELSE st.task]

freed_request(tk, s, priv) ==
  LET less == [rl |-> [rl EXCEPT !.count[s] = @ - 1,
                                 !.elvpriv = IF priv THEN @ - 1 ELSE @],
               q |-> q, task |-> tk]
      st == freed_one(less, s) IN
  IF st.rl.starved[Other(s)] THEN freed_one(st, Other(s)) ELSE st

Becomes(st) == rl' = st.rl /\ q' = st.q /\ task' = st.task

-----------------------------------------------------------------------------
(* Allocation *)

\* fresh: the batch was started less than BLK_BATCH_TIME ago
ioc_batching(ioc, fresh) ==
  ioc >= 0 /\ (ioc = rqscope.batch \/ (ioc > 0 /\ fresh))
ioc_set_batching(ioc, fresh) ==
  IF ioc < 0 \/ ioc_batching(ioc, fresh) THEN ioc ELSE rqscope.batch

\* current_io_context: the task's, or a new one if memory allows
current_io_context(t) == IF task[t].ioc >= 0 THEN {task[t].ioc} ELSE {-1, 0}

\* flush requests do without the elevator
blk_rq_should_init_elevator(kind) == kind # "flush"

\* no request: sleep exclusively, or return NULL to a caller that cannot
NoRequest(t, s, ioc, wait, kind) ==
  /\ rl' = [rl EXCEPT !.wait[s] = IF wait THEN Append(@, t) ELSE @]
  /\ task' = [task EXCEPT ![t] = IF ~wait THEN Running(@.plug, ioc)
       ELSE [Running(@.plug, ioc) EXCEPT !.pc = "wait", !.sync = s, !.kind = kind]]

\* get_request with the queue lock held; ioc0 is the task's context, which
\* it looks at only when this request would fill the queue
get_request(t, s, kind, wait, ioc0, fresh, must) ==
  LET fills == rl.count[s] + 1 >= q.nr
      ioc == IF fills /\ ~q.full[s] THEN ioc_set_batching(ioc0, fresh) ELSE ioc0
      priv == blk_rq_should_init_elevator(kind) /\ ~q.elvswitch
      marked == [q EXCEPT !.full[s] = @ \/ fills,
                          !.congested[s] = @ \/ rl.count[s] + 1 >= On] IN
  \/ /\ fills /\ q.full[s] /\ ~must /\ ~ioc_batching(ioc, fresh)
     /\ NoRequest(t, s, ioc, wait, kind)
     /\ UNCHANGED q
  \/ /\ ~fills \/ ~q.full[s] \/ must \/ ioc_batching(ioc, fresh)
     /\ q' = marked
     /\ \/ /\ rl.count[s] >= (3 * q.nr) \div 2
           /\ NoRequest(t, s, ioc, wait, kind)
        \/ /\ rl.count[s] < (3 * q.nr) \div 2
           /\ rl' = [rl EXCEPT !.count[s] = @ + 1, !.starved[s] = FALSE,
                               !.elvpriv = IF priv THEN @ + 1 ELSE @]
           /\ task' = [task EXCEPT ![t].pc = "alloc", ![t].ioc = ioc, ![t].sync = s,
                                   ![t].kind = kind, ![t].wait = wait, ![t].priv = priv,
                                   ![t].counted = fills]

\* __make_request for a bio, or blk_get_request with or without __GFP_WAIT
Submit(t, s, kind, wait) ==
  /\ task[t].pc = "run" /\ (wait \/ kind = "pc")
  /\ IF rl.count[s] + 1 < q.nr THEN get_request(t, s, kind, wait, task[t].ioc, FALSE, FALSE)
     ELSE \E ioc \in current_io_context(t), fresh, must \in BOOLEAN :
            get_request(t, s, kind, wait, ioc, fresh, must)
  /\ UNCHANGED <<elv, reqs, sw, rqscope>>

\* blk_alloc_request; the mempool waits, elv_set_request may fail.  The
\* elevator is read without the queue lock.
blk_alloc_request(t) ==
  /\ task[t].pc = "alloc"
  /\ \E fresh \in BOOLEAN :
       task' = [task EXCEPT ![t].pc = "have",
         ![t].elv = IF task[t].priv THEN q.elevator ELSE NONE,
         ![t].counted = FALSE,
         ![t].ioc = IF task[t].counted /\ ioc_batching(@, fresh) THEN @ - 1 ELSE @]
  /\ UNCHANGED <<rl, q, elv, reqs, sw, rqscope>>

\* the failure path: undo, mark the direction starved, wait or give up
AllocFailed(t) ==
  LET s == task[t].sync
      st == freed_request(task, s, task[t].priv)
      rl2 == [st.rl EXCEPT !.starved[s] = @ \/ st.rl.count[s] = 0,
                           !.wait[s] = IF task[t].wait THEN Append(@, t) ELSE @] IN
  /\ task[t].pc = "alloc" /\ rqscope.failing /\ (task[t].priv \/ ~task[t].wait)
  /\ rl' = rl2 /\ q' = st.q
  /\ task' = [st.task EXCEPT ![t] = IF ~@.wait THEN Running(@.plug, @.ioc)
       ELSE [Running(@.plug, @.ioc) EXCEPT !.pc = "wait", !.sync = s, !.kind = task[t].kind]]
  /\ UNCHANGED <<elv, reqs, sw, rqscope>>

\* get_request_wait after a wakeup: a batcher now, it tries again
WokenUp(t) ==
  /\ task[t].pc = "woken"
  /\ \E ioc \in current_io_context(t), fresh, must \in BOOLEAN :
       get_request(t, task[t].sync, task[t].kind, TRUE,
                   ioc_set_batching(ioc, fresh), fresh, must)
  /\ UNCHANGED <<elv, reqs, sw, rqscope>>

-----------------------------------------------------------------------------
(* Insertion, plugging, completion *)

\* elv_drain_elevator: what is sorted goes to the dispatch queue
Drained(r) ==
  [k \in Kinds |-> IF k[1] = "elv" THEN 0
                   ELSE IF k[1] = "disp" THEN r[k] + r[<<"elv", k[2], k[3]>>] ELSE r[k]]

\* __elv_add_request: without private data, to the back behind a drain
Placed(r, s, e, kind) ==
  IF e # NONE /\ kind = "fs" THEN [r EXCEPT ![<<"elv", s, e>>] = @ + 1]
  ELSE [(IF kind = "flush" THEN r ELSE Drained(r)) EXCEPT ![<<"disp", s, e>>] = @ + 1]

\* the end of __make_request: onto the plug list of the task or into the queue
AddRequest(t) ==
  LET me == task[t] IN
  /\ me.pc = "have" /\ me.kind # "pc"
  /\ reqs' = IF me.plug THEN [reqs EXCEPT ![<<t, me.sync, me.elv>>] = @ + 1]
             ELSE Placed(reqs, me.sync, me.elv, me.kind)
  /\ task' = [task EXCEPT ![t] = Running(@.plug, @.ioc)]
  /\ UNCHANGED <<rl, q, elv, sw, rqscope>>

\* blk_flush_plug_list: into the elevator, or to the back of the queue for
\* requests without private data (behind a drain unless they are flushes)
Flushed(t) ==
  LET plain == \E s \in Dirs : reqs[<<t, s, NONE>>] > 0
      moved == [k \in Kinds |->
        IF k[1] = t THEN 0
        ELSE IF k[1] = (IF k[3] = NONE THEN "disp" ELSE "elv")
             THEN reqs[k] + reqs[<<t, k[2], k[3]>>] ELSE reqs[k]] IN
  IF plain THEN {moved, Drained(moved)} ELSE {moved}

blk_start_plug(t) ==
  /\ task[t].pc = "run" /\ ~task[t].plug
  /\ task' = [task EXCEPT ![t].plug = TRUE]
  /\ UNCHANGED <<rl, q, elv, reqs, sw, rqscope>>

blk_finish_plug(t) ==
  /\ task[t].pc = "run" /\ task[t].plug
  /\ reqs' \in Flushed(t)
  /\ task' = [task EXCEPT ![t].plug = FALSE]
  /\ UNCHANGED <<rl, q, elv, sw, rqscope>>

\* mutant: the plug list is kept over the sleep
IoScheduleKeeps(t) ==
  /\ task[t].pc \in {"wait", "exec"}
  /\ task' = [task EXCEPT ![t].pc = IF @ = "exec" THEN "execwait"
                                    ELSE IF \E s \in Dirs : t \in ToSet(rl.wait[s])
                                    THEN "sleep" ELSE "woken"]
  /\ UNCHANGED <<rl, q, elv, reqs, sw, rqscope>>

\* a task that blocks flushes its plug list first (io_schedule, schedule);
\* it does not sleep when its wakeup was faster
IoSchedule(t) ==
  /\ task[t].pc \in {"wait", "exec"}
  /\ reqs' \in Flushed(t)
  /\ task' = [task EXCEPT ![t].pc = IF @ = "exec" THEN "execwait"
                                    ELSE IF \E s \in Dirs : t \in ToSet(rl.wait[s])
                                    THEN "sleep" ELSE "woken"]
  /\ UNCHANGED <<rl, q, elv, sw, rqscope>>

\* the driver takes a request from the elevator
Dispatch(s, e) ==
  /\ reqs[<<"elv", s, e>>] > 0
  /\ reqs' = [reqs EXCEPT ![<<"elv", s, e>>] = @ - 1, ![<<"disp", s, e>>] = @ + 1]
  /\ UNCHANGED <<rl, q, elv, task, sw, rqscope>>

\* __blk_put_request of the last reference: after completion, or of a
\* request merged into another one of the elevator
PutRequest(where, s, e) ==
  /\ reqs[<<where, s, e>>] > IF where = "elv" THEN 1 ELSE 0
  /\ reqs' = [reqs EXCEPT ![<<where, s, e>>] = @ - 1]
  /\ Becomes(freed_request(task, s, e # NONE))
  /\ UNCHANGED <<elv, sw, rqscope>>

\* blk_execute_rq: an extra reference, to the front or the back of the queue
blk_execute_rq(t) ==
  /\ task[t].pc = "have" /\ task[t].kind = "pc"
  /\ reqs' \in {reqs, Drained(reqs)}
  /\ task' = [task EXCEPT ![t].pc = "exec"]
  /\ UNCHANGED <<rl, q, elv, sw, rqscope>>

\* blk_end_sync_rq drops a reference and completes the waiter
blk_end_sync_rq(t) ==
  /\ task[t].pc \in {"exec", "execwait"}
  /\ task' = [task EXCEPT ![t].pc = "put"]
  /\ UNCHANGED <<rl, q, elv, reqs, sw, rqscope>>

blk_put_request(t) ==
  /\ task[t].pc = "put"
  /\ Becomes(freed_request([task EXCEPT ![t] = Running(@.plug, @.ioc)],
                           task[t].sync, task[t].elv # NONE))
  /\ UNCHANGED <<elv, reqs, sw, rqscope>>

\* writing queue/nr_requests
queue_requests_store(nr) ==
  LET th == blk_queue_congestion_threshold(nr)
      room(s) == rl.count[s] < nr IN
  /\ nr # q.nr
  /\ q' = [q EXCEPT !.nr = nr,
       !.congested = [s \in Dirs |-> rl.count[s] >= th.on \/ (@[s] /\ rl.count[s] >= th.off)],
       !.full = [s \in Dirs |-> ~room(s)]]
  /\ rl' = [rl EXCEPT !.wait = [s \in Dirs |-> IF room(s) THEN WakeFirst(@[s]) ELSE @[s]]]
  /\ task' = [t \in Tasks |->
       IF task[t].pc = "sleep" /\ \E s \in Dirs : room(s) /\ rl.wait[s] # <<>> /\ Head(rl.wait[s]) = t
       THEN [task[t] EXCEPT !.pc = "woken"] ELSE task[t]]
  /\ UNCHANGED <<elv, reqs, sw, rqscope>>

-----------------------------------------------------------------------------
(* elevator_switch, under the queue's sysfs_lock *)

\* elevator_alloc and elevator_init_queue; they may fail, changing nothing
elevator_alloc(e) ==
  /\ sw.pc = "idle" /\ elv[e] = NONE
  /\ elv' = [elv EXCEPT ![e] = "live"]
  /\ sw' = [pc |-> "start", new |-> e, old |-> q.elevator]
  /\ UNCHANGED <<rl, q, reqs, task, rqscope>>

\* mutant: requests whose private data is still being set up do not count
quiesce_inserted ==
  /\ sw.pc \in {"start", "quiesce"}
  /\ reqs' = Drained(reqs)
  /\ LET busy == \E k \in Kinds : k[3] # NONE /\ reqs[k] > 0 IN
     /\ sw' = [sw EXCEPT !.pc = IF busy THEN "quiesce" ELSE "attached"]
     /\ q' = [q EXCEPT !.elvswitch = TRUE, !.elevator = IF busy THEN @ ELSE sw.new]
  /\ UNCHANGED <<rl, elv, task, rqscope>>

\* elv_quiesce_start: bypass on, drain, then poll until nothing has private
\* data of the old elevator, running the queue and draining each time
elv_quiesce_start ==
  /\ sw.pc \in {"start", "quiesce"}
  /\ reqs' = Drained(reqs)
  /\ sw' = [sw EXCEPT !.pc = IF rl.elvpriv > 0 THEN "quiesce" ELSE "attached"]
  /\ q' = [q EXCEPT !.elvswitch = TRUE,
                    !.elevator = IF rl.elvpriv > 0 THEN @ ELSE sw.new]
  /\ UNCHANGED <<rl, elv, task, rqscope>>

\* elevator_exit of the old elevator once the new one is registered in sysfs
elevator_exit ==
  /\ sw.pc = "attached"
  /\ elv' = [elv EXCEPT ![sw.old] = NONE]
  /\ sw' = [sw EXCEPT !.pc = "end"]
  /\ UNCHANGED <<rl, q, reqs, task, rqscope>>

\* the registration fails: the new elevator is exited and the old one is
\* attached again, both without the queue lock
FailRegister ==
  /\ sw.pc = "attached"
  /\ elv' = [elv EXCEPT ![sw.new] = NONE]
  /\ sw' = [sw EXCEPT !.pc = "reattach"]
  /\ UNCHANGED <<rl, q, reqs, task, rqscope>>

Reattach ==
  /\ sw.pc = "reattach"
  /\ q' = [q EXCEPT !.elevator = sw.old]
  /\ sw' = [sw EXCEPT !.pc = "end"]
  /\ UNCHANGED <<rl, elv, reqs, task, rqscope>>

elv_quiesce_end ==
  /\ sw.pc = "end"
  /\ q' = [q EXCEPT !.elvswitch = FALSE]
  /\ sw' = [pc |-> "idle", new |-> NONE, old |-> NONE]
  /\ UNCHANGED <<rl, elv, reqs, task, rqscope>>

RqNext ==
  \/ \E t \in rqscope.tasks :
       \/ \E s \in rqscope.dirs, kind \in rqscope.kinds, wait \in BOOLEAN : Submit(t, s, kind, wait)
       \/ blk_alloc_request(t) \/ AllocFailed(t) \/ WokenUp(t)
       \/ AddRequest(t) \/ blk_finish_plug(t) \/ IoSchedule(t)
       \/ blk_execute_rq(t) \/ blk_end_sync_rq(t) \/ blk_put_request(t)
  \/ \E t \in rqscope.pluggers : blk_start_plug(t)
  \/ \E s \in Dirs, e \in Elevators \cup {NONE} :
       Dispatch(s, e) \/ PutRequest("disp", s, e) \/ PutRequest("elv", s, e)
  \/ \E nr \in rqscope.nr : queue_requests_store(nr)
  \/ \E e \in rqscope.elevators : elevator_alloc(e)
  \/ elv_quiesce_start \/ elevator_exit \/ FailRegister \/ Reattach \/ elv_quiesce_end

RqSpec == RqInit /\ [][RqNext]_rqVars

-----------------------------------------------------------------------------
(* Properties *)

Holding(s) == {t \in Tasks : /\ task[t].pc \in {"alloc", "have", "exec", "execwait", "put"}
                             /\ task[t].sync = s}
Present == {k \in Kinds : reqs[k] > 0}
Total(S) == MapThenSumSet(LAMBDA k : reqs[k], S)

\* count[] is the number of requests of a direction and elvpriv that of the
\* requests with private data, also while some are being allocated and when
\* an allocation fails; and private data always belongs to the elevator that
\* is attached, which has not been exited: the switch has waited for it.
RequestAccounting ==
  LET present == Present IN
  /\ \A s \in Dirs : rl.count[s] = Cardinality(Holding(s)) + Total({k \in present : k[2] = s})
  /\ rl.elvpriv = Cardinality({t \in UNION {Holding(s) : s \in Dirs} : task[t].priv})
                   + Total({k \in present : k[3] # NONE})
  /\ \A e \in Elevators :
       (\E k \in present : k[3] = e) \/ (\E t \in Tasks : task[t].elv = e)
         => e = q.elevator /\ elv[e] = "live"

\* A direction is marked full exactly while it has nr_requests requests or
\* more, and congested from the on threshold until it is below the off
\* threshold, whatever allocations, failures and writes to nr_requests did:
\* a stale mark would block writers of a queue that has room.
QueueMarks ==
  \A s \in Dirs :
    /\ q.full[s] <=> rl.count[s] >= q.nr
    /\ rl.count[s] >= On => q.congested[s]
    /\ q.congested[s] => rl.count[s] >= Off(q.nr)

\* A task that waits for a request has somebody to wake it: a task that was
\* woken or is about to allocate in this direction, or a request of this
\* direction that is not stuck on the plug list of a sleeping task.  The
\* exception is a direction marked starved, which the other one wakes.
SleeperHasWaker ==
  \A s \in Dirs :
    rl.wait[s] # <<>> =>
      \/ rl.starved[s]
      \/ \E t \in Tasks :
           /\ task[t].pc \in {"woken", "wait", "alloc", "have", "exec", "execwait", "put"}
           /\ task[t].sync = s /\ t \notin ToSet(rl.wait[s])
      \/ \E k \in Present :
           /\ k[2] = s
           /\ (k[1] \in Tasks => task[k[1]].pc \notin {"sleep", "execwait"})
=============================================================================
