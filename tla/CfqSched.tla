------------------------------ MODULE CfqSched ------------------------------
(***************************************************************************)
(* The dispatch side of the CFQ I/O scheduler (block/cfq-iosched.c):       *)
(* insertion, choice of the queue to serve, idling on an empty queue, the  *)
(* idle timer, preemption, completion, and the forced drain.               *)
(*                                                                         *)
(* A driver fetches requests with request_fn, one iteration per step; the  *)
(* queue lock makes each scheduler callback one step.  Positions, keys and *)
(* think times are abstracted: where the code compares them the model      *)
(* takes either outcome, and the leftmost queue of a service tree is any   *)
(* queue of it.  A slice is "new", "left" or "used", and time is a step.   *)
(***************************************************************************)
EXTENDS Integers, Sequences, FiniteSets

CONSTANTS CfqQueues,   \* the cfq_queues a scope may use
          NoQ,         \* no queue
          CfqScopes    \* the configurations explored

VARIABLES cfqd,        \* struct cfq_data, its queues, and the dispatch list
          drv,         \* how many requests of each queue the driver holds
          run,         \* request_fn is running, or about to
          full,        \* the driver refused a request and will fetch again
          cfqscope

cfqVars == <<cfqd, drv, run, full, cfqscope>>

Q == cfqscope.queues
Groups == {cfqscope.group[q] : q \in Q}
Sync(q) == q \in cfqscope.sync
G(q) == cfqscope.group[q]
Least(a, b) == IF a < b THEN a ELSE b
Greatest(a, b) == IF a > b THEN a ELSE b
Unlimited == 1000
NotSaved == <<"none", "none">>
OffTree == <<"off", "off">>
Total(f) == LET sum[S \in SUBSET DOMAIN f] ==
                  IF S = {} THEN 0
                  ELSE LET x == CHOOSE y \in S : TRUE IN f[x] + sum[S \ {x}]
            IN sum[DOMAIN f]

-----------------------------------------------------------------------------
(* Service trees.                                                          *)

cfq_class_idle(s, q) == s.class[q] = "idle"
cfq_class_rt(s, q) == s.class[q] = "rt"

cfqq_type(s, q) == IF ~Sync(q) THEN "async"
                   ELSE IF q \in s.idle_window THEN "sync" ELSE "noidle"

service_tree_for(prio, type) == <<prio, IF prio = "idle" THEN "any" ELSE type>>

\* The queues of group g on the tree t.
OnTree(s, g, t) == {q \in s.rr : G(q) = g /\ s.tree[q] = t}

cfq_group_busy_queues_wl(s, g, prio) ==
  Cardinality({q \in s.rr : G(q) = g /\ s.tree[q][1] = prio})

cfq_group_notify_queue_add(s, g) == [s EXCEPT !.nr_cfqq[g] = @ + 1]

cfq_group_notify_queue_del(s, g) ==
  [s EXCEPT !.nr_cfqq[g] = @ - 1,
            !.saved[g] = IF s.nr_cfqq[g] = 1 THEN NotSaved ELSE @]

cfq_service_tree_add(s, q, add_front) ==
  LET t == [s EXCEPT !.tree[q] = service_tree_for(s.class[q], cfqq_type(s, q))]
  IN IF add_front \/ s.tree[q] # OffTree THEN t
     ELSE cfq_group_notify_queue_add(t, G(q))

cfq_resort_rr_list(s, q) ==
  IF q \in s.rr THEN cfq_service_tree_add(s, q, FALSE) ELSE s

cfq_add_cfqq_rr(s, q) ==
  cfq_resort_rr_list([s EXCEPT !.rr = @ \cup {q},
                               !.busy_queues = @ + 1,
                               !.busy_sync_queues = IF Sync(q) THEN @ + 1 ELSE @], q)

cfq_del_cfqq_rr(s, q) ==
  cfq_group_notify_queue_del(
    [s EXCEPT !.rr = @ \ {q}, !.tree[q] = OffTree,
              !.busy_queues = @ - 1,
              !.busy_sync_queues = IF Sync(q) THEN @ - 1 ELSE @], G(q))

cfq_schedule_dispatch(s) == IF s.busy_queues > 0 THEN [s EXCEPT !.work = TRUE] ELSE s

-----------------------------------------------------------------------------
(* The active queue and its slice.                                         *)

cfq_slice_used(s) == s.slice = "used"

__cfq_set_active_queue(s, q) ==
  IF q = NoQ THEN [s EXCEPT !.active_queue = NoQ]
  ELSE [s EXCEPT !.active_queue = q, !.slice = "new", !.wait_request = FALSE,
                 !.must_dispatch = FALSE, !.timer = FALSE, !.slice_dispatch = 0]

cfq_group_served(s, g) ==
  [s EXCEPT !.saved[g] = IF s.workload_left THEN <<s.serving_prio, s.serving_type>>
                         ELSE NotSaved]

\* mutant: the empty queue is left on its tree when its slice expires.
expired_left_on_rr(s, q) ==
  [cfq_resort_rr_list(cfq_group_served(
     [s EXCEPT !.timer = @ /\ ~s.wait_request,
               !.wait_request = FALSE, !.wait_busy = FALSE], G(q)), q)
   EXCEPT !.active_queue = NoQ, !.active_cic = FALSE]

\* q is the active queue in every call; the marks and the slice of a queue
\* that is not active are set afresh before they are read again.
__cfq_slice_expired(s, q) ==
  LET t == cfq_group_served(
             [s EXCEPT !.timer = @ /\ ~s.wait_request,
                       !.wait_request = FALSE, !.wait_busy = FALSE], G(q))
      u == IF q \in t.rr /\ t.queued[q] = 0 THEN cfq_del_cfqq_rr(t, q) ELSE t
  IN [cfq_resort_rr_list(u, q) EXCEPT
        !.active_queue = NoQ, !.active_cic = FALSE, !.slice = "new",
        !.must_dispatch = FALSE, !.slice_dispatch = 0]

cfq_slice_expired(s) ==
  IF s.active_queue = NoQ THEN s ELSE __cfq_slice_expired(s, s.active_queue)

cfq_should_idle(s, q) ==
  /\ cfqscope.slice_idle
  /\ ~cfq_class_idle(s, q)
  /\ \/ q \in s.idle_window /\ ~cfqscope.ssd
     \/ Cardinality(OnTree(s, G(q), s.tree[q])) = 1 /\ Sync(q)

\* The close cooperators of q: positions may make any of them the close one.
cfq_close_cooperator(s, q) ==
  {NoQ} \cup
  {p \in Q : /\ ~cfq_class_idle(s, q) /\ Sync(q) /\ s.nr_cfqq[G(q)] # 1
             /\ s.queued[p] > 0 /\ ~cfq_class_idle(s, p)
             /\ G(p) = G(q) /\ Sync(p) /\ cfq_class_rt(s, p) = cfq_class_rt(s, q)}

\* A task that has exited, or thinks for longer than the slice, is not waited for.
cfq_arm_slice_timer(s) ==
  LET q == s.active_queue
      byGroup == ~cfq_should_idle(s, q)
      armed == [s EXCEPT !.wait_request = TRUE, !.timer = TRUE]
  IN IF \/ cfqscope.ssd
        \/ byGroup /\ ~cfqscope.group_idle
        \/ s.dispatched[q] > 0
        \/ ~s.active_cic
        \/ byGroup /\ s.nr_cfqq[G(q)] > 1
     THEN {s} ELSE {s, armed}

-----------------------------------------------------------------------------
(* Choosing the next queue.                                                *)

\* The types whose leftmost queue may have the lowest key.
cfq_choose_wl(s, g, prio) ==
  {t \in {"async", "noidle", "sync"} : OnTree(s, g, service_tree_for(prio, t)) # {}}

choose_service_tree(s, g) ==
  LET prio == IF cfq_group_busy_queues_wl(s, g, "rt") > 0 THEN "rt"
              ELSE IF cfq_group_busy_queues_wl(s, g, "be") > 0 THEN "be" ELSE "idle"
      t == [s EXCEPT !.serving_prio = prio]
  IN IF prio = "idle" THEN {[t EXCEPT !.workload_left = TRUE]}
     ELSE IF /\ prio = s.serving_prio /\ s.workload_left
             /\ OnTree(s, g, service_tree_for(prio, s.serving_type)) # {}
     THEN {t}
     ELSE {[t EXCEPT !.serving_type = w, !.workload_left = TRUE] :
             w \in cfq_choose_wl(s, g, prio)}

\* The group with the least virtual disk time may be any group on the tree.
cfq_choose_cfqg(s) ==
  UNION {choose_service_tree(
           IF s.saved[g] = NotSaved
           THEN [s EXCEPT !.serving_group = g, !.workload_left = FALSE]
           ELSE [s EXCEPT !.serving_group = g, !.workload_left = TRUE,
                          !.serving_prio = s.saved[g][1],
                          !.serving_type = s.saved[g][2]], g) :
         g \in {h \in Groups : s.nr_cfqq[h] > 0}}

cfq_get_next_queue(s) ==
  LET here == OnTree(s, s.serving_group,
                     service_tree_for(s.serving_prio, s.serving_type))
  IN IF s.rq_queued = 0 \/ here = {} THEN {NoQ} ELSE here

cfq_set_active_queue(s, q) ==
  {[s |-> __cfq_set_active_queue(s, p), q |-> p] :
     p \in IF q = NoQ THEN cfq_get_next_queue(s) ELSE {q}}

NewQueue(s, coop) ==
  UNION {cfq_set_active_queue(t, coop) :
           t \in IF coop = NoQ THEN cfq_choose_cfqg(s) ELSE {s}}

Keep(s, q) == {[s |-> s, q |-> q]}

check_group_idle(s, q) ==
  IF cfqscope.group_idle /\ s.nr_cfqq[G(q)] = 1 /\ s.group_dispatched[G(q)] > 0
  THEN Keep(s, NoQ) ELSE NewQueue(cfq_slice_expired(s), NoQ)

\* The active queue q has nothing queued and time left; a seeky queue on a
\* fast device may lose its idle window.
EmptyQueue(s, q) ==
  LET seeky == {s} \cup (IF q \in s.idle_window
                         THEN {[s EXCEPT !.idle_window = @ \ {q}]} ELSE {})
  IN IF s.timer THEN Keep(s, NoQ)
     ELSE UNION {IF t.dispatched[q] > 0 /\ cfq_should_idle(t, q)
                 THEN Keep(t, NoQ) ELSE check_group_idle(t, q) : t \in seeky}

cfq_select_queue(s) ==
  LET q == s.active_queue
  IN IF q = NoQ THEN NewQueue(s, NoQ)
     ELSE IF s.rq_queued = 0 THEN Keep(s, NoQ)
     ELSE IF s.wait_busy /\ s.queued[q] > 0 THEN NewQueue(cfq_slice_expired(s), NoQ)
     ELSE IF cfq_slice_used(s) /\ ~s.must_dispatch
     THEN IF /\ s.nr_cfqq[G(q)] = 1 /\ s.queued[q] = 0
             /\ s.dispatched[q] > 0 /\ cfq_should_idle(s, q)
          THEN Keep(s, NoQ) ELSE check_group_idle(s, q)
     ELSE IF s.queued[q] > 0 THEN Keep(s, q)
     ELSE UNION {IF coop = NoQ THEN EmptyQueue(s, q)
                 ELSE NewQueue(cfq_slice_expired(s), coop) :
                 coop \in cfq_close_cooperator(s, q)}

-----------------------------------------------------------------------------
(* Dispatching.                                                            *)

cfq_remove_request(s, q) ==
  [s EXCEPT !.queued[q] = @ - 1, !.rq_queued = @ - 1]

cfq_dispatch_insert(s, q) ==
  [cfq_remove_request(s, q) EXCEPT
     !.dispatched[q] = @ + 1, !.group_dispatched[G(q)] = @ + 1,
     !.in_flight[Sync(q)] = @ + 1, !.list = Append(@, q)]

\* Whether q may dispatch; the slice estimate and the asynchronous ramp-up
\* depend on times, so the result is a set of answers.
cfq_may_dispatch(s, q) ==
  LET base == IF cfq_class_idle(s, q) THEN 1 ELSE Greatest(cfqscope.quantum \div 2, 1)
      promote == Sync(q) /\ s.busy_sync_queues = 1
      soon == IF s.slice = "new" THEN {TRUE} ELSE BOOLEAN
      limits == IF s.dispatched[q] < base THEN {base}
                ELSE IF cfq_class_idle(s, q) THEN {0}
                ELSE IF s.busy_queues = 1 \/ promote THEN {Unlimited}
                ELSE {IF b THEN 0 ELSE cfqscope.quantum : b \in soon}
      ramp == IF Sync(q) THEN {Unlimited}
              ELSE {IF d = 0 /\ s.dispatched[q] = 0 THEN 1 ELSE d :
                      d \in 0..cfqscope.quantum}
  IN IF \/ cfq_should_idle(s, q) /\ s.in_flight[FALSE] > 0
        \/ ~Sync(q) /\ s.in_flight[TRUE] > 0
     THEN {FALSE}
     ELSE {s.dispatched[q] < Least(l, r) : l \in limits, r \in ramp}

cfq_dispatch_request(s, q) ==
  [cfq_dispatch_insert(s, q) EXCEPT !.active_cic = TRUE, !.must_dispatch = FALSE,
                                    !.slice_dispatch = Least(@ + 1, cfqscope.maxrq)]

\* An asynchronous queue that used its share, and an idle-class one, expire.
DispatchFrom(s, q) ==
  LET t == cfq_dispatch_request(s, q)
  IN IF t.busy_queues > 1 /\ (\/ ~Sync(q) /\ t.slice_dispatch >= cfqscope.maxrq
                              \/ cfq_class_idle(t, q))
     THEN cfq_slice_expired(t) ELSE t

cfq_dispatch_requests(s) ==
  IF s.busy_queues = 0 THEN {[s |-> s, n |-> 0]}
  ELSE UNION {IF r.q = NoQ THEN {[s |-> r.s, n |-> 0]}
              ELSE {IF ok THEN [s |-> DispatchFrom(r.s, r.q), n |-> 1]
                    ELSE [s |-> r.s, n |-> 0] : ok \in cfq_may_dispatch(r.s, r.q)} :
              r \in cfq_select_queue(s)}

\* One queue drained and expired: __cfq_forced_dispatch_cfqq.
__cfq_forced_dispatch_cfqq(s, q) ==
  LET k == s.queued[q]
      drained[i \in 0..k] == IF i = 0 THEN s ELSE cfq_dispatch_insert(drained[i - 1], q)
  IN __cfq_slice_expired(drained[k], q)

\* The queues are drained one after the other, while requests are queued.
cfq_forced_dispatch(s) ==
  LET Loop[k \in 0..Cardinality(Q)] ==
        IF k = 0 THEN cfq_slice_expired(s)
        ELSE LET t == Loop[k - 1]
             IN IF t.rq_queued = 0 \/ t.rr = {} THEN t
                ELSE LET q == CHOOSE p \in t.rr : TRUE
                     IN __cfq_forced_dispatch_cfqq(__cfq_set_active_queue(t, q), q)
  IN Loop[Cardinality(Q)]

-----------------------------------------------------------------------------
(* Insertion and preemption.                                               *)

\* A request at the position of a queued one sends that one to the driver.
cfq_add_rq_rb(s, q, alias) ==
  LET t == [(IF alias THEN cfq_dispatch_insert(s, q) ELSE s)
            EXCEPT !.queued[q] = @ + 1]
  IN IF q \in t.rr THEN t ELSE cfq_add_cfqq_rr(t, q)

\* Seeks, think times and REQ_NOIDLE may switch the idle window either way.
cfq_update_idle_window(s, q) ==
  IF ~Sync(q) \/ cfq_class_idle(s, q) THEN {s}
  ELSE {s, [s EXCEPT !.idle_window = @ \ {q}]} \cup
       (IF cfqscope.slice_idle THEN {[s EXCEPT !.idle_window = @ \cup {q}]} ELSE {})

\* The answers of cfq_should_preempt; a metadata request, or one close to the
\* head, may preempt where any other one may not.
cfq_should_preempt(s, new) ==
  LET q == s.active_queue
      rt == cfq_class_rt(s, q)
  IN IF q = NoQ THEN {FALSE}
     ELSE IF cfq_class_idle(s, new) THEN {FALSE}
     ELSE IF cfq_class_idle(s, q) THEN {TRUE}
     ELSE IF rt /\ ~cfq_class_rt(s, new) THEN {FALSE}
     ELSE IF Sync(new) /\ ~Sync(q) THEN {TRUE}
     ELSE IF G(new) # G(q) THEN {FALSE}
     ELSE IF \/ cfq_slice_used(s)
             \/ /\ s.serving_type = "noidle" /\ cfqq_type(s, new) = "noidle"
                /\ Cardinality(OnTree(s, G(new), s.tree[new])) = 2
                /\ s.queued[q] = 0
             \/ cfq_class_rt(s, new) /\ ~rt
             \/ s.queued[q] = 0 /\ ~cfq_should_idle(s, q)
     THEN {TRUE} ELSE BOOLEAN

cfq_preempt_queue(s, new) ==
  LET old == s.active_queue
      t == cfq_slice_expired(s)
      u == IF cfqq_type(s, old) # cfqq_type(s, new)
           THEN [t EXCEPT !.saved[G(new)] = NotSaved] ELSE t
  IN cfq_service_tree_add(u, new, TRUE)

\* A waiting active queue runs at once when the request is large or others
\* are busy; otherwise it is marked for the timer.
Waited(s) ==
  {[s EXCEPT !.timer = FALSE, !.wait_request = FALSE]} \cup
  (IF s.busy_queues > 1 THEN {} ELSE {[s EXCEPT !.must_dispatch = TRUE]})

cfq_rq_enqueued(s, q) ==
  UNION {IF q # t.active_queue
         THEN {IF ok THEN cfq_preempt_queue(t, q) ELSE t : ok \in cfq_should_preempt(t, q)}
         ELSE IF t.wait_request THEN Waited(t) ELSE {t} :
         t \in cfq_update_idle_window([s EXCEPT !.rq_queued = @ + 1], q)}

-----------------------------------------------------------------------------
(* Completion and the timer.                                               *)

\* Whether the active queue may be kept waiting for its group to get busy.
cfq_should_wait_busy(s, q) ==
  IF s.queued[q] > 0 \/ s.nr_cfqq[G(q)] > 1 THEN {FALSE}
  ELSE IF cfq_slice_used(s) THEN {TRUE} ELSE BOOLEAN

CompletedActive(s, q) ==
  LET t == [s EXCEPT !.slice = IF @ = "new" THEN "left" ELSE @]
      extended == IF cfqscope.slice_idle \/ cfqscope.group_idle THEN "left" ELSE "used"
      waits == {IF w THEN [t EXCEPT !.slice = extended, !.wait_busy = TRUE] ELSE t :
                  w \in cfq_should_wait_busy(t, q)}
  IN UNION {IF cfq_slice_used(u) \/ cfq_class_idle(u, q) THEN {cfq_slice_expired(u)}
            ELSE IF ~Sync(q) \/ u.queued[q] > 0 THEN {u}
            ELSE UNION {IF coop = NoQ THEN cfq_arm_slice_timer(u) ELSE {u} :
                          coop \in cfq_close_cooperator(u, q)} : u \in waits}

\* mutant: completions do not restart the queue when the driver runs dry.
completed_no_kick(s, q) ==
  LET t == [s EXCEPT !.rq_in_driver = @ - 1, !.dispatched[q] = @ - 1,
                     !.group_dispatched[G(q)] = @ - 1, !.in_flight[Sync(q)] = @ - 1]
  IN IF t.active_queue = q THEN CompletedActive(t, q) ELSE {t}

cfq_completed_request(s, q) ==
  LET t == [s EXCEPT !.rq_in_driver = @ - 1, !.dispatched[q] = @ - 1,
                     !.group_dispatched[G(q)] = @ - 1, !.in_flight[Sync(q)] = @ - 1]
  IN {IF u.rq_in_driver = 0 THEN cfq_schedule_dispatch(u) ELSE u :
        u \in IF t.active_queue = q THEN CompletedActive(t, q) ELSE {t}}

cfq_idle_slice_timer(s) ==
  LET q == s.active_queue
  IN IF q = NoQ THEN cfq_schedule_dispatch(s)
     ELSE IF s.must_dispatch THEN cfq_schedule_dispatch(s)
     ELSE IF cfq_slice_used(s) THEN cfq_schedule_dispatch(cfq_slice_expired(s))
     ELSE IF s.busy_queues = 0 THEN s
     ELSE IF s.queued[q] > 0 THEN cfq_schedule_dispatch(s)
     ELSE cfq_schedule_dispatch(cfq_slice_expired(s))

-----------------------------------------------------------------------------
(* Steps.                                                                  *)

CfqInit ==
  /\ cfqscope \in CfqScopes
  /\ cfqd = [queued |-> [q \in Q |-> 0], dispatched |-> [q \in Q |-> 0],
             class |-> [q \in Q |-> cfqscope.class[q]],
             idle_window |-> {q \in Q : Sync(q) /\ cfqscope.class[q] # "idle"},
             rr |-> {}, tree |-> [q \in Q |-> OffTree],
             busy_queues |-> 0, busy_sync_queues |-> 0, rq_queued |-> 0,
             in_flight |-> [b \in BOOLEAN |-> 0], rq_in_driver |-> 0,
             nr_cfqq |-> [g \in Groups |-> 0],
             group_dispatched |-> [g \in Groups |-> 0],
             saved |-> [g \in Groups |-> NotSaved],
             active_queue |-> NoQ, active_cic |-> FALSE, slice |-> "new",
             slice_dispatch |-> 0, wait_request |-> FALSE, wait_busy |-> FALSE,
             must_dispatch |-> FALSE, timer |-> FALSE, work |-> FALSE,
             serving_group |-> CHOOSE g \in Groups : TRUE,
             serving_prio |-> "be", serving_type |-> "async",
             workload_left |-> FALSE, list |-> <<>>]
  /\ drv = [q \in Q |-> 0]
  /\ run = FALSE /\ full = FALSE

Outstanding(q) == cfqd.queued[q] + cfqd.dispatched[q]

\* cfq_insert_request; whoever inserts then runs the queue.
cfq_insert_request(q) ==
  /\ Outstanding(q) < cfqscope.depth[q]
  /\ \E alias \in {b \in BOOLEAN : b => cfqscope.alias /\ cfqd.queued[q] > 0} :
       cfqd' \in cfq_rq_enqueued(cfq_add_rq_rb(cfqd, q, alias), q)
  /\ run' = TRUE
  /\ UNCHANGED <<drv, full, cfqscope>>

\* A new priority, or the boost of a task holding file system locks, changes
\* the class of a queue and leaves the trees as they are.
cfq_init_prio_data(q, class) ==
  /\ class \in cfqscope.classes /\ class # cfqd.class[q]
  /\ cfqd' = [cfqd EXCEPT !.class[q] = class,
                          !.idle_window = IF class = "idle" THEN @ \ {q} ELSE @]
  /\ UNCHANGED <<drv, run, full, cfqscope>>

\* request_fn takes the head of the dispatch list: cfq_activate_request.
cfq_activate_request ==
  /\ run /\ cfqd.list # <<>> /\ cfqd.rq_in_driver < cfqscope.tags
  /\ cfqd' = [cfqd EXCEPT !.list = Tail(@), !.rq_in_driver = @ + 1]
  /\ drv' = [drv EXCEPT ![Head(cfqd.list)] = @ + 1]
  /\ UNCHANGED <<run, full, cfqscope>>

DriverFull ==
  /\ run /\ cfqd.list # <<>> /\ cfqd.rq_in_driver = cfqscope.tags
  /\ run' = FALSE /\ full' = TRUE
  /\ UNCHANGED <<cfqd, drv, cfqscope>>

\* request_fn finds the dispatch list empty and asks the scheduler.
Ask ==
  /\ run /\ cfqd.list = <<>>
  /\ \E r \in cfq_dispatch_requests(cfqd) : cfqd' = r.s /\ run' = (r.n = 1)
  /\ UNCHANGED <<drv, full, cfqscope>>

\* The elevator is drained, for a flush or a switch, and the queue run.
Drain ==
  /\ cfqscope.drain /\ cfqd.busy_queues > 0
  /\ cfqd' = cfq_forced_dispatch(cfqd)
  /\ run' = TRUE
  /\ UNCHANGED <<drv, full, cfqscope>>

Complete(q) ==
  /\ drv[q] > 0
  /\ cfqd' \in cfq_completed_request(cfqd, q)
  /\ drv' = [drv EXCEPT ![q] = @ - 1]
  /\ run' = (run \/ full) /\ full' = FALSE
  /\ UNCHANGED cfqscope

\* The driver hands a request back and fetches again.
cfq_deactivate_request(q) ==
  /\ cfqscope.requeue /\ drv[q] > 0
  /\ cfqd' = [cfqd EXCEPT !.rq_in_driver = @ - 1, !.list = <<q>> \o @]
  /\ drv' = [drv EXCEPT ![q] = @ - 1]
  /\ run' = TRUE
  /\ UNCHANGED <<full, cfqscope>>

cfq_kick_queue ==
  /\ cfqd.work
  /\ cfqd' = [cfqd EXCEPT !.work = FALSE] /\ run' = TRUE
  /\ UNCHANGED <<drv, full, cfqscope>>

IdleTimer ==
  /\ cfqd.timer
  /\ cfqd' = cfq_idle_slice_timer([cfqd EXCEPT !.timer = FALSE])
  /\ UNCHANGED <<drv, run, full, cfqscope>>

\* The last task of the active queue exits.
cfq_exit_cfqq ==
  /\ cfqd.active_queue # NoQ
  /\ cfqd' = cfq_schedule_dispatch(cfq_slice_expired(cfqd))
  /\ UNCHANGED <<drv, run, full, cfqscope>>

SliceEnds ==
  /\ cfqd.active_queue # NoQ /\ cfqd.slice = "left"
  /\ cfqd' = [cfqd EXCEPT !.slice = "used"]
  /\ UNCHANGED <<drv, run, full, cfqscope>>

WorkloadEnds ==
  /\ cfqd.workload_left
  /\ cfqd' = [cfqd EXCEPT !.workload_left = FALSE]
  /\ UNCHANGED <<drv, run, full, cfqscope>>

CfqNext ==
  \/ \E q \in Q : \/ cfq_insert_request(q) \/ Complete(q) \/ cfq_deactivate_request(q)
                  \/ \E class \in cfqscope.classes : cfq_init_prio_data(q, class)
  \/ cfq_activate_request \/ DriverFull \/ Ask \/ Drain
  \/ cfq_kick_queue \/ IdleTimer \/ cfq_exit_cfqq \/ SliceEnds \/ WorkloadEnds

CfqSpec == CfqInit /\ [][CfqNext]_cfqVars

-----------------------------------------------------------------------------
(* Properties.                                                             *)

\* A queue with requests is on a service tree, and only the active queue may
\* stay there empty, whatever sequence of preemptions, expiries, timer ticks,
\* completions and drains came before.  So a queue chosen for service always
\* has a request (the BUG_ON of cfq_dispatch_request), and a forced drain
\* leaves no busy queue (the BUG_ON of cfq_forced_dispatch).  The counters the
\* scheduler decides by (busy queues, queues per group, requests queued and
\* in flight) agree with the trees and lists they count.
NeverEmptySelected ==
  /\ \A q \in Q : /\ cfqd.queued[q] > 0 => q \in cfqd.rr
                  /\ q \in cfqd.rr /\ cfqd.queued[q] = 0 => q = cfqd.active_queue
                  /\ (q \in cfqd.rr) = (cfqd.tree[q] # OffTree)
  /\ cfqd.active_queue # NoQ => cfqd.active_queue \in cfqd.rr
  /\ cfqd.busy_queues = Cardinality(cfqd.rr)
  /\ cfqd.busy_sync_queues = Cardinality(cfqd.rr \cap cfqscope.sync)
  /\ cfqd.rq_queued = Total(cfqd.queued)
  /\ cfqd.rq_in_driver = Total(drv)
  /\ \A g \in Groups :
       /\ cfqd.nr_cfqq[g] = Cardinality({q \in cfqd.rr : G(q) = g})
       /\ cfqd.group_dispatched[g] =
            Total([q \in {p \in Q : G(p) = g} |-> cfqd.dispatched[q]])
  /\ \A b \in BOOLEAN :
       cfqd.in_flight[b] = Total([q \in {p \in Q : Sync(p) = b} |-> cfqd.dispatched[q]])

\* No lost restart: while requests are queued in the scheduler, something will
\* ask it for them again: the queue is being run, the unplug work or the idle
\* timer is pending, or the driver holds a request whose completion restarts
\* the queue.  Idling, the depth limits and preemption all leave one of these.
CfqNoStall ==
  /\ cfqd.rq_queued > 0 => run \/ cfqd.work \/ cfqd.timer \/ cfqd.rq_in_driver > 0
  /\ cfqd.list # <<>> => run \/ (full /\ cfqd.rq_in_driver > 0)
=============================================================================
