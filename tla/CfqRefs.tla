------------------------------- MODULE CfqRefs -------------------------------
(***************************************************************************)
(* Who keeps the structures of the CFQ scheduler alive (block/             *)
(* cfq-iosched.c with block/blk-ioc.c): the reference counts of io         *)
(* contexts, cfq_queues and cfq_groups, through request setup and release, *)
(* the merging and splitting of cooperating queues, task exit, priority    *)
(* and cgroup changes, cgroup removal, and elevator exit and restart.      *)
(*                                                                         *)
(* One device; each io context has at most one cfq_io_context (cic) on it. *)
(* The queue lock makes a step of everything between two places where the  *)
(* code takes or drops it: allocations drop it, so they are steps.         *)
(***************************************************************************)
EXTENDS Integers, FiniteSets

CONSTANTS RefTasks,    \* tasks doing I/O
          Iocs,        \* io contexts
          RefQueues,   \* memory for cfq_queues
          NoQueue,     \* no queue
          Oom,         \* oom_cfqq, the queue used when allocation fails
          RootGroup, RefGroups,  \* the root group, and other cgroups' groups
          OomRefs,     \* bound on the references to oom_cfqq, which only grow
          RefScopes    \* the configurations explored

VARIABLES k,           \* queues, groups, cics, io contexts and cfq_data
          rq,          \* how many requests hold each queue and io context
          rtask,       \* where each task is in cfq_set_request or exit
          rmcg,        \* the cgroup removal: "no", "unhashed" or "done"
          refscope

refVars == <<k, rq, rtask, rmcg, refscope>>

NoIoc == NoQueue
AllQueues == RefQueues \cup {Oom}
NoneQueue == [live |-> FALSE, ref |-> 0, allocated |-> 0, sync |-> FALSE,
              new_cfqq |-> NoQueue, coop |-> FALSE, split |-> FALSE,
              group |-> RootGroup]
NoCic == [st |-> "none", cfqq |-> [b \in BOOLEAN |-> NoQueue]]
Ioc(t) == refscope.ioc[t]

-----------------------------------------------------------------------------
(* Dropping references.                                                    *)

cfq_put_cfqg(s, g) ==
  [s EXCEPT !.group[g].ref = @ - 1, !.group[g].live = s.group[g].ref > 1]

\* put_io_context frees the context and, through cfq_dtor, its dead cic.
put_io_context(s, i) ==
  [s EXCEPT !.ioc[i].ref = @ - 1,
            !.cic[i] = IF s.ioc[i].ref = 1 /\ @.st = "dead" THEN NoCic ELSE @]

\* A shared queue that seeks is marked to be broken apart.
__cfq_slice_expired(s, seeky) ==
  LET q == s.active_queue
      t == IF s.active_cic = NoIoc THEN s ELSE put_io_context(s, s.active_cic)
  IN [t EXCEPT !.queue[q].split = @ \/ (t.queue[q].coop /\ seeky),
               !.active_queue = NoQueue, !.active_cic = NoIoc]

cfq_put_queue(s, q) ==
  IF s.queue[q].ref > 1 THEN [s EXCEPT !.queue[q].ref = @ - 1]
  ELSE LET t == IF s.active_queue = q THEN __cfq_slice_expired(s, FALSE) ELSE s
       IN cfq_put_cfqg([t EXCEPT !.queue[q] = NoneQueue], s.queue[q].group)

-----------------------------------------------------------------------------
(* Cooperating queues.                                                     *)

cfqq_process_refs(s, q) == s.queue[q].ref - s.queue[q].allocated

\* The queues q is to be merged into, in order.
Chain(s, q) ==
  LET n == Cardinality(AllQueues)
      step[i \in 0..n] ==
        IF i = 0 THEN s.queue[q].new_cfqq
        ELSE IF step[i - 1] = NoQueue THEN NoQueue ELSE s.queue[step[i - 1]].new_cfqq
  IN step

ChainSet(s, q) == {Chain(s, q)[i] : i \in 0..Cardinality(AllQueues)} \ {NoQueue}

Last(s, q) ==
  IF s.queue[q].new_cfqq = NoQueue THEN q
  ELSE CHOOSE p \in ChainSet(s, q) : s.queue[p].new_cfqq = NoQueue

\* mutant: the pending merge is remembered, but the new queue is not pinned.
merge_unpinned(s, q, new) ==
  LET p == Last(s, new)
  IN IF cfqq_process_refs(s, new) = 0 \/ q \in ChainSet(s, new) \/ cfqq_process_refs(s, q) = 0
     THEN s ELSE [s EXCEPT !.queue[q].new_cfqq = p]

cfq_setup_merge(s, q, new) ==
  LET p == Last(s, new)
      mine == cfqq_process_refs(s, q)
      theirs == cfqq_process_refs(s, p)
  IN IF cfqq_process_refs(s, new) = 0 \/ q \in ChainSet(s, new) THEN s
     ELSE IF mine = 0 \/ theirs = 0 THEN s
     ELSE IF theirs >= mine
     THEN [s EXCEPT !.queue[q].new_cfqq = p, !.queue[p].ref = @ + mine]
     ELSE [s EXCEPT !.queue[p].new_cfqq = q, !.queue[q].ref = @ + theirs]

cfq_put_cooperator(s, q) ==
  LET n == Cardinality(AllQueues)
      c == Chain(s, q)
      put[i \in 0..n + 1] ==
        IF i = 0 THEN s
        ELSE IF c[i - 1] = NoQueue THEN put[i - 1] ELSE cfq_put_queue(put[i - 1], c[i - 1])
  IN put[n + 1]

cfq_merge_cfqqs(s, i, q) ==
  LET new == s.queue[q].new_cfqq
  IN cfq_put_queue([s EXCEPT !.cic[i].cfqq[TRUE] = new, !.queue[new].coop = TRUE], q)

\* The queue of cic i is left to its other processes.
split_cfqq(s, i, q) ==
  IF cfqq_process_refs(s, q) = 1
  THEN [s EXCEPT !.queue[q].coop = FALSE, !.queue[q].split = FALSE]
  ELSE cfq_put_queue(cfq_put_cooperator([s EXCEPT !.cic[i].cfqq[TRUE] = NoQueue], q), q)

-----------------------------------------------------------------------------
(* Leaving.                                                                *)

cfq_exit_cfqq(s, q) ==
  IF q = NoQueue THEN s
  ELSE LET t == IF s.active_queue = q THEN __cfq_slice_expired(s, FALSE) ELSE s
       IN cfq_put_queue(cfq_put_cooperator(t, q), q)

__cfq_exit_single_io_context(s, i) ==
  LET a == cfq_exit_cfqq([s EXCEPT !.cic_list = @ \ {i}], s.cic[i].cfqq[FALSE])
      b == cfq_exit_cfqq(a, s.cic[i].cfqq[TRUE])
  IN [b EXCEPT !.cic[i] = IF @.st = "none" THEN @ ELSE [NoCic EXCEPT !.st = "dead"]]

cfq_exit_single_io_context(s, i) ==
  IF s.cic[i].st = "live" THEN __cfq_exit_single_io_context(s, i) ELSE s

\* Every member of S, one after the other.
ForEach(S, s, Op(_, _)) ==
  LET f[T \in SUBSET S] ==
        IF T = {} THEN s ELSE LET x == CHOOSE y \in T : TRUE IN Op(f[T \ {x}], x)
  IN f[S]

cfq_put_async_queues(s) ==
  LET Put(t, p) == IF t.async_cfqq[p] = NoQueue THEN t
                   ELSE cfq_put_queue([t EXCEPT !.async_cfqq[p] = NoQueue], t.async_cfqq[p])
  IN ForEach(DOMAIN s.async_cfqq, s, Put)

cfq_destroy_cfqg(s, g) == cfq_put_cfqg([s EXCEPT !.group[g].listed = FALSE], g)

\* A group the cgroup removal has already unhashed is left to it.
cfq_release_cfq_groups(s) ==
  LET Release(t, g) == IF t.group[g].hashed
                       THEN cfq_destroy_cfqg([t EXCEPT !.group[g].hashed = FALSE], g) ELSE t
  IN ForEach({g \in DOMAIN s.group : s.group[g].listed}, s, Release)

-----------------------------------------------------------------------------
(* Finding a queue.                                                        *)

cfq_find_cfqg(s, t) == s.group[s.cg[t]].hashed

cfq_init_add_cfqg_lists(s, g) ==
  [s EXCEPT !.group[g] = [live |-> TRUE, ref |-> 1, hashed |-> TRUE, listed |-> TRUE]]

NewQueue(s, t, sync) ==
  LET q == CHOOSE p \in RefQueues : ~s.queue[p].live
      g == IF sync THEN s.cg[t] ELSE RootGroup
  IN [q |-> q,
      s |-> [s EXCEPT !.queue[q] = [NoneQueue EXCEPT !.live = TRUE, !.sync = sync,
                                                     !.group = g],
                      !.group[g].ref = @ + 1]]

CanAlloc(s) == \E p \in RefQueues : ~s.queue[p].live

\* The end of cfq_get_queue: the asynchronous queue is pinned by its slot too.
GotQueue(s, i, sync, q) ==
  LET prio == s.ioc[i].prio
      pin == ~sync /\ s.async_cfqq[prio] = NoQueue
  IN [s EXCEPT !.queue[q].ref = @ + (IF pin THEN 2 ELSE 1),
               !.async_cfqq[prio] = IF pin THEN q ELSE @]

\* The end of cfq_set_request: request r of task t is on queue q.
Attach(s, t, q) ==
  [s EXCEPT !.queue[q].allocated = @ + 1, !.queue[q].ref = @ + 1,
            !.group[s.queue[q].group].ref = @ + 1]

At(t, pc) == rtask[t].pc = pc
Goto(t, pc) == rtask' = [rtask EXCEPT ![t].pc = pc]

\* Task t's request is set up on queue q, in the state s.
Finish(s, t, q) ==
  /\ k' = Attach(s, t, q)
  /\ rq' = [rq EXCEPT ![q, Ioc(t)] = @ + 1]
  /\ Goto(t, "idle")

Use(s, t, q) ==
  LET g == GotQueue(s, Ioc(t), rtask[t].sync, q)
  IN Finish([g EXCEPT !.cic[Ioc(t)].cfqq[rtask[t].sync] = q], t, q)

\* cfq_find_alloc_queue once the group is there; have says whether a queue
\* was allocated while the lock was dropped.
cfq_find_alloc_queue(s, t, have) ==
  LET q == s.cic[Ioc(t)].cfqq[rtask[t].sync]
      n == NewQueue(s, t, rtask[t].sync)
  IN IF q \notin {NoQueue, Oom} THEN Use(s, t, q)
     ELSE IF have THEN Use(n.s, t, n.q)
     ELSE k' = s /\ Goto(t, "qalloc") /\ UNCHANGED rq

\* The lock is dropped to allocate a missing group.
Find(s, t, have) ==
  IF cfq_find_cfqg(s, t) THEN cfq_find_alloc_queue(s, t, have)
  ELSE k' = s /\ Goto(t, IF have THEN "galloc2" ELSE "galloc") /\ UNCHANGED rq

cfq_get_queue(s, t) ==
  LET slot == s.async_cfqq[s.ioc[Ioc(t)].prio]
  IN IF ~rtask[t].sync /\ slot # NoQueue THEN Use(s, t, slot) ELSE Find(s, t, FALSE)

-----------------------------------------------------------------------------
(* Steps of a task that sets up a request.                                 *)

\* The requests of the given queues and io contexts.
Total(S) ==
  LET sum[T \in SUBSET S] ==
        IF T = {} THEN 0 ELSE LET x == CHOOSE y \in T : TRUE IN rq[x] + sum[T \ {x}]
  IN sum[S]

InSetup == {t \in RefTasks : rtask[t].pc \notin {"idle", "exiting", "exited"}}

\* get_io_context; the cic is looked up next.
get_io_context(t) ==
  /\ At(t, "idle") /\ k.st = "up"
  /\ \E sync \in refscope.syncs : rtask' = [rtask EXCEPT ![t] = [pc |-> "lookup", sync |-> sync]]
  /\ Cardinality(InSetup) < refscope.setups /\ k.queue[Oom].ref < OomRefs
  /\ Total(DOMAIN rq) + Cardinality(InSetup) < refscope.rqs
  /\ k' = [k EXCEPT !.ioc[Ioc(t)].ref = @ + 1]
  /\ UNCHANGED <<rq, rmcg, refscope>>

\* A cic left by an elevator that is gone is dropped, and looked up again.
cfq_cic_lookup(t) ==
  /\ At(t, "lookup")
  /\ LET st == k.cic[Ioc(t)].st
     IN /\ k' = IF st = "dead" THEN [k EXCEPT !.cic[Ioc(t)] = NoCic] ELSE k
        /\ Goto(t, CASE st = "dead" -> "lookup" [] st = "none" -> "alloc" [] OTHER -> "out")
  /\ UNCHANGED <<rq, rmcg, refscope>>

Fail(t) == k' = put_io_context(k, Ioc(t)) /\ Goto(t, "idle")

\* The cic goes into the context's tree; another task may have been faster.
cfq_cic_link(t) ==
  /\ At(t, "alloc")
  /\ \/ k.cic[Ioc(t)].st = "none" /\ Goto(t, "link")
        /\ k' = [k EXCEPT !.cic[Ioc(t)].st = "live"]
     \/ (k.cic[Ioc(t)].st # "none" \/ refscope.nomem) /\ Fail(t)
  /\ UNCHANGED <<rq, rmcg, refscope>>

\* Under the queue lock it goes on the list of the elevator.
LinkQueue(t) ==
  /\ At(t, "link")
  /\ k' = [k EXCEPT !.cic_list = @ \cup {Ioc(t)}] /\ Goto(t, "out")
  /\ UNCHANGED <<rq, rmcg, refscope>>

\* The asynchronous queue of the new priority; where none is there yet
\* cfq_get_queue finds the old one, which then serves that priority too.
\* (q is not oom_cfqq: no scope has both new priorities and lost allocations.)
changed_ioprio(s, i) ==
  LET q == s.cic[i].cfqq[FALSE]
      slot == s.async_cfqq[s.ioc[i].prio]
      new == IF slot # NoQueue THEN slot ELSE q
  IN IF q = NoQueue THEN s
     ELSE cfq_put_queue([GotQueue(s, i, FALSE, new) EXCEPT !.cic[i].cfqq[FALSE] = new], q)

\* The synchronous queue is left to the old cgroup.
changed_cgroup(s, i) ==
  LET q == s.cic[i].cfqq[TRUE]
  IN IF q = NoQueue THEN s
     ELSE cfq_put_queue([s EXCEPT !.cic[i].cfqq[TRUE] = NoQueue], q)

Changed(t) ==
  LET i == Ioc(t)
      a == IF k.ioc[i].ioprio_changed
           THEN [changed_ioprio(k, i) EXCEPT !.ioc[i].ioprio_changed = FALSE] ELSE k
      b == IF k.ioc[i].cgroup_changed
           THEN [changed_cgroup(a, i) EXCEPT !.ioc[i].cgroup_changed = FALSE] ELSE a
  IN /\ At(t, "out")
     /\ k' = b /\ Goto(t, "queue")
     /\ UNCHANGED <<rq, rmcg, refscope>>

\* The queue is found, split off, merged, or allocated.
cfq_set_request(t) ==
  LET i == Ioc(t)
      q == k.cic[i].cfqq[rtask[t].sync]
      s == IF q \notin {NoQueue, Oom} /\ k.queue[q].coop /\ k.queue[q].split
           THEN split_cfqq(k, i, q) ELSE k
      p == s.cic[i].cfqq[rtask[t].sync]
  IN /\ At(t, "queue")
     /\ IF p \in {NoQueue, Oom} THEN cfq_get_queue(s, t)
        ELSE IF s.queue[p].new_cfqq = NoQueue THEN Finish(s, t, p)
        ELSE Finish(cfq_merge_cfqqs(s, i, p), t, s.queue[p].new_cfqq)
     /\ UNCHANGED <<rmcg, refscope>>

\* Back under the lock with a new group, unless another task made it.
cfq_get_cfqg(t) ==
  /\ rtask[t].pc \in {"galloc", "galloc2"}
  /\ LET s == IF cfq_find_cfqg(k, t) THEN k ELSE cfq_init_add_cfqg_lists(k, k.cg[t])
     IN cfq_find_alloc_queue(s, t, At(t, "galloc2"))
  /\ UNCHANGED <<rmcg, refscope>>

\* Back under the lock with a new queue, or with none: then oom_cfqq serves.
Retry(t) ==
  /\ At(t, "qalloc")
  /\ \/ CanAlloc(k) /\ Find(k, t, TRUE)
     \/ refscope.nomem /\ Use(k, t, Oom)
  /\ UNCHANGED <<rmcg, refscope>>

-----------------------------------------------------------------------------
(* Requests, tasks, the elevator and the cgroup.                           *)

cfq_put_request(q, i) ==
  LET a == put_io_context([k EXCEPT !.queue[q].allocated = @ - 1], i)
  IN /\ rq[q, i] > 0
     /\ k' = cfq_put_queue(cfq_put_cfqg(a, k.queue[q].group), q)
     /\ rq' = [rq EXCEPT ![q, i] = @ - 1]
     /\ UNCHANGED <<rtask, rmcg, refscope>>

\* A dispatch makes the request's queue active and holds its io context.
cfq_dispatch_request(q, i) ==
  /\ refscope.dispatch /\ rq[q, i] > 0 /\ k.active_queue = NoQueue
  /\ k' = [k EXCEPT !.active_queue = q, !.active_cic = i, !.ioc[i].ref = @ + 1]
  /\ UNCHANGED <<rq, rtask, rmcg, refscope>>

Expire ==
  /\ k.active_queue # NoQueue
  /\ \E seeky \in refscope.seeky : k' = __cfq_slice_expired(k, seeky)
  /\ UNCHANGED <<rq, rtask, rmcg, refscope>>

\* The active queue is to be merged with a close one that has requests.
SelectCooperator(p) ==
  LET q == k.active_queue
  IN /\ q \notin {NoQueue, p} /\ k.queue[q].sync /\ k.queue[p].sync
     /\ k.queue[p].allocated > 0 /\ k.queue[p].group = k.queue[q].group
     /\ k.queue[q].new_cfqq = NoQueue
     /\ k' = __cfq_slice_expired(cfq_setup_merge(k, q, p), FALSE)
     /\ UNCHANGED <<rq, rtask, rmcg, refscope>>

\* The last task of an io context takes its cic down.
exit_io_context(t) ==
  LET i == Ioc(t)
      s == [k EXCEPT !.ioc[i].nr_tasks = @ - 1]
  IN /\ At(t, "idle") /\ t \in refscope.exits
     /\ k' = IF s.ioc[i].nr_tasks = 0 THEN cfq_exit_single_io_context(s, i) ELSE s
     /\ Goto(t, "exiting")
     /\ UNCHANGED <<rq, rmcg, refscope>>

ExitPut(t) ==
  /\ At(t, "exiting")
  /\ k' = put_io_context(k, Ioc(t)) /\ Goto(t, "exited")
  /\ UNCHANGED <<rq, rmcg, refscope>>

SetIoprio(i, p) ==
  /\ refscope.prios # {} /\ p \in refscope.prios /\ k.ioc[i].prio # p
  /\ k' = [k EXCEPT !.ioc[i].prio = p, !.ioc[i].ioprio_changed = TRUE]
  /\ UNCHANGED <<rq, rtask, rmcg, refscope>>

\* A task that shares its io context cannot be attached to another cgroup.
blkiocg_attach_task(t, g) ==
  /\ g \in refscope.cgroups /\ k.cg[t] # g /\ k.ioc[Ioc(t)].nr_tasks = 1
  /\ rtask[t].pc \notin {"exiting", "exited"} /\ (rmcg # "no" => g = RootGroup)
  /\ k' = [k EXCEPT !.cg[t] = g, !.ioc[Ioc(t)].cgroup_changed = TRUE]
  /\ UNCHANGED <<rq, rtask, rmcg, refscope>>

\* The elevator is quiesced before it is left: no request and no setup.
cfq_exit_queue ==
  LET a == IF k.active_queue = NoQueue THEN k ELSE __cfq_slice_expired(k, FALSE)
      b == ForEach(a.cic_list, a, __cfq_exit_single_io_context)
  IN /\ k.st = "up" /\ refscope.restarts
     /\ Total(DOMAIN rq) = 0
     /\ InSetup = {}
     /\ k' = [cfq_release_cfq_groups(cfq_put_async_queues(b)) EXCEPT !.st = "exit"]
     /\ UNCHANGED <<rq, rtask, rmcg, refscope>>

\* After a grace period, so with no cgroup removal under way, cfqd is freed.
FreeCfqd ==
  /\ k.st = "exit" /\ rmcg # "unhashed"
  /\ k' = [k EXCEPT !.st = "gone"]
  /\ UNCHANGED <<rq, rtask, rmcg, refscope>>

FreshRoot == [live |-> TRUE, ref |-> 3, hashed |-> TRUE, listed |-> TRUE]

cfq_init_queue ==
  /\ k.st = "gone"
  /\ k' = [k EXCEPT !.st = "up", !.group[RootGroup] = FreshRoot,
                    !.queue[Oom] = [NoneQueue EXCEPT !.live = TRUE, !.ref = 1]]
  /\ UNCHANGED <<rq, rtask, rmcg, refscope>>

\* A cgroup without tasks is removed: its group is unhashed, then destroyed.
blkiocg_destroy(g) ==
  /\ g \in refscope.cgroups \ {RootGroup} /\ rmcg = "no"
  /\ \A t \in RefTasks : k.cg[t] # g
  /\ IF k.group[g].hashed
     THEN rmcg' = "unhashed" /\ k' = [k EXCEPT !.group[g].hashed = FALSE]
     ELSE rmcg' = "done" /\ UNCHANGED k
  /\ UNCHANGED <<rq, rtask, refscope>>

cfq_unlink_blkio_group(g) ==
  /\ rmcg = "unhashed" /\ g # RootGroup /\ k.group[g].listed
  /\ k' = cfq_destroy_cfqg(k, g) /\ rmcg' = "done"
  /\ UNCHANGED <<rq, rtask, refscope>>

RefInit ==
  /\ refscope \in RefScopes
  /\ k = [st |-> "up", active_queue |-> NoQueue, active_cic |-> NoIoc, cic_list |-> {},
          queue |-> [q \in AllQueues |->
                       IF q = Oom THEN [NoneQueue EXCEPT !.live = TRUE, !.ref = 1]
                       ELSE NoneQueue],
          group |-> [g \in {RootGroup} \cup RefGroups |->
                       IF g = RootGroup THEN FreshRoot
                       ELSE [live |-> FALSE, ref |-> 0, hashed |-> FALSE, listed |-> FALSE]],
          cic |-> [i \in Iocs |-> NoCic],
          ioc |-> [i \in Iocs |->
                     LET n == Cardinality({t \in refscope.tasks : Ioc(t) = i})
                     IN [ref |-> n, nr_tasks |-> n, prio |-> 0,
                         ioprio_changed |-> FALSE, cgroup_changed |-> FALSE]],
          async_cfqq |-> [p \in {0} \cup refscope.prios |-> NoQueue],
          cg |-> [t \in RefTasks |-> RootGroup]]
  /\ rq = [x \in AllQueues \X Iocs |-> 0]
  /\ rtask = [t \in RefTasks |-> [pc |-> IF t \in refscope.tasks THEN "idle" ELSE "exited",
                                  sync |-> TRUE]]
  /\ rmcg = "no"

RefNext ==
  \/ \E t \in RefTasks :
       \/ get_io_context(t) \/ cfq_cic_lookup(t) \/ cfq_cic_link(t) \/ LinkQueue(t)
       \/ Changed(t) \/ cfq_set_request(t) \/ cfq_get_cfqg(t) \/ Retry(t)
       \/ exit_io_context(t) \/ ExitPut(t)
       \/ \E g \in {RootGroup} \cup RefGroups : blkiocg_attach_task(t, g)
  \/ \E q \in AllQueues, i \in Iocs : cfq_put_request(q, i) \/ cfq_dispatch_request(q, i)
  \/ Expire \/ \E p \in RefQueues : SelectCooperator(p)
  \/ \E i \in Iocs, p \in refscope.prios : SetIoprio(i, p)
  \/ cfq_exit_queue \/ FreeCfqd \/ cfq_init_queue
  \/ \E g \in RefGroups : blkiocg_destroy(g) \/ cfq_unlink_blkio_group(g)

RefSpec == RefInit /\ [][RefNext]_refVars

-----------------------------------------------------------------------------
(* Properties.                                                             *)

Pointing(q) == {i \in Iocs : k.cic[i].st = "live" /\ \E b \in BOOLEAN : k.cic[i].cfqq[b] = q}
Requests(q) == Total({q} \X Iocs)
Slots(q) == {p \in DOMAIN k.async_cfqq : k.async_cfqq[p] = q}

\* The processes whose queue is to be merged, perhaps over others, into q.
Merging(q) == {i \in Iocs : /\ k.cic[i].st = "live" /\ k.cic[i].cfqq[TRUE] # NoQueue
                            /\ q \in ChainSet(k, k.cic[i].cfqq[TRUE])}

\* Every reference to a cfq_queue, a cfq_group or an io context is counted, so
\* none is freed while a cic, an asynchronous slot, a request, a task or a
\* pending merge still leads to it; and, unless tasks share an io context,
\* change cgroups or run out of memory, a queue has no reference more than its
\* holders, so it is freed with the last of them and elevator exit leaves none.
CfqRefsHeld ==
  /\ \A q \in RefQueues :
       LET held == Cardinality(Pointing(q)) + Requests(q) +
                   Cardinality(Slots(q)) + Cardinality(Merging(q))
       IN /\ k.queue[q].ref >= held
          /\ k.queue[q].live = (k.queue[q].ref > 0)
          /\ k.queue[q].allocated = Requests(q)
          /\ refscope.exact => k.queue[q].ref = held
  /\ \A g \in RefGroups :
       /\ k.group[g].ref = (IF k.group[g].listed THEN 1 ELSE 0)
            + Cardinality({q \in RefQueues : k.queue[q].live /\ k.queue[q].group = g})
            + Total({q \in RefQueues : k.queue[q].group = g} \X Iocs)
       /\ k.group[g].live = (k.group[g].ref > 0)
  /\ \A i \in Iocs :
       /\ k.ioc[i].ref = Cardinality({t \in refscope.tasks : Ioc(t) = i /\ rtask[t].pc # "exited"})
            + Cardinality({t \in InSetup : Ioc(t) = i})
            + Total(AllQueues \X {i})
            + (IF k.active_cic = i THEN 1 ELSE 0)
       /\ k.ioc[i].ref = 0 => k.cic[i].st = "none"
  /\ k.st = "gone" => k.cic_list = {} /\ \A g \in RefGroups : ~k.group[g].listed
=============================================================================
