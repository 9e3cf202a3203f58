---------------------------- MODULE BlkThrottle ----------------------------
(***************************************************************************)
(* Throttling of bios per cgroup (blk-throttle.c) and what it uses of the  *)
(* block cgroup controller (blk-cgroup.c): groups with limits in bytes and *)
(* IOs per second, accounted in slices; the service tree of groups with    *)
(* bios waiting and the delayed work that dispatches them; limits that     *)
(* change at any time; and the end of a group, by removal of its cgroup or *)
(* by the exit of the queue, whichever comes first.                        *)
(*                                                                         *)
(* A group has the name of its cgroup; a bio is its size.  -1 is a limit   *)
(* that was not set.  The policy list of a cgroup is the function `rule'.  *)
(***************************************************************************)
EXTENDS Integers, Sequences, FiniteSets, FiniteSetsExt, SequencesExt

CONSTANTS Cgroups, Root,   \* cgroups other than the root, and the root
          Submitters,
          ThrotlScopes,    \* sets of bounds, see tscope
          HZ, throtl_slice,
          throtl_quantum, max_nr_reads, max_nr_writes

VARIABLES
  td,     \* throtl_data: tree, left, min_disptime, queued, lc, undestroyed; work;
          \* now, the jiffies; the queue: live, dead, or how far its exit is
  tg,     \* per cgroup, its group on this queue
  rule,   \* per cgroup, the rules (limits per direction)
  user,   \* per task that submits: pc, cgroup, rw, size
  writer, \* a task that writes a rule: pc, cgroup
  remover, \* a task that removes a cgroup: pc, cgroup, the group it unlinks
  alive,  \* the cgroups that exist
  sent,   \* ios and bytes let through under limits that do not change
  tscope  \* bounds: tasks, last jiffy, bios, their cgroups, directions and sizes, limits
          \* to set, whether they change, cgroups removed, whether the queue ends

throtlVars == <<td, tg, rule, user, writer, remover, alive, sent, tscope>>

Dirs == {"r", "w"}
Groups == Cgroups \cup {Root}
roundup(x) == ((x + throtl_slice - 1) \div throtl_slice) * throtl_slice
NoLimit == [bps |-> -1, iops |-> -1]
NULL == "null"

NoTg == [st |-> "none", listed |-> FALSE, linked |-> FALSE, ref |-> 0,
         bios |-> [w \in Dirs |-> <<>>], limit |-> [w \in Dirs |-> NoLimit], lc |-> FALSE,
         bytes |-> [w \in Dirs |-> 0], ios |-> [w \in Dirs |-> 0],
         start |-> [w \in Dirs |-> 0], end |-> [w \in Dirs |-> 0], disptime |-> 0, rr |-> FALSE]

\* throtl_alloc_tg, throtl_init_group and throtl_init_add_tg_lists
NewTg(limits) ==
  [NoTg EXCEPT !.st = "live", !.listed = TRUE, !.linked = TRUE, !.ref = 1, !.limit = limits]

Idle == [pc |-> "idle", cg |-> Root, w |-> "r", size |-> 0]
NoWork == [st |-> "idle", at |-> 0]

ThrotlInit ==
  /\ tscope \in ThrotlScopes
  /\ \E limit \in [tscope.cgroups -> tscope.limits] :
       rule = [c \in Groups |-> [w \in Dirs |->
                 IF c \in tscope.cgroups THEN limit[c] ELSE NoLimit]]
  /\ td = [tree |-> <<>>, left |-> NULL, queued |-> 0, lc |-> FALSE,
           undestroyed |-> 1, work |-> NoWork, now |-> 0, q |-> "live", n |-> 0]
  /\ tg = [c \in Groups |-> IF c = Root THEN NewTg(rule[Root]) ELSE NoTg]
  /\ user = [u \in Submitters |-> Idle] /\ writer = Idle
  /\ remover = [pc |-> "idle", cg |-> Root]
  /\ alive = Groups
  /\ sent = [c \in Groups |-> [w \in Dirs |-> [ios |-> 0, bytes |-> 0]]]

-----------------------------------------------------------------------------
(* Slices and limits: functions of one group g at time t.                  *)

throtl_slice_used(g, w, t) == ~(g.start[w] <= t /\ t <= g.end[w])
throtl_start_new_slice(g, w, t) ==
  [g EXCEPT !.bytes[w] = 0, !.ios[w] = 0, !.start[w] = t, !.end[w] = t + throtl_slice]
throtl_extend_slice(g, w, t) == [g EXCEPT !.end[w] = roundup(t)]

Elapsed(g, w, t) == roundup(IF t = g.start[w] THEN throtl_slice ELSE t - g.start[w])

\* 0 if the bio is within the limit, else the jiffies to wait
tg_with_in_iops_limit(g, w, t) ==
  LET allowed == (g.limit[w].iops * Elapsed(g, w, t)) \div HZ
      wait == ((g.ios[w] + 1) * HZ) \div g.limit[w].iops + 1
  IN IF g.limit[w].iops = -1 \/ g.ios[w] + 1 <= allowed THEN 0
     ELSE IF wait > t - g.start[w] THEN wait - (t - g.start[w]) ELSE 1

tg_with_in_bps_limit(g, w, size, t) ==
  LET allowed == (g.limit[w].bps * Elapsed(g, w, t)) \div HZ
      wait == ((g.bytes[w] + size - allowed) * HZ) \div g.limit[w].bps
  IN IF g.limit[w].bps = -1 \/ g.bytes[w] + size <= allowed THEN 0
     ELSE (IF wait = 0 THEN 1 ELSE wait) + Elapsed(g, w, t) - (t - g.start[w])

tg_no_rule_group(g, w) == g.limit[w] = NoLimit

\* the group after tg_may_dispatch, and the wait it reports, 0 for may dispatch
SliceRenewed(g, w, t) ==
  IF throtl_slice_used(g, w, t) THEN throtl_start_new_slice(g, w, t)
  ELSE IF g.end[w] < t + throtl_slice THEN throtl_extend_slice(g, w, t + throtl_slice)
  ELSE g
tg_may_dispatch(g, w, size, t) ==
  LET h == SliceRenewed(g, w, t)
      bps == tg_with_in_bps_limit(h, w, size, t)
      wait == IF bps = 0 THEN tg_with_in_iops_limit(h, w, t) ELSE bps
  IN IF tg_no_rule_group(g, w) THEN [g |-> g, wait |-> 0]
     ELSE [g |-> IF h.end[w] < t + wait THEN throtl_extend_slice(h, w, t + wait) ELSE h,
           wait |-> wait]

throtl_charge_bio(g, w, size) == [g EXCEPT !.bytes[w] = @ + size, !.ios[w] = @ + 1]

TrimOf(limit, nr) == (limit * throtl_slice * nr) \div HZ
\* an amount dispatched, less what the limit allows for nr slices
Trimmed(x, limit, nr) ==
  IF limit = -1 \/ x < TrimOf(limit, nr) THEN 0 ELSE x - TrimOf(limit, nr)
TrimmedDisp(g, w, t) ==
  LET nr == (t - g.start[w]) \div throtl_slice IN
  [g EXCEPT !.end[w] = roundup(t + throtl_slice),
            !.bytes[w] = Trimmed(@, g.limit[w].bps, nr), !.ios[w] = Trimmed(@, g.limit[w].iops, nr)]

\* mutant: what was used is trimmed, but the slice still starts where it did
keeps_start(g, w, t) == IF throtl_slice_used(g, w, t) THEN g ELSE TrimmedDisp(g, w, t)
throtl_trim_slice(g, w, t) ==
  LET nr == (t - g.start[w]) \div throtl_slice
      none == TrimOf(g.limit[w].bps, nr) = 0 /\ TrimOf(g.limit[w].iops, nr) = 0
  IN IF throtl_slice_used(g, w, t) THEN g
     ELSE IF nr = 0 \/ none THEN [g EXCEPT !.end[w] = roundup(t + throtl_slice)]
     ELSE [TrimmedDisp(g, w, t) EXCEPT !.start[w] = @ + nr * throtl_slice]

-----------------------------------------------------------------------------
(* The service tree, in order of disptime, and the work.  From here on an  *)
(* operator maps a state s, a record of td, tg and sent, to a state.       *)

throtl_rb_first(s) == IF s.td.tree = <<>> THEN NULL
                      ELSE IF s.td.left # NULL THEN s.td.left ELSE Head(s.td.tree)

throtl_enqueue_tg(s, c) ==
  LET before == {i \in DOMAIN s.td.tree : s.tg[s.td.tree[i]].disptime <= s.tg[c].disptime}
      i == Cardinality(before) + 1
  IN IF s.tg[c].rr THEN s
     ELSE [s EXCEPT !.td.tree = InsertAt(@, i, c), !.td.left = IF i = 1 THEN c ELSE @,
                    !.tg[c].rr = TRUE]
throtl_dequeue_tg(s, c) ==
  IF ~s.tg[c].rr THEN s
  ELSE [s EXCEPT !.td.tree = Remove(@, c), !.td.left = IF @ = c THEN NULL ELSE @,
                 !.tg[c].rr = FALSE]

\* __cancel_delayed_work stops the timer only; queue_delayed_work does nothing
\* for a work that is pending
Cancelled(work) == IF work.st = "timer" THEN NoWork ELSE work
Queued(work, now, delay) ==
  IF work.st # "idle" THEN work
  ELSE IF delay = 0 THEN [st |-> "queued", at |-> 0] ELSE [st |-> "timer", at |-> now + delay]

throtl_schedule_delayed_work(s, delay) ==
  [s EXCEPT !.td.work = Queued(Cancelled(@), s.td.now, delay)]

\* mutant: work that is pending is not brought forward
only_if_idle(s) ==
  LET min == s.tg[throtl_rb_first(s)].disptime IN
  IF s.td.queued = 0 \/ s.td.work.st # "idle" THEN s
  ELSE throtl_schedule_delayed_work(s, Max({0, min - s.td.now}))
throtl_schedule_next_dispatch(s) ==
  LET min == s.tg[throtl_rb_first(s)].disptime IN
  IF s.td.queued = 0 THEN s
  ELSE throtl_schedule_delayed_work(s, Max({0, min - s.td.now}))

\* the earlier of the waits of the first bio of each direction
Wait(g, w, t) ==
  IF g.bios[w] = <<>> THEN [g |-> g, wait |-> -1] ELSE tg_may_dispatch(g, w, Head(g.bios[w]), t)
tg_update_disptime(s, c) ==
  LET r == Wait(s.tg[c], "r", s.td.now)
      w == Wait(r.g, "w", s.td.now)
      wait == Min({r.wait, w.wait} \ {-1})
      t == [throtl_dequeue_tg(s, c) EXCEPT !.tg[c] = [w.g EXCEPT !.rr = FALSE,
                                                        !.disptime = s.td.now + wait]]
  IN throtl_enqueue_tg(t, c)

throtl_put_tg(g) == [g EXCEPT !.ref = @ - 1, !.st = IF g.ref = 1 THEN "freed" ELSE @]

Let(s, c, w, size) ==
  IF tg_no_rule_group(s.tg[c], w) \/ tscope.changes THEN s
  ELSE [s EXCEPT !.sent[c][w] = [ios |-> @.ios + 1, bytes |-> @.bytes + size]]

throtl_add_bio_tg(s, c, w, size) ==
  throtl_enqueue_tg([s EXCEPT !.tg[c].bios[w] = Append(@, size), !.tg[c].ref = @ + 1,
                              !.td.queued = @ + 1], c)

tg_dispatch_one_bio(s, c, w) ==
  LET size == Head(s.tg[c].bios[w])
      g == [throtl_put_tg(s.tg[c]) EXCEPT !.bios[w] = Tail(@)]
      t == Let(s, c, w, size)
  IN [t EXCEPT !.td.queued = @ - 1,
               !.tg[c] = throtl_trim_slice(throtl_charge_bio(g, w, size), w, s.td.now)]

\* the bios of one direction, up to a number, while the limits allow them
DispatchDir(s, c, w, max) ==
  LET try(t, i) ==
        IF t.tg[c].bios[w] = <<>> \/ t.stop THEN t
        ELSE LET m == tg_may_dispatch(t.tg[c], w, Head(t.tg[c].bios[w]), t.td.now)
                 u == [t EXCEPT !.tg[c] = m.g]
             IN IF m.wait > 0 THEN [u EXCEPT !.stop = TRUE]
                ELSE [tg_dispatch_one_bio(u, c, w) EXCEPT !.nr = @ + 1]
  IN [FoldLeft(try, s, [i \in 1..max |-> i]) EXCEPT !.stop = FALSE]

throtl_dispatch_tg(s, c) ==
  DispatchDir(DispatchDir(s, c, "r", max_nr_reads), c, "w", max_nr_writes)

throtl_select_dispatch(s) ==
  LET round(t, i) ==
        LET c == throtl_rb_first(t) IN
        IF c = NULL \/ t.nr >= throtl_quantum THEN t
        ELSE IF t.td.now < t.tg[c].disptime THEN t
        ELSE LET u == throtl_dispatch_tg(throtl_dequeue_tg(t, c), c)
             IN IF \A w \in Dirs : u.tg[c].bios[w] = <<>> THEN u ELSE tg_update_disptime(u, c)
  IN FoldLeft(round, s, [i \in 1..throtl_quantum + Cardinality(Groups) |-> i])

throtl_process_limit_change(s) ==
  LET changed == {c \in Groups : s.tg[c].listed /\ s.tg[c].lc}
      restart(c, t) ==
        LET g == throtl_start_new_slice(throtl_start_new_slice(t.tg[c], "r", s.td.now),
                                        "w", s.td.now)
            u == [t EXCEPT !.tg[c] = [g EXCEPT !.lc = FALSE]]
        IN IF g.rr THEN tg_update_disptime(u, c) ELSE u
  IN IF ~s.td.lc THEN s
     ELSE [FoldSet(restart, s, changed) EXCEPT !.td.lc = FALSE]

Now == [td |-> td, tg |-> tg, sent |-> sent, nr |-> 0, stop |-> FALSE]
Becomes(s) == td' = s.td /\ tg' = s.tg /\ sent' = s.sent

-----------------------------------------------------------------------------
(* A bio is submitted.                                                     *)

\* a group is looked up in the list of the cgroup
throtl_find_tg(c) == tg[c].linked

Submit(u, c, w, size) ==
  /\ user[u].pc = "idle" /\ td.q = "live" /\ td.n < tscope.bios /\ c \in alive
  /\ IF throtl_find_tg(c) /\ tg_no_rule_group(tg[c], w)
     THEN UNCHANGED user
     ELSE user' = [user EXCEPT ![u] = [pc |-> "lock", cg |-> c, w |-> w, size |-> size]]
  /\ td' = [td EXCEPT !.n = @ + 1]
  /\ UNCHANGED <<tg, rule, writer, remover, alive, sent, tscope>>

\* blk_throtl_bio with the queue lock and the group c
ThrottleIn(s, c, w, size) ==
  LET m == tg_may_dispatch(s.tg[c], w, size, s.td.now)
      t == [s EXCEPT !.tg[c] = m.g]
      through == [Let(t, c, w, size) EXCEPT !.tg[c] =
                    throtl_trim_slice(throtl_charge_bio(m.g, w, size), w, s.td.now)]
      queued == throtl_schedule_next_dispatch(
                  tg_update_disptime(throtl_add_bio_tg(t, c, w, size), c))
  IN IF s.tg[c].bios[w] # <<>> THEN throtl_add_bio_tg(s, c, w, size)
     ELSE IF m.wait = 0 THEN through ELSE queued

\* throtl_get_tg: a group that does not exist is allocated without the lock
blk_throtl_bio(u) ==
  /\ user[u].pc = "lock"
  /\ IF throtl_find_tg(user[u].cg)
     THEN /\ Becomes(ThrottleIn(Now, user[u].cg, user[u].w, user[u].size))
          /\ user' = [user EXCEPT ![u] = Idle]
     ELSE user' = [user EXCEPT ![u].pc = "alloc"] /\ UNCHANGED <<td, tg, sent>>
  /\ UNCHANGED <<rule, writer, remover, alive, tscope>>

throtl_get_tg(u, allocated) ==
  LET c == user[u].cg
      In(s, g) == Becomes(ThrottleIn(s, g, user[u].w, user[u].size))
      new == [Now EXCEPT !.tg[c] = NewTg(rule[c]), !.td.undestroyed = @ + 1]
  IN /\ user[u].pc = "alloc"
     /\ user' = [user EXCEPT ![u] = Idle]
     /\ IF td.q # "live" THEN UNCHANGED <<td, tg, sent>>             \* -ENODEV
        ELSE IF throtl_find_tg(c) THEN In(Now, c)
        ELSE IF allocated THEN In(new, c)
        ELSE In(Now, Root)
     /\ UNCHANGED <<rule, writer, remover, alive, tscope>>

-----------------------------------------------------------------------------
(* Time and the work.                                                      *)

Tick ==
  /\ td.now < tscope.now
  /\ td' = [td EXCEPT !.now = @ + 1]
  /\ UNCHANGED <<tg, rule, user, writer, remover, alive, sent, tscope>>

TimerFires ==
  /\ td.work.st = "timer" /\ td.work.at <= td.now
  /\ td' = [td EXCEPT !.work = [st |-> "queued", at |-> 0]]
  /\ UNCHANGED <<tg, rule, user, writer, remover, alive, sent, tscope>>

blk_throtl_work ==
  LET s == throtl_process_limit_change([Now EXCEPT !.td.work = NoWork]) IN
  /\ td.work.st = "queued"
  /\ Becomes(IF s.td.queued = 0 THEN s
             ELSE throtl_schedule_next_dispatch(throtl_select_dispatch(s)))
  /\ UNCHANGED <<rule, user, writer, remover, alive, tscope>>

-----------------------------------------------------------------------------
(* A rule is written: the policy list first, then the group, with the lock *)
(* of the cgroup but not that of the queue, so that the work may be        *)
(* scheduled between the cancelling and the queueing of this one.          *)

blkiocg_file_write(c, w, limit) ==
  /\ tscope.changes /\ writer.pc = "idle" /\ c \in alive
  /\ limit # rule[c][w]
  /\ rule' = [rule EXCEPT ![c][w] = limit]
  /\ writer' = [Idle EXCEPT !.pc = "update", !.cg = c, !.w = w]
  /\ UNCHANGED <<td, tg, user, remover, alive, sent, tscope>>

blkio_update_policy_node_blkg ==
  LET c == writer.cg IN
  /\ writer.pc = "update"
  /\ IF tg[c].linked
     THEN /\ tg' = [tg EXCEPT ![c].limit[writer.w] = rule[c][writer.w], ![c].lc = TRUE]
          /\ td' = [td EXCEPT !.lc = TRUE, !.work = Cancelled(@)]
          /\ writer' = [writer EXCEPT !.pc = "queue"]
     ELSE writer' = Idle /\ UNCHANGED <<td, tg>>
  /\ UNCHANGED <<rule, user, remover, alive, sent, tscope>>

throtl_update_blkio_group_common ==
  /\ writer.pc = "queue"
  /\ td' = [td EXCEPT !.work = Queued(@, td.now, 0)]
  /\ writer' = Idle
  /\ UNCHANGED <<tg, rule, user, remover, alive, sent, tscope>>

-----------------------------------------------------------------------------
(* The end of a cgroup and of the queue.                                   *)

throtl_destroy_tg(s, c) ==
  [s EXCEPT !.tg[c] = [throtl_put_tg(@) EXCEPT !.listed = FALSE], !.td.undestroyed = @ - 1]

\* the writer holds the lock of its cgroup between its last two steps
LockFree(c) == ~(writer.pc = "queue" /\ writer.cg = c)

\* a cgroup without tasks is removed
blkiocg_destroy(c) ==
  /\ c \in tscope.removed \cap alive
  /\ remover.pc = "idle" /\ (\A u \in Submitters : user[u].cg # c) /\ writer.cg # c
  /\ alive' = alive \ {c}
  /\ IF tg[c].linked
     THEN /\ tg' = [tg EXCEPT ![c].linked = FALSE]
          /\ remover' = [pc |-> "unlink", cg |-> c]
     ELSE UNCHANGED <<tg, remover>>
  /\ UNCHANGED <<td, rule, user, writer, sent, tscope>>

throtl_unlink_blkio_group ==
  /\ remover.pc = "unlink"
  /\ Becomes(throtl_destroy_tg(Now, remover.cg))
  /\ remover' = [pc |-> "idle", cg |-> Root]
  /\ UNCHANGED <<rule, user, writer, alive, tscope>>

blk_cleanup_queue ==
  /\ tscope.exits /\ td.q = "live"
  /\ td' = [td EXCEPT !.q = "dead"]
  /\ UNCHANGED <<tg, rule, user, writer, remover, alive, sent, tscope>>

\* the last reference is gone: no task submits and no bio waits
throtl_shutdown_wq ==
  /\ td.q = "dead" /\ td.queued = 0 /\ \A u \in Submitters : user[u].pc = "idle"
  /\ td' = [td EXCEPT !.work = NoWork, !.q = "release"]
  /\ UNCHANGED <<tg, rule, user, writer, remover, alive, sent, tscope>>

\* groups that a removal of their cgroup has claimed are left to it
Claimed == {c \in Groups : tg[c].listed /\ tg[c].linked}
throtl_release_tgs ==
  LET s == FoldSet(LAMBDA c, t : throtl_destroy_tg([t EXCEPT !.tg[c].linked = FALSE], c),
                   Now, Claimed)
  IN /\ td.q = "release" /\ \A c \in Claimed : LockFree(c)
     /\ Becomes([s EXCEPT !.td.q = "wait"])
     /\ UNCHANGED <<rule, user, writer, remover, alive, tscope>>

\* synchronize_rcu, if there are groups left, waits for the removal in progress
blk_throtl_exit ==
  /\ td.q = "wait" /\ (td.undestroyed > 0 => remover.pc = "idle")
  /\ td' = [td EXCEPT !.work = NoWork, !.q = "freed"]
  /\ UNCHANGED <<tg, rule, user, writer, remover, alive, sent, tscope>>

ThrotlNext ==
  \/ \E u \in tscope.users, c \in tscope.cgroups, w \in tscope.dirs, size \in tscope.sizes :
       Submit(u, c, w, size)
  \/ \E u \in tscope.users : blk_throtl_bio(u) \/ \E allocated \in BOOLEAN : throtl_get_tg(u, allocated)
  \/ Tick
  \/ TimerFires
  \/ blk_throtl_work
  \/ \E c \in tscope.cgroups, w \in tscope.dirs, l \in tscope.limits : blkiocg_file_write(c, w, l)
  \/ blkio_update_policy_node_blkg
  \/ throtl_update_blkio_group_common
  \/ \E c \in Cgroups : blkiocg_destroy(c)
  \/ throtl_unlink_blkio_group
  \/ blk_cleanup_queue
  \/ throtl_shutdown_wq
  \/ throtl_release_tgs
  \/ blk_throtl_exit

ThrotlSpec == ThrotlInit /\ [][ThrotlNext]_throtlVars

-----------------------------------------------------------------------------
\* A group lets through no more than its limits allow for the time since they
\* were set and one slice more, whatever the slices it used, how they were
\* extended and trimmed, and however late the work ran (tg_may_dispatch,
\* throtl_trim_slice).
RateHolds ==
  ~tscope.changes => \A c \in Groups, w \in Dirs :
    LET time == td.now + throtl_slice IN
    /\ rule[c][w].iops # -1 => sent[c][w].ios * HZ <= rule[c][w].iops * time
    /\ rule[c][w].bps # -1 => sent[c][w].bytes * HZ <= rule[c][w].bps * time

\* A bio that is held back is not forgotten: while bios wait the work is pending,
\* and due no later than the first group of the tree, unless a new limit is being
\* announced; the tree holds exactly the groups with bios, in order, and its
\* cached first entry is the first (throtl_schedule_delayed_work,
\* tg_service_tree_add).
ThrottledWork ==
  /\ td.queued = FoldSet(LAMBDA c, n : n + Len(tg[c].bios["r"]) + Len(tg[c].bios["w"]), 0, Groups)
  /\ ToSet(td.tree) = {c \in Groups : \E w \in Dirs : tg[c].bios[w] # <<>>}
  /\ td.left \in {NULL} \cup (IF td.tree = <<>> THEN {} ELSE {Head(td.tree)})
  /\ \A i, j \in DOMAIN td.tree : i < j => tg[td.tree[i]].disptime <= tg[td.tree[j]].disptime
  /\ td.queued > 0 /\ td.q = "live" =>
       \/ td.work.st = "queued" \/ writer.pc = "queue"
       \/ td.work.st = "timer" /\ td.work.at <= Max({td.now, tg[Head(td.tree)].disptime})

=============================================================================
