----------------------------- MODULE DiskEvents -----------------------------
(***************************************************************************)
(* Disk events (genhd.c): the delayed work that polls a disk for media     *)
(* changes and eject requests, nested blocking of that work, and           *)
(* disk_clear_events, which checks synchronously even while others block.  *)
(*                                                                         *)
(* `spin' sections of ev->lock are single steps.  An event that happens on *)
(* the device is a pair <<kind, n>>, so that the events that were already  *)
(* there when disk_clear_events was called can be told from later ones.    *)
(***************************************************************************)
EXTENDS Integers, FiniteSets

CONSTANTS EvProcs,
          EvScopes      \* bounds explored together, see evscope

VARIABLES
  ev,    \* disk->ev: block, pending, clearing, poll_msecs; on: no, listed, unlisted;
         \* mutex: the holder of block_mutex; dfl: disk_events_dfl_poll_msecs
  dwork, \* pend: no, timer, queued, cancel (cancel_delayed_work_sync holds the
         \* pending bit); run: no, check, account, tell; its clearing and events
  proc,  \* per process: pc, op, mask, await (flush), due
  dev,   \* events the device has to report
  got,   \* events that happened, events behind ev->pending, events fetched
  evscope \* processes, events that may happen, masks, operations, polling
         \* intervals, and whether the disk has events it does not report by itself

evVars == <<ev, dwork, proc, dev, got, evscope>>

NONE == "none"
Idle == [pc |-> "idle", op |-> NONE, mask |-> {}, await |-> NONE, due |-> {}]
KindsOf(S) == {x[1] : x \in S}
OfKinds(S, ks) == {x \in S : x[1] \in ks}

EvInit ==
  /\ evscope \in EvScopes
  /\ ev = [block |-> 0, pending |-> {}, clearing |-> {}, poll_msecs |-> -1,
           on |-> "no", mutex |-> NONE, dfl |-> 0]
  /\ dwork = [pend |-> "no", run |-> "no", clearing |-> {}, events |-> {}]
  /\ proc = [p \in EvProcs |-> Idle]
  /\ dev = {}
  /\ got = [happened |-> {}, noted |-> {}, fetched |-> {}]

disk_events_poll_jiffies(e) ==
  IF e.poll_msecs >= 0 THEN e.poll_msecs ELSE IF evscope.sync THEN e.dfl ELSE 0

Step(p, pc) == proc' = [proc EXCEPT ![p].pc = pc]

-----------------------------------------------------------------------------
(* Delayed work on a non-reentrant workqueue *)

queue_delayed_work(w, delay) ==
  IF w.pend # "no" THEN w ELSE [w EXCEPT !.pend = IF delay = 0 THEN "queued" ELSE "timer"]

\* only the timer is stopped
cancel_delayed_work(w) == IF w.pend = "timer" THEN [w EXCEPT !.pend = "no"] ELSE w

TimerFires ==
  /\ dwork.pend = "timer"
  /\ dwork' = [dwork EXCEPT !.pend = "queued"]
  /\ UNCHANGED <<ev, proc, dev, got, evscope>>

\* a flush waits for the instance that was queued, or for the running one
Moved(from, to) ==
  proc' = [p \in EvProcs |-> IF proc[p].await = from THEN [proc[p] EXCEPT !.await = to] ELSE proc[p]]

-----------------------------------------------------------------------------
(* disk_events_workfn *)

\* it reads ev->clearing without the lock
WorkStart ==
  /\ dwork.pend = "queued" /\ dwork.run = "no"
  /\ dwork' = [pend |-> "no", run |-> "check", clearing |-> ev.clearing, events |-> {}]
  /\ Moved("queued", "running")
  /\ UNCHANGED <<ev, dev, got, evscope>>

\* the driver reports what it has and forgets what is being cleared
check_events ==
  /\ dwork.run = "check"
  /\ dwork' = [dwork EXCEPT !.run = "account", !.events = dev]
  /\ dev' = dev \ OfKinds(dev, dwork.clearing)
  /\ UNCHANGED <<ev, proc, got, evscope>>

\* mutant: the next poll is scheduled also while events are blocked
account_always ==
  /\ dwork.run = "account"
  /\ ev' = [ev EXCEPT !.pending = @ \cup KindsOf(dwork.events),
                      !.clearing = @ \ dwork.clearing]
  /\ got' = [got EXCEPT !.noted = @ \cup dwork.events]
  /\ LET w == [dwork EXCEPT !.run = "tell"] IN
     dwork' = IF disk_events_poll_jiffies(ev) > 0
              THEN queue_delayed_work(w, disk_events_poll_jiffies(ev)) ELSE w
  /\ UNCHANGED <<proc, dev, evscope>>

account_events ==
  /\ dwork.run = "account"
  /\ ev' = [ev EXCEPT !.pending = @ \cup KindsOf(dwork.events),
                      !.clearing = @ \ dwork.clearing]
  /\ got' = [got EXCEPT !.noted = @ \cup dwork.events]
  /\ LET w == [dwork EXCEPT !.run = "tell"] IN
     dwork' = IF ev.block = 0 /\ disk_events_poll_jiffies(ev) > 0
              THEN queue_delayed_work(w, disk_events_poll_jiffies(ev)) ELSE w
  /\ UNCHANGED <<proc, dev, evscope>>

\* userland is told of new events; the work function returns
WorkEnd ==
  /\ dwork.run = "tell"
  /\ dwork' = [dwork EXCEPT !.run = "no", !.clearing = {}, !.events = {}]
  /\ Moved("running", "done")
  /\ UNCHANGED <<ev, dev, got, evscope>>

-----------------------------------------------------------------------------
(* Blocking *)

\* the mutex is taken and the count raised; the first blocker cancels
disk_block_events(p) ==
  /\ proc[p].pc = "block" /\ ev.mutex = NONE
  /\ ev' = [ev EXCEPT !.block = @ + 1, !.mutex = IF ev.block = 0 THEN p ELSE NONE]
  /\ dwork' = IF ev.block = 0 THEN [dwork EXCEPT !.pend = "cancel"] ELSE dwork
  /\ Step(p, IF ev.block = 0 THEN "cancel" ELSE "blocked")
  /\ UNCHANGED <<dev, got, evscope>>

\* cancel_delayed_work_sync returns when the work is not running
CancelSync(p) ==
  /\ proc[p].pc = "cancel" /\ dwork.run = "no"
  /\ dwork' = [dwork EXCEPT !.pend = "no"]
  /\ ev' = [ev EXCEPT !.mutex = NONE]
  /\ Step(p, "blocked")
  /\ UNCHANGED <<dev, got, evscope>>

\* __disk_unblock_events on the state e of disk->ev
UnblockedEv(e) == [e EXCEPT !.block = @ - 1]
UnblockedWork(e, check_now) ==
  IF e.block # 1 THEN dwork
  ELSE IF check_now THEN queue_delayed_work(dwork, 0)
  ELSE IF disk_events_poll_jiffies(e) > 0
  THEN queue_delayed_work(dwork, disk_events_poll_jiffies(e)) ELSE dwork

disk_unblock_events(p) ==
  /\ proc[p].pc = "blocked" /\ proc[p].op = "block"
  /\ ev' = UnblockedEv(ev) /\ dwork' = UnblockedWork(ev, FALSE)
  /\ proc' = [proc EXCEPT ![p] = Idle]
  /\ UNCHANGED <<dev, got, evscope>>

disk_events_poll_msecs_store(p, msecs) ==
  /\ proc[p].pc = "blocked" /\ proc[p].op = "store"
  /\ LET e == [ev EXCEPT !.poll_msecs = msecs] IN
     ev' = UnblockedEv(e) /\ dwork' = UnblockedWork(e, TRUE)
  /\ proc' = [proc EXCEPT ![p] = Idle]
  /\ UNCHANGED <<dev, got, evscope>>

disk_check_events ==
  /\ ev.on # "no"
  /\ dwork' = IF ev.block = 0 THEN queue_delayed_work(cancel_delayed_work(dwork), 0) ELSE dwork
  /\ UNCHANGED <<ev, proc, dev, got, evscope>>

\* writing events_dfl_poll_msecs: the value, then a check of every listed disk
SetDefault(p, msecs) ==
  /\ proc[p] = Idle /\ "default" \in evscope.ops
  /\ ev' = [ev EXCEPT !.dfl = msecs]
  /\ Step(p, "list")
  /\ UNCHANGED <<dwork, dev, got, evscope>>

disk_events_set_dfl_poll_msecs(p) ==
  /\ proc[p].pc = "list"
  /\ dwork' = IF ev.on = "listed" /\ ev.block = 0
              THEN queue_delayed_work(cancel_delayed_work(dwork), 0) ELSE dwork
  /\ proc' = [proc EXCEPT ![p] = Idle]
  /\ UNCHANGED <<ev, dev, got, evscope>>

-----------------------------------------------------------------------------
(* disk_clear_events *)

ClearStart(p, mask) ==
  /\ proc[p] = Idle /\ ev.on # "no" /\ "clear" \in evscope.ops
  /\ ev' = [ev EXCEPT !.clearing = @ \cup mask]
  /\ proc' = [proc EXCEPT ![p] = [Idle EXCEPT !.pc = "block", !.op = "clear", !.mask = mask,
                !.due = OfKinds(got.happened, mask)]]
  /\ UNCHANGED <<dwork, dev, got, evscope>>

\* mutant: the check is left to whoever holds the block count
queue_unless_blocked(p) ==
  /\ proc[p].pc = "blocked" /\ proc[p].op = "clear"
  /\ dwork' = IF ev.block = 1 THEN queue_delayed_work(dwork, 0) ELSE dwork
  /\ Step(p, "flush")
  /\ UNCHANGED <<ev, dev, got, evscope>>

ClearQueue(p) ==
  /\ proc[p].pc = "blocked" /\ proc[p].op = "clear"
  /\ dwork' = queue_delayed_work(dwork, 0)
  /\ Step(p, "flush")
  /\ UNCHANGED <<ev, dev, got, evscope>>

flush_delayed_work(p) ==
  /\ proc[p].pc = "flush"
  /\ dwork' = IF dwork.pend = "timer" THEN [dwork EXCEPT !.pend = "queued"] ELSE dwork
  /\ proc' = [proc EXCEPT ![p].pc = "flushing",
       ![p].await = IF dwork.pend # "no" THEN "queued"
                    ELSE IF dwork.run # "no" THEN "running" ELSE "done"]
  /\ UNCHANGED <<ev, dev, got, evscope>>

ClearUnblock(p) ==
  /\ proc[p].pc = "flushing" /\ proc[p].await = "done"
  /\ ev' = UnblockedEv(ev) /\ dwork' = UnblockedWork(ev, FALSE)
  /\ proc' = [proc EXCEPT ![p].pc = "fetch", ![p].await = NONE]
  /\ UNCHANGED <<dev, got, evscope>>

ClearFetch(p) ==
  LET taken == OfKinds(got.noted, proc[p].mask) IN
  /\ proc[p].pc = "fetch"
  /\ ev' = [ev EXCEPT !.pending = @ \ proc[p].mask]
  /\ got' = [got EXCEPT !.noted = @ \ taken, !.fetched = @ \cup taken]
  /\ Step(p, "cleared")
  /\ UNCHANGED <<dwork, dev, evscope>>

ClearReturn(p) ==
  /\ proc[p].pc = "cleared"
  /\ proc' = [proc EXCEPT ![p] = Idle]
  /\ UNCHANGED <<ev, dwork, dev, got, evscope>>

-----------------------------------------------------------------------------
(* Life of disk->ev *)

Begin(p, op) ==
  /\ proc[p] = Idle /\ ev.on = "listed" /\ op \in evscope.ops \cap {"block", "store"}
  /\ proc' = [proc EXCEPT ![p] = [Idle EXCEPT !.pc = "block", !.op = op]]
  /\ UNCHANGED <<ev, dwork, dev, got, evscope>>

\* disk_add_events: listed with a block count of 1, then unblocked
AddEvents(p) ==
  /\ proc[p] = Idle /\ ev.on = "no"
  /\ ev' = [ev EXCEPT !.on = "listed", !.block = 1]
  /\ proc' = [proc EXCEPT ![p].pc = "adding", ![p].op = "add"]
  /\ UNCHANGED <<dwork, dev, got, evscope>>

disk_add_events(p) ==
  /\ proc[p].pc = "adding"
  /\ ev' = UnblockedEv(ev) /\ dwork' = UnblockedWork(ev, TRUE)
  /\ proc' = [proc EXCEPT ![p] = Idle]
  /\ UNCHANGED <<dev, got, evscope>>

\* del_gendisk comes after add_disk has returned
DelStart(p) ==
  /\ proc[p] = Idle /\ ev.on = "listed" /\ "del" \in evscope.ops
  /\ \A r \in EvProcs : proc[r].op \notin {"add", "del"}
  /\ proc' = [proc EXCEPT ![p] = [Idle EXCEPT !.pc = "block", !.op = "del"]]
  /\ UNCHANGED <<ev, dwork, dev, got, evscope>>

\* disk_del_events: off the list; removing the sysfs files waits for writers
disk_del_events(p) ==
  /\ proc[p].pc = "blocked" /\ proc[p].op = "del"
  /\ \A r \in EvProcs : proc[r].op # "store"
  /\ ev' = [ev EXCEPT !.on = "unlisted"]
  /\ Step(p, "deleted")
  /\ UNCHANGED <<dwork, dev, got, evscope>>

Happens(x) ==
  /\ x \notin got.happened
  /\ got' = [got EXCEPT !.happened = @ \cup {x}]
  /\ dev' = dev \cup {x}
  /\ UNCHANGED <<ev, dwork, proc, evscope>>

EvNext ==
  \/ TimerFires \/ WorkStart \/ check_events \/ account_events \/ WorkEnd
  \/ disk_check_events
  \/ \E x \in evscope.events : Happens(x)
  \/ \E p \in evscope.procs :
       \/ disk_block_events(p) \/ CancelSync(p) \/ disk_unblock_events(p)
       \/ \E msecs \in evscope.polls : disk_events_poll_msecs_store(p, msecs)
       \/ \E msecs \in {0, 1} : SetDefault(p, msecs)
       \/ disk_events_set_dfl_poll_msecs(p)
       \/ \E mask \in evscope.masks : ClearStart(p, mask)
       \/ ClearQueue(p) \/ flush_delayed_work(p) \/ ClearUnblock(p) \/ ClearFetch(p) \/ ClearReturn(p)
       \/ \E op \in {"block", "store"} : Begin(p, op)
       \/ AddEvents(p) \/ disk_add_events(p) \/ DelStart(p) \/ disk_del_events(p)

EvSpec == EvInit /\ [][EvNext]_evVars

-----------------------------------------------------------------------------
(* Properties *)

Quiet == dwork.run = "no" /\ dwork.pend = "no"
Clearing(p) == proc[p].op = "clear" /\ proc[p].pc \in {"flush", "flushing"}

\* Once disk_block_events has returned no check runs or is scheduled until
\* the matching unblock, unless disk_clear_events asked for it; the count is
\* that of the blockers, 1 when a deleted disk is released; and an unblocked
\* disk that polls always has its next check scheduled or running, in
\* whatever order blockers, intervals and checks came.
EventsBlocked ==
  /\ ev.block = Cardinality({p \in EvProcs : proc[p].pc \in
                   {"cancel", "blocked", "flush", "flushing", "adding", "deleted"}})
  /\ (\E p \in EvProcs : proc[p].pc \in {"blocked", "deleted"}) /\ ~(\E p \in EvProcs : Clearing(p))
       => Quiet
  /\ ev.on # "no" /\ ev.block = 0 /\ disk_events_poll_jiffies(ev) > 0
       /\ (\A p \in EvProcs : proc[p].pc # "list")
       => dwork.pend # "no" \/ dwork.run \in {"check", "account"}

\* disk_clear_events returns, to this caller or to one that cleared at the
\* same time, every event of its mask that had happened when it was called:
\* its check starts after the call although others may block or be running.
ClearSeesEvents ==
  \A p \in EvProcs : proc[p].pc = "cleared" => proc[p].due \subseteq got.fetched
=============================================================================
