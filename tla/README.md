# A TLA+ model of the block layer and System V / POSIX IPC of Linux 3.0

The repository holds `block/` and `ipc/` of Linux 3.0 with their size
computations rewritten on checked helpers (`include/linux/l30_checked_math.h`,
described in `README_CN.md`). This project models the parts in which the
correctness depends on the order of steps of several tasks, interrupts or
queues. `PROJECT.json` lists every part of the repository, the lines each
definition stands for, the hazards, and the expected result of each run.

## The system

**IPC.** Message queues, semaphore arrays and shared memory segments live in
id tables (`util.c`), one set per namespace (`namespace.c`). An object is locked
by a spinlock inside it; lookups and sleepers rely on RCU and, partly, on a
plain reference count in front of the object (`alloc.c`).

| Part | State | Operations | What makes it hard |
|---|---|---|---|
| `msg.c`, `msgutil.c` | message list, byte and message counters, lists of sleeping senders and receivers | msgsnd, msgrcv, IPC_SET, IPC_RMID | hand-off to a sleeping receiver without its taking the lock, receivers without a reference |
| `mqueue.c` | priority array, two lists of waiters, notification owner | mq_send, mq_receive, mq_notify, open, close, unlink | hand-over in both directions racing with time-outs and signals |
| `sem.c` | values, pending operations in two kinds of lists, undo adjustments | semtimedop, SETVAL, SETALL, IPC_RMID, exit | short cuts that skip pending operations; wake-ups after the unlock |
| `shm.c` | attach count, SHM_DEST, shm_tot | shmget, shmat, shmdt, fork, IPC_RMID | the segment is pinned by its count over unlocked stretches |
| `util.c`, `namespace.c` | id table, sequence numbers, namespace count | ipcget, lock, rmid, clone, put | id reuse, teardown |

**Block layer.** A bio becomes a request (`blk-core.c`), is plugged or given to
an elevator (`elevator.c` and the schedulers), perhaps sequenced by
`blk-flush.c`, dispatched to a driver with a tag (`blk-tag.c`) and a timer
(`blk-timeout.c`), and completed in a softirq (`blk-softirq.c`) or recovered by
the driver's error handling.

| Part | State | Operations | What makes it hard |
|---|---|---|---|
| `blk-flush.c` | two flush queues with toggled indices, data in flight, the shared flush request | insert, kick, complete a step, abort | sharing of flushes, deferral, holding of the queue, requeueing |
| `blk-tag.c` | tag bitmap, tag index, depth | start, end, resize | one map under several queue locks |
| `blk-timeout.c`, `blk-softirq.c` | REQ_ATOM_COMPLETE, timeout list, completion lists | start timer, expire, complete, reset, requeue | timer against interrupt |
| `blk-core.c`, `elevator.c` | request counts, starved and full flags, plug list, dispatch queue | get and free requests, plug, merge, dispatch, switch elevator | starvation at the limit, draining |
| `deadline-iosched.c`, `noop-iosched.c`, `blk-merge.c` | sorted trees, FIFO lists, merge hash | merge, add, dispatch, requeue | five indexes of one request; starvation |
| `cfq-iosched.c`, `blk-ioc.c` | groups, service trees, slices, reference counts | insert, select, expire, idle, merge and split queues | idling that must end, queues freed while referred to |
| `blk-throttle.c`, `blk-cgroup.c` | groups with slices and waiting bios, rules | throttle, dispatch work, change limits, remove | rates in truncated jiffies, work re-armed from three places |
| `genhd.c` (disk events), `bsg.c` | delayed work and its blocking depth; devices, commands | poll, block, clear; open, write, read, close | nested blocking, lifetime |
| settings, mapping, ioctls, sysfs | limits | | mostly data and interfaces |

## Modules

| Module | Models | Checked in |
|---|---|---|
| `SysvMsg` | one message queue: `msg.c` with the memory rules of `alloc.c` and the locking of `util.c` | `MCSysvIpc` |
| `PosixMq` | one POSIX queue: `mqueue.c` | `MCPosixMq` |
| `PrioQueue` | the abstract queue that `PosixMq` implements, with the references that keep it | `MCPosixMq` |
| `SysvSem` | one semaphore array: `sem.c` | `MCSysvIpc` |
| `SemUndo` | undo structures over several arrays and shared lists: `sem.c` | `MCIpcObj` |
| `IpcIds` | identifier tables: `util.c` (operators) | `MCIpcObj` |
| `IpcNs` | namespaces and their notifier chain: `namespace.c`, `ipcns_notifier.c` | `MCIpcObj` |
| `SysvShm` | shared memory in these tables and namespaces: `shm.c` | `MCIpcObj` |
| `BlkRequest` | request allocation, plugs, execution, elevator switch: `blk-core.c`, `blk-exec.c`, `blk-sysfs.c`, `elevator.c` | `MCBlock` |
| `BlkSched` | merging, elevator core, deadline, noop: `blk-core.c`, `blk-merge.c`, `elevator.c`, `deadline-iosched.c`, `noop-iosched.c` | `MCBlock` |
| `BlkComplete` | queues with a shared tag map: `blk-tag.c`, `blk-timeout.c`, `blk-softirq.c` | `MCBlock` |
| `BlkThrottle` | throttling: `blk-throttle.c`, `blk-cgroup.c` | `MCBlock` |
| `DiskEvents` | disk events: `genhd.c` | `MCBlock` |
| `Bsg` | `bsg.c` | `MCBlock` |
| `BlkFlush` | `blk-flush.c` and what of `blk-core.c`, `elevator.c` feeds and runs it, with the disk's cache | `MCDispatch` |
| `CfqSched` | CFQ's choice of queues, idling, preemption: `cfq-iosched.c` | `MCDispatch` |
| `CfqRefs` | CFQ's reference counts: `cfq-iosched.c`, `blk-ioc.c`, `blk-cgroup.c` | `MCDispatch` |
| `SeqOps` | operators on sequences, under their names in `SequencesExt`, without that module's weight in a proof | |
| `PosixMqRefines` | the refinement mapping from `PosixMq` to `PrioQueue` | `MCPosixMq` |
| `SeqFacts` | lemmas about sequences, minima and maxima that several proofs use | |
| `SysvMsgInv`, `SysvMsgSteps`, `SysvMsgProofs` | theorems about `SysvMsg` | |
| `PosixMqProofs` | theorems about `PosixMq` and `PosixMqRefines` | |
| `SysvShmInv`, `SysvShmProofs` | theorems about `SysvShm`, `IpcIds` and `IpcNs` | |
| `BlkCompleteProofs` | theorems about `BlkComplete` | |

A stretch of code under one lock is one action, unless something reads or
writes the same state without that lock; there the stretch is cut. `pc` (or
`pos`, `at`) names the place between two actions. Where a part of the code is a
chain of functions on one structure (`BlkSched`, `BlkFlush`, `CfqSched`,
`BlkThrottle`), the structure is a record and each function an operator on it
with the function's name.

`MCBlock`, `MCDispatch`, `MCIpcObj` and `MCSysvIpc` hold several components that share no
state. A behaviour runs one of them, which the variable `part` names; the
variables of the others stay at rest, and a property of a component says nothing
about the other parts. Within a component a *scope* fixes what the behaviour
may do (how many bios, which tasks plug, whether a cgroup is removed, ...), so that
each interplay is explored at the size it needs without paying for all of
them at once. Scopes are chosen in the initial state and never change.

* **SysvMsg.** `MsgsndCall`, `MsgsndWake`, `MsgrcvCall`, `MsgrcvLockless`,
  `MsgrcvRelock`, `IpcSet`, `IpcRmid` are the calls. `pipelined_send` and
  `expunge_all` are cut into the store of NULL (`Answering`), `WakeUp` and
  `Store`, since the receiver spins on `r_msg` without the lock. `freeque`'s last
  part runs without it: the messages one by one, then the decrement of the
  reference count as a load and a store. Memory goes `live`, `grace`, `freed`; a
  grace period waits for the readers that were there when it began. The lookup
  of `MsgsndCall`, `MsgrcvCall` and the others (`ipc_lock`, `ipc_checkid`) is one
  guard: the queue is there and the lock is free; what a lookup finds when
  identifiers are reused is `IpcIds`'s subject.
* **PosixMq.** `Serve` is the common part of `pipelined_send` and
  `pipelined_receive`; `WakeUp` and `Ready` follow it as steps of their own.
  A sleeper is woken by its waker, `Signal` or `Timeout`, then `CheckLockless`,
  `Relock`. The variable `nonempty` is a history variable: the queue has held
  messages without a break since the registration. A task opens the queue once
  and closes it while it is in no call: `fget` keeps the file during a call, so a
  close by another thread of the process takes effect when the call has ended.
* **SysvSem.** The record `arr` is the array; `Scan` is the loop of
  `update_queue`. The wake-ups after the unlock are steps of their own
  (`WakeProcess`, `WakeStatus`). `base` is a history variable: what the array's
  values would be without any operation that is still to be undone. A task of
  the model is a process with one undo list; `ExitSem` applies and clears it.
  What the cap at exit takes from the balance is computed from the nearest legal
  value (`Excess`), not from what the code stores (`ExitValue`).
* **BlkFlush.** The record `q` is the request queue; operators such as
  `blk_kick_flush`, `blk_flush_complete_seq`, `flush_end_io` map it to its next
  value, as the functions of these names do. The elevator is a set: the
  order a scheduler chooses is not its concern. `run` is the state of `request_fn`:
  a driver stops and starts its queue (`StopQueue`, `StartQueue`), and puts
  off a request it cannot prepare (`FetchDefer`, after which it has called
  `blk_delay_queue`, as such drivers must). A write allocated during a switch of
  elevators goes to the back (`InsertBack`). The disk has a cache and media;
  a FUA write goes through, a flush moves the cache, and a disk that gives
  up its cache has written it out.
* **BlkComplete.** `start_tag` is cut between the search and the
  test-and-set, and between the set bit and the entry in `tag_index`;
  `end_tag` between the emptied entry and the cleared bit, because another
  queue runs there under its own lock. `blk_rq_timed_out` is cut after
  BLK_EH_RESET_TIMER has cleared REQ_ATOM_COMPLETE (`TimedOutReset`, then
  `AddTimer`), because the interrupt takes no lock. Where the BUG_ON of
  `blk_add_timer` would fire, no step follows and the lock stays taken. A driver
  gives a request back from its completion, its error handler, or while it has
  it (`blk_queue_invalidate_tags` does so for all): the driver is taken to have stopped its
  hardware, with no completion of that request under way. Any listed request may
  expire, which covers every deadline.
* **SysvShm, IpcIds, IpcNs.** `shm_ids[ns]` is the table: index to object,
  `in_use`, `seq`. `do_shmat` is cut at each lock it drops, fork and
  unmap copy and remove mappings, the last `fput` of an attach file puts the
  namespace. `free_ipc_ns` is cut between the unregistering of the notifier, the
  exits of the tables and the free; a walk of the notifier chain holds its own
  position. Sequence numbers wrap at `SEQ_MAX`.
* **SemUndo.** `find_alloc_undo` is cut around its allocation, `freeary` between
  the mark of an undo structure and its unlinking, `exit_sem` between the read
  of the first entry, the lock of its array and the unlinking.
* **BlkRequest.** `reqs` counts requests by place, direction and the elevator of their
  private data. `GetRequest` is `get_request`; `IoSchedule` is the sleep
  of `get_request_wait` with its exclusive wait entry; a failing allocation is one
  of its outcomes. `elv_quiesce_start`, the drain, the attachment of the new
  elevator and `elv_quiesce_end` are steps of the switch.
* **BlkSched.** `d` is the queue with plug lists, merge hash, `last_merge`, sort trees,
  FIFO lists, dispatch list and driver. `make_request` is one action from the
  plug merge to the insertion; a plug flush, a dispatch, a partial completion, a
  requeue and a special request are others.
* **BlkThrottle.** Time is `td.now` in jiffies; `throtl_start_new_slice`,
  `throtl_trim_slice`, `tg_may_dispatch` and the others are operators. Slices and rates use the
  code's integer division. `sent` is a history variable.
* **DiskEvents.** `dwork` is the delayed work: pending, running, being flushed or
  cancelled. An event is a kind and a number, so that a late one is told from
  one that was there when `disk_clear_events` was called.
* **Bsg.** The table, the `bsg_device` with `ref_count`, its two lists, the wait
  queues and the class device; `bsg_put_device`'s decrement is under the mutex as
  in the code, the wake-up of a completion after the unlock.
* **CfqSched, CfqRefs.** Two views of one scheduler. The first keeps every decision
  of dispatching and takes either outcome of a comparison of positions, keys
  and think times; the second keeps every place that takes or drops a
  reference and takes either outcome of the decisions.

## Runs

| Run | Instance | Shows |
|---|---|---|
| `sysv` | messages: 3 tasks, 3 messages, two of one type, sizes 0 to 2, room for 1 or 2 bytes, 4 kinds of receive, permissions given and taken away; semaphores: 2 semaphores, values to 2, in 3 scopes: 3 tasks that do everything with 4 kinds of operation, the same with signals and without the wait for zero, and 3 that sleep on 5 kinds while a fourth posts, sets, removes or exits | no message lost, doubled or overtaken by one of its type; exact counters; no lost wake-up; no access to a dead stack or freed queue; no semaphore operation left pending that could proceed; lists and undo balance |
| `msg_live` | 3 tasks, 1 message | after IPC_RMID everybody returns |
| `msg_leak` | 2 tasks, 1 message | *violated*: the queue's memory is released |
| `mqueue` | 3 tasks of two priorities, 3 messages of two, capacity 2 | the lists of waiters are right, no notification is missed, and the whole implements `PrioQueue`, which dies with its last reference |
| `sem_race` | the semaphore part of `sysv` | *violated*: a task to be woken is still inside semtimedop |
| `ipcobj` | 2 tasks, 2 segments, 2 namespaces, ids that wrap at once; 2 users, a remover, 2 arrays, 2 undo structures and lists | a segment lives as long as it is pinned, `shm_tot` is exact, a reader's id names what it found, no dead namespace is reached; undo structures are unique, linked on both sides and restore the values |
| `sem_exit` | the undo part of `ipcobj` | *violated*: exit frees every undo structure of the process |
| `dispatch` | flush: a plain, a FUA, a FLUSH+FUA write, an empty flush, queues with any cache, flags that change, and a driver that stops, restarts and defers; CFQ: 2 or 3 queues in 6 scopes; references: up to 3 tasks, 4 queues in 6 scopes | one place per request, one flush at a time, no stall, what FLUSH and FUA promise; CFQ serves no empty queue, never stalls, and frees nothing that is referred to |
| `flush_nocache` | the flush part, with a cache that may be turned off | *violated*: a write that ends was written |
| `block` | tags: 2 queues, 3 requests, 2 tags; requests: 2 or 3 tasks, limit 1 or 2 in 5 scopes; merges: 3 to 6 bios in 6 scopes; throttling: 2 to 4 bios over 0 to 9 jiffies in 4 scopes; events: 2 or 3 processes in 5 scopes; bsg: 2 files, 2 commands in 3 scopes | exact tag map, one winner of timer and interrupt, nothing forgotten; exact request counts, marks, no sleeper without waker; no bio lost by merging, indexes exact, writes not starved; rates hold, throttled bios have work to come, groups die once; no check while blocked, no event missed; a bsg device outlives its users |
| `timer_race` | the tag and timer part of `block` | *violated*: `blk_add_timer` finds the request not complete |
| `failfast` | the merge scope with mixed failfast bits | *violated*: a mixed request has the bits of its first bio |

The bounds are chosen for the cases that need most actors: a sender, a receiver
and a remover (or a second receiver with a buffer too small); a full POSIX queue
with a sleeping sender and a third task; a complex operation, simple ones of different
sizes and a wait for zero, three of them pending together when a fourth task posts; an attacher, a remover and a fork on one segment;
a namespace dying while the other task reads and moves; one
request in the running flush, one waiting for the next and one out for data; two
requests of one queue and one of the other after the same bit; a batching task, a
sleeper and a third taking the freed request; a bio that joins two requests;
two batches of reads before a write; a slice that ends between two bios; a blocker,
a clearer and the timer; a closer waiting for a command of another file.
Each message and each bio is used once; requests of `BlkComplete`, segments, undo
structures and commands come back. `LongMin`, `SEMVMX`, `SEMAEM`, `SEQ_MAX`, `IPCMNI` and
`HZ` are small numbers for the C limits, so that the edges are reached.
Tasks are interchangeable in `SysvMsg` and `SysvSem` (but the poster), segments and arrays in
`MCIpcObj`, hence the symmetry sets there; the liveness run uses none.

Deadlock is not checked: every instance may stop, because all messages or bios
have been used, all requests have ended, the object is gone, or a receiver waits
for a message nobody sends. That nothing stops *early* is what `NoLostWakeup`,
`NoRunnablePending`, `NoStall`, `CfqNoStall`, `ThrottledWork`, `SleeperHasWaker` and
`NeverLost` say as invariants.

**Fairness** (`msg_live` only). The scheduler runs a runnable task (weak fairness
of `Inside`); grace periods end; a task waiting for the spinlock gets it, though
others take it in between (strong fairness of the two actions that lock after a
sleep), because Linux 3.0 spinlocks are ticket locks. Nothing is assumed about
new calls or signals.

## Disagreements with the code's comments

* `msg_leak`. `freeque` puts its reference after the unlock, and
  `ipc_rcu_putref` (`alloc.c:163`) decrements a plain `int`. A woken sender's
  decrement between its load and store is lost; both have put their reference
  and the queue stays allocated, against `alloc.h:19-20`.
* `sem_race`. A sleeper that was interrupted before `freeary` ran finds the array
  gone (`sem.c:1480`) and returns without looking at its status again, while
  `freeary` still has to write to its `sem_queue`, against `sem.c:442-444`.
* `flush_nocache`. If `flush_flags` loses REQ_FLUSH between
  `__generic_make_request` and `blk_insert_flush`, `blk_flush_policy` is 0
  and the write is completed unexecuted, against `blk-flush.c:19-21`.
* `sem_exit`. `freeary` marks an undo structure with `semid = -1` before it unlinks
  it; `exit_sem` reads the -1 (`sem.c:1576`), takes the list for
  empty and frees it with the structures of other arrays on it, against
  `sem.c:1540`.
* `failfast`. `bio_attempt_front_merge` (`blk-core.c:1141`) marks a request as mixed and
  leaves its failfast bits, which are no longer those of its first bio, against
  `blk-core.c:2135` and `blk-merge.c:336`.

* `timer_race`. After BLK_EH_RESET_TIMER the bit is cleared (`blk-timeout.c:90`), an interrupt
  may complete the request at once, and `blk_add_timer` runs into its own
  `BUG_ON(test_bit(REQ_ATOM_COMPLETE, ...))` (`blk-timeout.c:173`).

`DataWritten` holds while the queue keeps a cache, of either kind, or has none from the
start; `flush_nocache` is the case in which it loses the one it had.

`Durable` and `WaitersKicked` are stated for queues on which `elv_abort_queue` was
not called: it takes sequenced requests off their lists, so that a write out for
its data ends without POSTFLUSH.

## Proofs

The theorems hold for every value of the constants that the named assumption of
the module allows; TLC evaluates the assumption in the runs.

| Theorem | States | Of |
|---|---|---|
| `MessagesConserved`, `CountersExact`, `WakeupsComplete`, `NothingFreedIsUsed` | `Conservation`, `Accounting`, `NoLostWakeup`, `NoUseAfterFree` | `SysvMsg` |
| `FifoPerType` | the action property `OrderPerType` | `SysvMsg` |
| `WaitersServed`, `NotificationNotMissed` | `MqWaiters`, `NotifyNotMissed` | `PosixMq` |
| `RefinesPrioQueue` | `ImplementsPrioQueue`: `PosixMq` implements `PrioQueue` | `PosixMqRefines` |
| `SegmentsPinned`, `CountsExact`, `IdentifiersHold`, `NamespacesCounted` | `ShmPinned`, `ShmAccounting`, `ShmIdentity`, `NsReachable` | `SysvShm` |
| `TypeCorrect`, `TagMapExact`, `SingleWinner`, `NoneForgotten` | `CompleteTypeOK`, `TagsExact`, `OneWinner`, `NeverLost` | `BlkComplete` |

Each rests on an inductive invariant `IInv` of its component, proved in the
form `Init => IInv` and `IInv /\ [Next]_vars => IInv'`, with one step per action
and, where an action is long, a lemma about its effect.

**SysvMsg** (`ConstantsAssumption`: the codes in `r_msg` are no messages, types are
positive, sizes natural numbers that fit an int; the sets may be infinite).
`IInv` adds to the properties who holds the spinlock and `rw_mutex` at each place
(`LockInv`, `CallInv`), what the receiver being answered will get and why it is
the right thing (`AnswerInv`), that the receiver list is the set of unanswered
receivers (`ReceiverInv`), that a sleeper is on its list and has no reason to be awake (`SleepInv`),
that the reference count covers the sleeping senders and the reference of the
table until it is put (`MemInv`), and that no two holders have the same message
(`HoldInv`). `MemInv` says *at least*: the lost decrement of `msg_leak` leaves the
count too high, never too low, which is why nothing is freed too early.
`SysvMsgInv` has the invariant, the facts about `convert_mode`, `testmsg` and the
counters, and the steps of locks, types and the reference count;
`SysvMsgSteps` the hand-off and the sleepers; `SysvMsgProofs` the messages and
counters, and the theorems. `Accounting` states the sum of the sizes by running
totals along the list (`Totals`) rather than by a fold, so that one message
more or less needs no induction.

**PosixMq** (`MqAssumption`: priorities are natural numbers, the capacity is positive). The
lists of waiters are the unserved ones in order of priority; a receiver waits
only at an empty queue and a sender only at a full one (`WaitInv`); a task owns its message
until it is served, or from then on (`MsgInv`). For the refinement the queue of
`PrioQueue` is the message array reversed and the place of a message is computed from its
holder (`PlaceOf`); `InsertedAbstract` shows that `msg_insert`'s place is the abstract one,
and the steps of a sleeper, a waker or the clock are stutters. The references of
`PrioQueue` are the descriptors and, while the queue is linked, its name; `mq_open` gains one,
close and `mq_unlink` drop one, and whoever drops the last takes the messages.

**SysvShm** (`ShmAssumption`: processes, segments and files are finite sets, `IPCMNI` is
positive, `SEQ_MAX` and the limits are natural numbers). `IInv` has two halves. `NsInv`
counts references: the locals of a call are set where the call uses them, an attach
file has a reference for every mapping and every `do_shmat` at work on it, and
the count of a namespace is the number of its users; `SysvShmInv` proves it for all steps,
and what the steps that touch no table leave alone.
With it a namespace that somebody's identifier or mapping leads to is alive, hence not in
`shm_exit_ns` and not created anew. The other half is in `SysvShmProofs`: a
segment is in one table, at the index of its identifier (`TableInv`); keys are unique
(`KeyInv`); a segment found under RCU is not reused, and while it is live it is where it was
found (`FoundInv`), so that `do_shmat` pins what its identifier leads to; sequence numbers
are the number of segments made modulo `SEQ_MAX + 1` (`SeqInv`), and an index never holds
a segment older than an identifier given out for it (`MeantInv`). The last two give
`ShmIdentity` by arithmetic (`FarApart`): two numbers equal modulo `SEQ_MAX + 1` are that far apart.
`nattch` drops to zero only with the last user (`SoleUser`), which is why
`shm_destroy` never pulls a table entry from under a pinned call. Mappings and pages
are counted as the elements of a union of blocks, one block for each file or
segment, so that one more or less is one lemma here too.

**BlkComplete** (`CompleteAssumption`: every request belongs to a queue, the map has at
least one tag, `NoReq` is no request). The found tag lives in a local variable
between search and test-and-set, so the invariant has to say that this variable is a
tag of the map from there until the bit is cleared again (`MyTagOK`). `TypeStep` shows
that a step keeps the types, `TagStep` the tag map (the test-and-set is where a
bit that was zero when it was found may have been taken by the other queue), `LockStep`
that a request at a place under its queue's lock holds that lock, the place before
`blk_add_timer` included (`LockHeld`), and `WinnerStep` the other two.

The invariants were checked by TLC on the instances of the runs before they
were proved. In the models that are proved about, sums are cardinalities or
running totals, and the operators on sequences come from `SeqOps`.

Only model-checked: liveness (`msg_live`), since the prover has no fairness;
`SysvSem`, whose scan of the pending operations is a recursive operator, and with it the
undo balance; `SemUndo`; the chains of operators on a queue record in
`BlkFlush`, `BlkSched`, `CfqSched` and `BlkThrottle`, which fold over lists of any
length; `BlkRequest`, `CfqRefs`, `DiskEvents` and `Bsg`, whose invariants
have not been made inductive; and the violations, which are runs by nature.

## Left out of the modelled parts

* Empty bios with FLUSH and FUA: `blk-flush.c:13-14` gives FUA a meaning for
  data only. For the same reason `flush_end_io` never appends
  to the list it walks.
* `QUEUE_FLAG_DEAD`, the checks of a bio in `__generic_make_request` that end it before
  it has any effect (end of device, size, injected faults, discards the device has not), and
  BLKPREP_KILL, which is a fetch followed by an end in error. A queue a driver stops
  may stay stopped; nothing is claimed of it until it is started.
* The range check of `semadj` (`sem.c:379`) for several SEM_UNDO operations on one semaphore in
  one call: the instances have one such operation per call.
* Calls that read only (stat, info, poll, getattr), netlink notification, the
  audit and security hooks, and the copying of message texts.
* Permissions are a set of granted accesses, checked where `ipcperms` is called.
* Tag maps that are allocated anew when they grow, per-CPU completion lists
  and CPU hotplug, and the deadlines of timers.
* Clustering of segments, scatter lists, mapping of user memory, integrity data.
* In CFQ the lengths of slices, `vdisktime` and statistics; where the code compares
  them either outcome is taken.
* Device numbers, partition tables, sysfs and ioctl interfaces, the sysctl tables, the
  compatibility layers, `blk-iopoll.c`, `blk-lib.c`, and the single checked additions and
  multiplications of `l30_checked_math.h`. `PROJECT.json` gives the reason for each part.
