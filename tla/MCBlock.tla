------------------------------ MODULE MCBlock -------------------------------
(***************************************************************************)
(* Small instances of the life of a request and of what surrounds it: tags *)
(* and completion (BlkComplete), allocation and plugs (BlkRequest), merges *)
(* and deadline (BlkSched), throttling (BlkThrottle), disk events          *)
(* (DiskEvents) and bsg (Bsg).  They share no state, so a behaviour runs   *)
(* one of them: `part' says which, and the variables of the other          *)
(* instances are unused.                                                   *)
(***************************************************************************)
EXTENDS BlkComplete, TLC

CONSTANTS qa, qb, r1, r2, r3,             \* two queues that share a tag map
          t1, t2, t3, e1, e2,             \* tasks and elevators
          Tasks, Elevators, InitElevator,
          Cgroups, Root, Submitters, HZ, throtl_slice, throtl_quantum,
          max_nr_reads, max_nr_writes,
          EvProcs, Files, Bds, Cmds, NoBd, NoCmd, f1, f2, k1, k2,
          MCSchedScopes,
          Parts                           \* the components this configuration runs

VARIABLES rl, q, elv, reqs, task, sw, rqscope,
          d, schedscope,
          td, tg, rule, user, writer, remover, alive, sent, tscope,
          ev, dwork, proc, dev, got, evscope,
          bcd, queue, bd, cmd, file, waking, bsgscope,
          part

-----------------------------------------------------------------------------
(* The first queue has two requests, one of them asynchronous.             *)

MCReqs == {r1, r2, r3}
MCQueueOf == r1 :> qa @@ r2 :> qa @@ r3 :> qb
MCSync == {r1, r3}

-----------------------------------------------------------------------------
(* Requests: the values of nr_requests, the batch, the tasks, directions,  *)
(* kinds of requests, tasks that plug, failing allocations, and the        *)
(* elevators to switch to.                                                 *)

RqScope(nr, batch, ts, dirs, kinds, pluggers, failing, elevators) ==
  [nr |-> nr, batch |-> batch, tasks |-> ts, dirs |-> dirs, kinds |-> kinds,
   pluggers |-> pluggers, failing |-> failing, elevators |-> elevators]

MCRqScopes ==
  {RqScope({1}, 1, {t1, t2, t3}, {"sync"}, {"fs"}, {t1}, FALSE, {}),
   RqScope({1}, 2, {t1, t2}, {"sync"}, {"fs", "flush"}, {}, FALSE, {e1, e2}),
   RqScope({1, 2}, 2, {t1, t2}, {"sync"}, {"fs"}, {t1}, TRUE, {}),
   RqScope({1}, 2, {t1, t2}, {"sync", "async"}, {"fs"}, {}, TRUE, {}),
   RqScope({1}, 2, {t1, t2}, {"sync"}, {"fs", "pc"}, {}, FALSE, {})}

A == INSTANCE BlkRequest WITH RqScopes <- MCRqScopes

-----------------------------------------------------------------------------
(* Merges: three or four bios on three neighbouring sectors, with limits   *)
(* that some merges exceed, with two tasks, with a driver that requeues    *)
(* and ends parts, on plug lists, and with special requests; and reads     *)
(* and writes that do not merge, as many as deadline's batches need.       *)

SchedScope(e, n, ps, rws, msec, mseg, nomerges) ==
  [elv |-> e, bios |-> n, pos |-> ps, sizes |-> {1}, rws |-> rws, ff |-> {FALSE},
   tasks |-> 1, plugs |-> {FALSE}, depth |-> 1, special |-> FALSE, now |-> 0,
   parts |-> FALSE, max_sectors |-> msec, max_segments |-> mseg, nomerges |-> nomerges,
   fifo_batch |-> 2, writes_starved |-> 1, expire |-> [read |-> 0, write |-> 1]]

MixedScope ==
  [SchedScope("deadline", 3, 0..2, {"read"}, 4, 2, "no")
     EXCEPT !.sizes = {1, 2}, !.ff = BOOLEAN, !.parts = TRUE]

Mixed == {MixedScope}
AllSched ==
  {MixedScope,
   [SchedScope("deadline", 4, 0..2, {"read"}, 3, 4, "no") EXCEPT !.tasks = 2, !.now = 1],
   [SchedScope("deadline", 4, 0..2, {"read"}, 3, 4, "no") EXCEPT !.plugs = {TRUE}, !.now = 1],
   [SchedScope("noop", 4, 0..2, {"read"}, 3, 4, "no") EXCEPT !.special = TRUE],
   [SchedScope("deadline", 3, 0..2, {"read", "write"}, 4, 4, "x")
      EXCEPT !.plugs = {TRUE}, !.special = TRUE],
   SchedScope("deadline", 6, {0, 2}, {"read", "write"}, 3, 4, "all")}

S == INSTANCE BlkSched WITH SchedScopes <- MCSchedScopes

-----------------------------------------------------------------------------
(* Throttling: limits per second at 4 jiffies a second and slices of 2.    *)

L(bps, iops) == [bps |-> bps, iops |-> iops]
ThrotlScope(us, now, bios, cgs, sizes, limits) ==
  [users |-> us, now |-> now, bios |-> bios, cgroups |-> cgs, dirs |-> {"r"},
   sizes |-> sizes, limits |-> limits, changes |-> FALSE, removed |-> {}, exits |-> FALSE]

MCThrotlScopes ==
  {ThrotlScope({t1}, 9, 4, {Root}, {1, 2}, {L(2, -1), L(-1, 2), L(4, 2)}),
   [ThrotlScope({t1}, 4, 3, {Root} \cup Cgroups, {1, 2}, {L(1, -1), L(-1, 2)})
      EXCEPT !.dirs = {"r", "w"}],
   [ThrotlScope({t1}, 2, 3, Cgroups, {1}, {L(1, -1), L(-1, -1)})
      EXCEPT !.changes = TRUE, !.removed = Cgroups, !.exits = TRUE],
   [ThrotlScope({t1, t2}, 0, 2, Cgroups, {1}, {L(1, -1)}) EXCEPT !.exits = TRUE]}

T == INSTANCE BlkThrottle WITH ThrotlScopes <- MCThrotlScopes

-----------------------------------------------------------------------------
(* Disk events and bsg.                                                    *)

EvScope(ps, es, masks, ops, polls, sync) ==
  [procs |-> ps, events |-> es, masks |-> masks, ops |-> ops, polls |-> polls, sync |-> sync]

MCEvScopes ==
  {EvScope({t1, t2}, {<<"change", 1>>, <<"change", 2>>}, {{"change"}}, {"block", "clear"}, {0}, TRUE),
   EvScope({t1, t2}, {<<"change", 1>>, <<"eject", 1>>}, {{"change"}}, {"clear", "del"}, {0}, FALSE),
   EvScope({t1, t2}, {<<"change", 1>>}, {}, {"block", "store", "default", "del"}, {0, 1, -1}, TRUE),
   EvScope({t1, t2, t3}, {}, {{"change"}}, {"block", "clear"}, {0}, FALSE),
   EvScope({t1, t2, t3}, {}, {{"change"}}, {"store", "clear"}, {1}, FALSE)}

E == INSTANCE DiskEvents WITH EvScopes <- MCEvScopes

BsgScope(fs, cs, percall, rqs, queues, nonblocks, sgio, unregister, cpus) ==
  [files |-> fs, cmds |-> cs, percall |-> percall, rqs |-> rqs, queues |-> queues,
   nonblocks |-> nonblocks, sgio |-> sgio, unregister |-> unregister, cpus |-> cpus]

MCBsgScopes ==
  {BsgScope({f1, f2}, {k1}, {1}, {1}, {1}, {FALSE}, FALSE, TRUE, 1),
   BsgScope({f1, f2}, {k1, k2}, {1}, {1}, {1, 2}, {FALSE}, FALSE, FALSE, 2),
   BsgScope({f1}, {k1, k2}, {1, 2}, {1, 2}, {1, 2}, BOOLEAN, TRUE, TRUE, 1)}

G == INSTANCE Bsg WITH BsgScopes <- MCBsgScopes

-----------------------------------------------------------------------------

rqVars == <<rl, q, elv, reqs, task, sw, rqscope>>
schedVars == <<d, schedscope>>
throtlVars == <<td, tg, rule, user, writer, remover, alive, sent, tscope>>
evVars == <<ev, dwork, proc, dev, got, evscope>>
bsgVars == <<bcd, queue, bd, cmd, file, waking, bsgscope>>

BlockInit ==
  /\ part \in Parts
  /\ Init
  /\ IF part = "request" THEN A!RqInit
     ELSE rl = 0 /\ q = 0 /\ elv = 0 /\ reqs = 0 /\ task = 0 /\ sw = 0 /\ rqscope = 0
  /\ IF part = "sched" THEN S!SchedInit ELSE d = 0 /\ schedscope = 0
  /\ IF part = "throttle" THEN T!ThrotlInit
     ELSE /\ td = 0 /\ tg = 0 /\ rule = 0 /\ user = 0 /\ writer = 0 /\ remover = 0
          /\ alive = 0 /\ sent = 0 /\ tscope = 0
  /\ IF part = "events" THEN E!EvInit
     ELSE ev = 0 /\ dwork = 0 /\ proc = 0 /\ dev = 0 /\ got = 0 /\ evscope = 0
  /\ IF part = "bsg" THEN G!BsgInit
     ELSE bcd = 0 /\ queue = 0 /\ bd = 0 /\ cmd = 0 /\ file = 0 /\ waking = 0 /\ bsgscope = 0

BlockNext ==
  \/ /\ part = "complete" /\ Next
     /\ UNCHANGED <<rqVars, schedVars, throtlVars, evVars, bsgVars, part>>
  \/ /\ part = "request" /\ A!RqNext
     /\ UNCHANGED <<vars, schedVars, throtlVars, evVars, bsgVars, part>>
  \/ /\ part = "sched" /\ S!SchedNext
     /\ UNCHANGED <<vars, rqVars, throtlVars, evVars, bsgVars, part>>
  \/ /\ part = "throttle" /\ T!ThrotlNext
     /\ UNCHANGED <<vars, rqVars, schedVars, evVars, bsgVars, part>>
  \/ /\ part = "events" /\ E!EvNext
     /\ UNCHANGED <<vars, rqVars, schedVars, throtlVars, bsgVars, part>>
  \/ /\ part = "bsg" /\ G!BsgNext
     /\ UNCHANGED <<vars, rqVars, schedVars, throtlVars, evVars, part>>

BlockSpec ==
  BlockInit /\ [][BlockNext]_<<vars, rqVars, schedVars, throtlVars, evVars, bsgVars, part>>

-----------------------------------------------------------------------------

\* The counts of requests are exact and private data is the attached
\* elevator's, whose switch waited for it (BlkRequest.RequestAccounting).
RequestAccounting == part = "request" => A!RequestAccounting

\* full and congested marks follow the counts (BlkRequest.QueueMarks).
QueueMarks == part = "request" => A!QueueMarks

\* A task waiting for a request has somebody to wake it (BlkRequest.SleeperHasWaker).
SleeperHasWaker == part = "request" => A!SleeperHasWaker

\* Merging loses and duplicates no bio (BlkSched.MergeKeepsBios).
MergeKeepsBios == part = "sched" => S!MergeKeepsBios



\* The failfast attribute of a mixed request is its first bio's
\* (BlkSched.MixedFollowsFirst).
MixedFollowsFirst == part = "sched" => S!MixedFollowsFirst

\* A throttled group keeps to its limits (BlkThrottle.RateHolds).
RateHolds == part = "throttle" => T!RateHolds

\* A bio that is held back has work to come for it (BlkThrottle.ThrottledWork).
ThrottledWork == part = "throttle" => T!ThrottledWork


\* No check of a disk's events runs while they are blocked, and polling goes on
\* when they are not (DiskEvents.EventsBlocked).
EventsBlocked == part = "events" => E!EventsBlocked

\* disk_clear_events misses no event of its mask (DiskEvents.ClearSeesEvents).
ClearSeesEvents == part = "events" => E!ClearSeesEvents

\* A bsg device outlives its files and commands (Bsg.BsgLifetime).
BsgLifetime == part = "bsg" => G!BsgLifetime
=============================================================================
