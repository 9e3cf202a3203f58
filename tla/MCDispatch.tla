----------------------------- MODULE MCDispatch -----------------------------
(***************************************************************************)
(* What stands between an inserted request and the driver: small instances *)
(* of the flush machinery (BlkFlush), of CFQ's dispatching (CfqSched) and  *)
(* of the references CFQ counts (CfqRefs).  They share no state, so a      *)
(* behaviour runs one of them; `part' says which, and the variables of the *)
(* other CFQ instance are unused.                                          *)
(***************************************************************************)
EXTENDS BlkFlush, TLC

CONSTANTS wr, fu, ff, fl,                 \* requests
          c1, c2, c3, g1, g2,             \* cfq_queues and groups
          t1, t2, t3, i1, i2, i3,         \* tasks and io contexts
          CfqQueues, NoQ, RefTasks, Iocs, RefQueues, NoQueue, Oom, RootGroup,
          RefGroups, OomRefs,
          Parts                           \* the components this configuration runs

VARIABLES cfqd, drv, cfqrun, full, cfqscope, k, rq, rtask, rmcg, refscope, part

-----------------------------------------------------------------------------
(* An ordinary write, a FUA write, a write with FLUSH and FUA, and an      *)
(* empty flush.  All four go to a disk that stays as it is ("flush"), all  *)
(* but the FUA write to one whose driver calls blk_queue_flush again while *)
(* they are under way, with a cache throughout ("flags") or not            *)
(* ("cacheoff").  In "stop" the driver stops, restarts and defers the      *)
(* queue, with the ordinary write, the FLUSH and FUA write and the empty   *)
(* flush.                                                                  *)

K(flush, fua, data) == [flush |-> flush, fua |-> fua, data |-> data]

MCKind == wr :> K(FALSE, FALSE, TRUE) @@ fu :> K(FALSE, TRUE, TRUE)
          @@ ff :> K(TRUE, TRUE, TRUE) @@ fl :> K(TRUE, FALSE, FALSE)
MCReqs == {wr, fu, ff, fl}

AnyCache == {{}, {"FLUSH"}, {"FLUSH", "FUA"}}

-----------------------------------------------------------------------------
(* CFQ: the queues with the synchronous ones, their classes, groups and    *)
(* outstanding requests; the tags of the driver, cfq_quantum and the       *)
(* rounds of an asynchronous queue; which idling is on; and what happens:  *)
(* aliases, class changes, drains and requeues.                            *)

Each(x) == [c \in CfqQueues |-> x]
Of(x, y, z) == (c1 :> x) @@ (c2 :> y) @@ (c3 :> z)

CfqScope(qs, sync, class, group, depth, tags, quantum, maxrq) ==
  [queues |-> qs, sync |-> sync, class |-> class, group |-> group, depth |-> depth,
   tags |-> tags, quantum |-> quantum, maxrq |-> maxrq,
   slice_idle |-> TRUE, group_idle |-> TRUE, ssd |-> FALSE,
   alias |-> FALSE, classes |-> {}, drain |-> FALSE, requeue |-> FALSE]

MCCfqScopes ==
  {[CfqScope({c1, c2}, {c1, c2}, Each("be"), Each(g1), Of(2, 1, 1), 1, 4, 1)
      EXCEPT !.requeue = TRUE],
   [CfqScope({c1, c2}, {c1, c2}, Each("be"), Each(g1), Each(1), 1, 4, 2)
      EXCEPT !.alias = TRUE, !.drain = TRUE],
   CfqScope({c1, c2, c3}, {c1}, Each("be"), Of(g1, g1, g2), Each(1), 1, 2, 1),
   [CfqScope({c1, c2}, {c1}, Of("be", "rt", "be"), Each(g1), Each(1), 1, 2, 1)
      EXCEPT !.classes = {"idle"}],
   [CfqScope({c1, c2}, {c1, c2}, Each("be"), Each(g1), Of(2, 1, 1), 1, 2, 1)
      EXCEPT !.slice_idle = FALSE],
   [CfqScope({c1, c2}, {c1}, Each("be"), Each(g1), Each(2), 2, 2, 1)
      EXCEPT !.group_idle = FALSE, !.ssd = TRUE]}

C == INSTANCE CfqSched WITH run <- cfqrun, CfqScopes <- MCCfqScopes

-----------------------------------------------------------------------------
(* CFQ's references: the tasks and their io contexts, the requests and the *)
(* setups at a time, what is requested, who exits, and what else happens.  *)

Own == (t1 :> i1) @@ (t2 :> i2) @@ (t3 :> i3)
Shared == (t1 :> i1) @@ (t2 :> i1) @@ (t3 :> i3)

RefScope(ts, ioc, setups, syncs, exits, exact) ==
  [tasks |-> ts, ioc |-> ioc, rqs |-> 2, setups |-> setups, syncs |-> syncs,
   exits |-> exits, exact |-> exact, nomem |-> FALSE, restarts |-> TRUE,
   prios |-> {}, cgroups |-> {}, dispatch |-> FALSE, seeky |-> {FALSE}]

MCRefScopes ==
  {[RefScope({t1, t2, t3}, Own, 1, {TRUE}, {t1}, TRUE)
      EXCEPT !.dispatch = TRUE, !.restarts = FALSE],
   [RefScope({t1, t2}, Own, 1, {TRUE}, {}, TRUE)
      EXCEPT !.dispatch = TRUE, !.seeky = BOOLEAN, !.restarts = FALSE],
   RefScope({t1, t2}, Shared, 2, BOOLEAN, {t1, t2}, FALSE),
   [RefScope({t1, t2}, Own, 2, {TRUE}, {}, FALSE)
      EXCEPT !.cgroups = {RootGroup} \cup RefGroups],
   [RefScope({t1, t2}, Own, 1, {FALSE}, {t1}, TRUE) EXCEPT !.prios = {0, 1}],
   [RefScope({t1}, Own, 1, BOOLEAN, {t1}, FALSE)
      EXCEPT !.nomem = TRUE, !.dispatch = TRUE]}

R == INSTANCE CfqRefs WITH RefScopes <- MCRefScopes

-----------------------------------------------------------------------------

cfqVars == <<cfqd, drv, cfqrun, full, cfqscope>>
refVars == <<k, rq, rtask, rmcg, refscope>>

DispatchInit ==
  /\ part \in Parts
  /\ Init /\ (part \in {"flush", "cacheoff"} \/ q.fflags = {"FLUSH"})
  /\ IF part = "cfq" THEN C!CfqInit
     ELSE cfqd = 0 /\ drv = 0 /\ cfqrun = 0 /\ full = 0 /\ cfqscope = 0
  /\ IF part = "refs" THEN R!RefInit
     ELSE k = 0 /\ rq = 0 /\ rtask = 0 /\ rmcg = 0 /\ refscope = 0

DispatchNext ==
  \/ /\ part \in {"flush", "flags", "cacheoff", "stop"} /\ Next
     /\ part # "stop" => ~q'.stopped /\ run' # "delayed"
     /\ part # "flush" => q'.ended[fu] = "new"
     /\ part \in {"flush", "stop"} => q'.fflags = q.fflags
     /\ part = "flags" => q'.fflags # {}
     /\ UNCHANGED <<cfqVars, refVars, part>>
  \/ part = "cfq" /\ C!CfqNext /\ UNCHANGED <<vars, refVars, part>>
  \/ part = "refs" /\ R!RefNext /\ UNCHANGED <<vars, cfqVars, part>>

DispatchSpec == DispatchInit /\ [][DispatchNext]_<<vars, cfqVars, refVars, part>>

\* CFQ only ever serves a queue that has a request, and its counters agree with
\* its trees (CfqSched.NeverEmptySelected).
NeverEmptySelected == part = "cfq" => C!NeverEmptySelected

\* While CFQ holds requests, something will ask it again (CfqSched.CfqNoStall).
CfqNoStall == part = "cfq" => C!CfqNoStall

\* Every reference CFQ relies on is counted (CfqRefs.CfqRefsHeld).
CfqRefsHeld == part = "refs" => R!CfqRefsHeld
=============================================================================
