---------------------------- MODULE BlkComplete ----------------------------
(***************************************************************************)
(* The life of a tagged request between its driver's fetch and its end:    *)
(* block/blk-tag.c (a tag map shared by queues that have a lock each),     *)
(* block/blk-timeout.c (the request timer and what the driver answers it), *)
(* block/blk-softirq.c (completion from interrupts, REQ_ATOM_COMPLETE      *)
(* deciding between it and the timer) and the end or requeue of a request  *)
(* of block/blk-core.c.                                                    *)
(***************************************************************************)
EXTENDS Integers, FiniteSets

CONSTANTS Queues, Reqs,
          QueueOf,       \* the queue of each request
          Sync,          \* rq_is_sync
          RealMaxDepth,  \* bqt->real_max_depth
          NoReq

ASSUME CompleteAssumption ==
  /\ QueueOf \in [Reqs -> Queues] /\ Sync \subseteq Reqs
  /\ RealMaxDepth \in Nat \ {0} /\ NoReq \notin Reqs

Tags == 0..RealMaxDepth - 1

VARIABLES
  tag_map,    \* the set bits
  tag_index,  \* per tag: the request that owns it
  max_depth,  \* bqt->max_depth
  lock,       \* per queue: the request it is held for, or NoReq
  pos,        \* per request: where it is
  tag,        \* per request: rq->tag, -1 if it has none
  mytag,      \* per request: the local variable tag of start_tag and end_tag
  depth,      \* per request: the local variable max_depth of start_tag
  complete,   \* requests with REQ_ATOM_COMPLETE
  timed,      \* requests on a timeout_list
  reset,      \* requests whose timer is about to be started again
  done,       \* requests on a blk_cpu_done list
  hw          \* requests the hardware is working on

vars == <<tag_map, tag_index, max_depth, lock, pos, tag, mytag, depth, complete, timed, reset, done, hw>>

(***************************************************************************)
(* pos:  "idle"      free, or not yet inserted                             *)
(*       "queued"    on the dispatch queue                                 *)
(*       "find"      blk_queue_start_tag has found a zero bit              *)
(*       "bit"       it has set the bit                                    *)
(*       "driver"    started                                               *)
(*       "timedout"  rq_timed_out_fn is being called                       *)
(*       "eh"        BLK_EH_NOT_HANDLED: the driver recovers it            *)
(*       "softirq"   softirq_done_fn is being called                       *)
(*       "end", "requeue"  blk_queue_end_tag has emptied tag_index         *)
(* The queue's lock is held in "find", "bit", "timedout", "end", "requeue",*)
(* and for a request that is in reset: blk_rq_timed_out has cleared its    *)
(* REQ_ATOM_COMPLETE and not yet called blk_add_timer.                     *)
(***************************************************************************)

Free(r) == lock[QueueOf[r]] = NoReq
Acquire(r) == Free(r) /\ lock' = [lock EXCEPT ![QueueOf[r]] = r]
Release(r) == lock' = [lock EXCEPT ![QueueOf[r]] = NoReq]
Move(r, p) == pos' = [pos EXCEPT ![r] = p]

tagVars == <<tag_map, tag_index, max_depth>>

-----------------------------------------------------------------------------
(* Allocation and start *)

\* blk_rq_init and an insertion
Insert(r) ==
  /\ pos[r] = "idle" /\ Move(r, "queued")
  /\ complete' = complete \ {r}
  /\ UNCHANGED <<tagVars, lock, tag, mytag, depth, timed, reset, done, hw>>

InFlightAsync(r) ==
  Cardinality({s \in Reqs \ Sync : QueueOf[s] = QueueOf[r] /\ pos[s] \notin {"idle", "queued", "find", "bit"}})

\* the part of the map blk_queue_start_tag searches for r
DepthFor(r) ==
  IF r \in Sync \/ max_depth = 1 THEN max_depth
  ELSE IF max_depth = 2 THEN 1 ELSE max_depth - 2

\* find_first_zero_bit
FirstZero(t, d) == t < d /\ t \notin tag_map /\ \A u \in Tags : u < t => u \in tag_map

Find(r, d) == \E t \in 0..RealMaxDepth : FirstZero(t, d) /\ mytag' = [mytag EXCEPT ![r] = t]

\* blk_queue_start_tag: a full map, or too many requests in flight, and
\* nothing happens
StartFind(r) ==
  /\ pos[r] = "queued" /\ Acquire(r)
  /\ r \notin Sync /\ max_depth > 1 => InFlightAsync(r) <= DepthFor(r)
  /\ depth' = [depth EXCEPT ![r] = DepthFor(r)] /\ Find(r, DepthFor(r))
  /\ Move(r, "find")
  /\ UNCHANGED <<tagVars, tag, complete, timed, reset, done, hw>>

\* mutant: the bit is set without looking at what it was
TestAndSetBlind(r) == TRUE

\* the bit was still zero
TestAndSet(r) == mytag[r] \notin tag_map

\* test_and_set_bit_lock
StartBit(r) ==
  /\ pos[r] = "find" /\ TestAndSet(r)
  /\ tag_map' = tag_map \cup {mytag[r]} /\ Move(r, "bit")
  /\ UNCHANGED <<tag_index, max_depth, lock, tag, mytag, depth, complete, timed, reset, done, hw>>

\* another queue was faster: search again, and give up if the map is full now
StartAgain(r) ==
  /\ pos[r] = "find" /\ ~TestAndSet(r)
  /\ \/ Find(r, depth[r]) /\ UNCHANGED <<pos, lock>>
     \/ /\ \A t \in Tags : ~FirstZero(t, depth[r])
        /\ Move(r, "queued") /\ Release(r) /\ UNCHANGED mytag
  /\ UNCHANGED <<tagVars, tag, depth, complete, timed, reset, done, hw>>

\* tag_index, and blk_start_request, which adds the timer
StartRequest(r) ==
  /\ pos[r] = "bit" /\ Move(r, "driver") /\ Release(r)
  /\ tag' = [tag EXCEPT ![r] = mytag[r]]
  /\ tag_index' = [tag_index EXCEPT ![mytag[r]] = r]
  /\ timed' = timed \cup {r} /\ hw' = hw \cup {r}
  /\ UNCHANGED <<tag_map, max_depth, mytag, depth, complete, reset, done>>

-----------------------------------------------------------------------------
(* Completion and timeout *)

\* mutant: the interrupt does not look at REQ_ATOM_COMPLETE
MarkBlind(r) == TRUE

\* blk_mark_rq_complete by the interrupt finds the bit clear
Mark(r) == r \notin complete

\* the hardware is done: blk_complete_request, without the queue's lock.  If
\* the timer has the request the completion is dropped.
HwDone(r) ==
  /\ r \in hw /\ hw' = hw \ {r}
  /\ \/ Mark(r) /\ complete' = complete \cup {r} /\ done' = done \cup {r}
     \/ ~Mark(r) /\ UNCHANGED <<complete, done>>
  /\ UNCHANGED <<tagVars, lock, pos, tag, mytag, depth, timed, reset>>

\* the hardware loses it
HwHang(r) ==
  /\ r \in hw /\ hw' = hw \ {r}
  /\ UNCHANGED <<tagVars, lock, pos, tag, mytag, depth, complete, timed, reset, done>>

\* blk_done_softirq
Softirq(r) ==
  /\ r \in done /\ done' = done \ {r} /\ Move(r, "softirq")
  /\ UNCHANGED <<tagVars, lock, tag, mytag, depth, complete, timed, reset, hw>>

\* blk_rq_timed_out_timer for one expired request: it raced with the end of
\* the request
TimerLate(r) ==
  /\ Free(r) /\ r \in timed /\ r \in complete
  /\ timed' = timed \ {r}
  /\ UNCHANGED <<tagVars, lock, pos, tag, mytag, depth, complete, reset, done, hw>>

\* or it did not; blk_abort_request does the same
TimerTake(r) ==
  /\ Acquire(r) /\ r \in timed /\ r \notin complete
  /\ timed' = timed \ {r} /\ complete' = complete \cup {r}
  /\ Move(r, "timedout")
  /\ UNCHANGED <<tagVars, tag, mytag, depth, reset, done, hw>>

\* BLK_EH_HANDLED: the driver has stopped the hardware; __blk_complete_request
TimedOutHandled(r) ==
  /\ pos[r] = "timedout" /\ Move(r, "driver") /\ Release(r)
  /\ done' = done \cup {r} /\ hw' = hw \ {r}
  /\ UNCHANGED <<tagVars, tag, mytag, depth, complete, timed, reset>>

\* mutant: the timer is not started again
ResetNoTimer(r) == timed' = timed

ResetTimer(r) == timed' = timed \cup {r}

\* BLK_EH_RESET_TIMER: blk_clear_rq_complete.  The lock is still held, which
\* does not keep the interrupt away.
TimedOutReset(r) ==
  /\ pos[r] = "timedout" /\ Move(r, "driver")
  /\ complete' = complete \ {r} /\ reset' = reset \cup {r}
  /\ UNCHANGED <<tagVars, lock, tag, mytag, depth, timed, done, hw>>

\* then blk_add_timer.  Where its BUG_ON finds the bit set again it does not
\* return: no step follows, and the lock stays taken.
AddTimer(r) ==
  /\ r \in reset /\ r \notin complete
  /\ reset' = reset \ {r} /\ ResetTimer(r) /\ Release(r)
  /\ UNCHANGED <<tagVars, pos, tag, mytag, depth, complete, done, hw>>

\* BLK_EH_NOT_HANDLED
TimedOutNotHandled(r) ==
  /\ pos[r] = "timedout" /\ Move(r, "eh") /\ Release(r)
  /\ UNCHANGED <<tagVars, tag, mytag, depth, complete, timed, reset, done, hw>>

-----------------------------------------------------------------------------
(* The end *)

\* The driver ends the request or gives it back, from softirq_done_fn or from
\* its error handler, which has stopped the hardware.  blk_finish_request and
\* blk_requeue_request begin with blk_queue_end_tag; the latter has deleted
\* the timer and cleared REQ_ATOM_COMPLETE before.
EndTag(r, p) ==
  /\ Acquire(r) /\ Move(r, p)
  /\ tag' = [tag EXCEPT ![r] = -1] /\ mytag' = [mytag EXCEPT ![r] = tag[r]]
  /\ tag_index' = [tag_index EXCEPT ![tag[r]] = NoReq]
  /\ hw' = hw \ {r}
  /\ UNCHANGED <<tag_map, max_depth, depth, reset, done>>

EndIndex(r) ==
  /\ pos[r] \in {"softirq", "eh"} /\ EndTag(r, "end")
  /\ UNCHANGED <<complete, timed>>

\* A driver also gives back a request it has started and cannot or may no
\* longer execute (blk_queue_invalidate_tags does so for every busy tag): it
\* has taken it from the hardware, and no completion of it is under way.
RequeueIndex(r) ==
  /\ pos[r] \in {"softirq", "eh"} \/ (pos[r] = "driver" /\ r \notin complete)
  /\ EndTag(r, "requeue")
  /\ complete' = complete \ {r} /\ timed' = timed \ {r}

\* clear_bit_unlock
ClearBit(r) == tag_map' = tag_map \ {mytag[r]}

\* then the rest of blk_finish_request (delete the timer, put the request) or
\* of blk_requeue_request (elv_requeue_request)
EndClear(r) ==
  /\ pos[r] = "end" /\ ClearBit(r) /\ Move(r, "idle") /\ Release(r)
  /\ timed' = timed \ {r}
  /\ UNCHANGED <<tag_index, max_depth, tag, mytag, depth, complete, reset, done, hw>>

RequeueClear(r) ==
  /\ pos[r] = "requeue" /\ ClearBit(r) /\ Move(r, "queued") /\ Release(r)
  /\ UNCHANGED <<tag_index, max_depth, tag, mytag, depth, complete, timed, reset, done, hw>>

\* blk_queue_resize_tags, under the lock of one of the queues; a shared map is
\* never enlarged beyond its memory
ResizeTags(d) ==
  /\ d > 0 /\ d <= RealMaxDepth /\ \E q \in Queues : lock[q] = NoReq
  /\ max_depth' = d
  /\ UNCHANGED <<tag_map, tag_index, lock, pos, tag, mytag, depth, complete, timed, reset, done, hw>>

-----------------------------------------------------------------------------
Init ==
  /\ tag_map = {} /\ tag_index = [t \in Tags |-> NoReq] /\ max_depth = RealMaxDepth
  /\ lock = [q \in Queues |-> NoReq]
  /\ pos = [r \in Reqs |-> "idle"] /\ tag = [r \in Reqs |-> -1] /\ mytag = [r \in Reqs |-> -1]
  /\ depth = [r \in Reqs |-> 0]
  /\ complete = {} /\ timed = {} /\ reset = {} /\ done = {} /\ hw = {}

Step(r) ==
  \/ Insert(r) \/ StartFind(r) \/ StartBit(r) \/ StartAgain(r) \/ StartRequest(r)
  \/ HwDone(r) \/ HwHang(r) \/ Softirq(r) \/ TimerLate(r) \/ TimerTake(r)
  \/ TimedOutHandled(r) \/ TimedOutReset(r) \/ AddTimer(r) \/ TimedOutNotHandled(r)
  \/ EndIndex(r) \/ RequeueIndex(r) \/ EndClear(r) \/ RequeueClear(r)

Next == (\E r \in Reqs : Step(r)) \/ (\E d \in 0..RealMaxDepth + 1 : ResizeTags(d))

Spec == Init /\ [][Next]_vars

-----------------------------------------------------------------------------
(* Properties *)

Locked == {"find", "bit", "timedout", "end", "requeue"}
Started == {"driver", "timedout", "eh", "softirq"}

\* Every variable has its type: in particular no tag beyond the map is ever
\* looked at or handed out, whatever depths blk_queue_resize_tags sets.
CompleteTypeOK ==
  /\ tag_map \subseteq Tags /\ tag_index \in [Tags -> Reqs \cup {NoReq}]
  /\ max_depth \in 1..RealMaxDepth
  /\ lock \in [Queues -> Reqs \cup {NoReq}]
  /\ pos \in [Reqs -> {"idle", "queued"} \cup Locked \cup Started]
  /\ tag \in [Reqs -> Tags \cup {-1}] /\ mytag \in [Reqs -> Tags \cup {-1}]
  /\ depth \in [Reqs -> 0..RealMaxDepth]
  /\ complete \subseteq Reqs /\ timed \subseteq Reqs /\ reset \subseteq Reqs
  /\ done \subseteq Reqs /\ hw \subseteq Reqs

\* a request that owns the bit of tag t, its own or the one it is taking or
\* giving back
Owns(r, t) ==
  \/ pos[r] \in Started /\ tag[r] = t
  \/ pos[r] \in {"bit", "end", "requeue"} /\ mytag[r] = t

\* The tag map is exact although the queues that share it are locked each by
\* its own lock: a started request has a tag that finds it (the driver's
\* blk_queue_find_tag), no tag has two owners, and every set bit has one, so
\* none is lost.
TagsExact ==
  /\ \A r \in Reqs : pos[r] \in Started => tag[r] \in Tags /\ tag_index[tag[r]] = r
  /\ \A r, s \in Reqs, t \in Tags : Owns(r, t) /\ Owns(s, t) => r = s
  /\ \A t \in Tags : t \in tag_map <=> \E r \in Reqs : Owns(r, t)

\* "EH timer and IO completion will both attempt to 'grab' the request, make
\* sure that only one of them succeeds": a request on a completion list is
\* there for one completion only, and nobody else ends, recovers or requeues
\* it, not even when the timer lets it go and the interrupt comes before
\* blk_add_timer; a request that is about to be started has the bit clear.
OneWinner ==
  \A r \in Reqs :
    /\ r \in done => pos[r] = "driver" /\ r \in complete
    /\ pos[r] \in {"timedout", "eh", "softirq", "end"} => r \in complete
    /\ pos[r] \in {"queued", "find", "bit", "requeue"} => r \notin complete
    /\ r \in hw => pos[r] \in Started
    /\ pos[r] = "driver" /\ r \in complete => r \in done

\* A request the hardware loses is noticed: until it is completed or timed
\* out it is on the timeout list, or blk_rq_timed_out is about to put it back
\* there, with the queue's lock held.  So dropping a completion that lost
\* against a timer which was then reset loses nothing.  blk_add_timer never
\* finds the request on the list already (its first BUG_ON).  (Where the
\* interrupt comes before blk_add_timer the request is complete; see
\* AddTimerClear.)
NeverLost ==
  /\ \A r \in Reqs : pos[r] = "driver" /\ r \notin complete => r \in timed \cup reset
  /\ \A r \in timed : pos[r] \in {"driver", "softirq", "end"} /\ r \notin reset
  /\ \A r \in reset : pos[r] \in {"driver", "softirq"} /\ lock[QueueOf[r]] = r

\* "BUG_ON(test_bit(REQ_ATOM_COMPLETE, &req->atomic_flags))": where
\* blk_add_timer is called, at the start of a request and after
\* BLK_EH_RESET_TIMER, the request is not complete.
AddTimerClear ==
  \A r \in Reqs : pos[r] = "bit" \/ r \in reset => r \notin complete
=============================================================================
