------------------------------ MODULE BlkFlush ------------------------------
(***************************************************************************)
(* The sequencing of FLUSH and FUA writes of block/blk-flush.c, with what  *)
(* it stands between: submission through the plug list, the dispatch queue *)
(* and the elevator behind it, a driver, and a disk with a volatile cache. *)
(* Every action is one critical section of queue_lock.                     *)
(***************************************************************************)
EXTENDS Naturals, FiniteSets, Sequences, SequencesExt

CONSTANTS Reqs,        \* write requests, one bio each
          Kind,        \* per request: does it carry FLUSH, FUA, data?
          FlagSets,    \* the values blk_queue_flush gives flush_flags
          Queueable,   \* queue_flush_queueable
          FlushRq      \* q->flush_rq

ASSUME FlushAssumption ==
  /\ FlushRq \notin Reqs /\ Queueable \in BOOLEAN
  /\ Kind \in [Reqs -> [flush : BOOLEAN, fua : BOOLEAN, data : BOOLEAN]]
  /\ \A r \in Reqs : ~Kind[r].data => Kind[r].flush /\ ~Kind[r].fua
  /\ FlagSets \subseteq {{}, {"FLUSH"}, {"FLUSH", "FUA"}}

Actions == <<"PREFLUSH", "DATA", "POSTFLUSH">>   \* REQ_FSEQ_ACTIONS, in order

VARIABLES
  q,         \* the request queue, see below
  plugged,   \* requests allocated and not inserted: on a plug list
  elevator,  \* requests the elevator holds
  flags,     \* per request: REQ_FLUSH and REQ_FUA of cmd_flags
  driver,    \* what the driver has fetched and not completed
  run,       \* the queue is "idle", due to be run now ("kicked") or after a
             \* delay ("delayed"), or "running"
  disk       \* the device, see below

vars == <<q, plugged, elevator, flags, driver, run, disk>>

(***************************************************************************)
(* q.fflags   flush_flags               q.head   queue_head                *)
(* q.pending  flush_queue, indexed by q.pidx (flush_pending_idx) and       *)
(*            q.ridx (flush_running_idx)                                   *)
(* q.data     flush_data_in_flight      q.held   flush_queue_delayed       *)
(* q.seq      per request: flush.seq    q.seqd   requests in a sequence    *)
(*                                               (REQ_FLUSH_SEQ)           *)
(* q.ended    per request: "new", "live", or how it ended                    *)
(* q.stopped  QUEUE_FLAG_STOPPED                                           *)
(* q.queued   set while the dispatch queue was added to in this section    *)
(* q.aborted  history: elv_abort_queue was called                          *)
(*                                                                         *)
(* disk.cache, disk.media  requests whose data is there                    *)
(* disk.covers  what the flush being executed will write to the media      *)
(* disk.before  history: per request, the writes that had ended when it    *)
(*              was submitted                                              *)
(***************************************************************************)

-----------------------------------------------------------------------------
(* The flush machinery *)

\* mutant: the sequence of a write-through queue that lacks FUA
blk_flush_policy_nopost(fflags, r) ==
  IF "FLUSH" \notin fflags THEN {}
  ELSE (IF "FLUSH" \in flags[r] THEN {"PREFLUSH"} ELSE {})
       \cup (IF Kind[r].data THEN {"DATA"} ELSE {})

\* mutant: a flush with data is only a flush
blk_flush_policy_nodata(fflags, r) ==
  IF "FLUSH" \notin fflags THEN {}
  ELSE IF "FLUSH" \in flags[r] THEN {"PREFLUSH"}
  ELSE {"DATA"} \cup (IF "FUA" \notin fflags /\ "FUA" \in flags[r] THEN {"POSTFLUSH"} ELSE {})

blk_flush_policy(fflags, r) ==
  IF "FLUSH" \notin fflags THEN {}
  ELSE (IF "FLUSH" \in flags[r] THEN {"PREFLUSH"} ELSE {})
       \cup (IF Kind[r].data THEN {"DATA"} ELSE {})
       \cup (IF "FUA" \notin fflags /\ "FUA" \in flags[r] THEN {"POSTFLUSH"} ELSE {})

\* the first step of the sequence that is not done
blk_flush_cur_seq(s, r) ==
  LET left == SelectSeq(Actions, LAMBDA a : a \notin s.seq[r])
  IN  IF left = <<>> THEN "DONE" ELSE left[1]

\* mutant: C1 forgotten
blk_kick_flush_noC1(s, expired) ==
  IF s.pending[s.pidx] = <<>> \/ (s.data # <<>> /\ ~expired) THEN s
  ELSE [s EXCEPT !.head = Append(@, FlushRq), !.pidx = 1 - @, !.queued = TRUE]

\* C1, C2 and C3: expired says FLUSH_PENDING_TIMEOUT has passed
blk_kick_flush(s, expired) ==
  IF \/ s.pidx # s.ridx \/ s.pending[s.pidx] = <<>>
     \/ s.data # <<>> /\ ~expired
  THEN s
  ELSE [s EXCEPT !.head = Append(@, FlushRq), !.pidx = 1 - @, !.queued = TRUE]

\* r leaves the list its flush.list is on
Detach(s, r) == [s EXCEPT !.pending = [i \in 0..1 |-> Remove(@[i], r)], !.data = Remove(@, r)]

Ended(s, r, error) == [s EXCEPT !.ended[r] = IF error THEN "error" ELSE "ok"]

blk_flush_complete_seq(s, r, steps, error, expired) ==
  LET s1 == [s EXCEPT !.seq[r] = @ \cup steps]
      next == IF error THEN "DONE" ELSE blk_flush_cur_seq(s1, r)
      s2 == Detach(s1, r)
      s3 == CASE next \in {"PREFLUSH", "POSTFLUSH"} ->
                   [s2 EXCEPT !.pending[s.pidx] = Append(@, r)]
              [] next = "DATA" ->
                   [s2 EXCEPT !.data = Append(@, r), !.head = <<r>> \o @, !.queued = TRUE]
              [] next = "DONE" -> Ended([s2 EXCEPT !.seqd = @ \ {r}], r, error)
  IN  blk_kick_flush(s3, expired)

\* mutant: only the first request waiting for the flush goes on
WaitersFirst(s) == IF s.pending[s.ridx] = <<>> THEN <<>> ELSE <<Head(s.pending[s.ridx])>>

\* the list flush_end_io walks
Waiters(s) == s.pending[s.ridx]

\* flush_end_io, up to the kick
flush_end_io(s, error, expired) ==
  FoldLeft(LAMBDA t, r : blk_flush_complete_seq(t, r, {blk_flush_cur_seq(t, r)}, error, expired),
           [s EXCEPT !.ridx = 1 - @], Waiters(s))

-----------------------------------------------------------------------------
(* Running the queue *)

\* __blk_run_queue and blk_run_queue_async do nothing on a stopped queue, and
\* the latter replaces a delayed run
Kicked(cond) == IF cond /\ ~q.stopped /\ run \in {"idle", "delayed"} THEN "kicked" ELSE run

\* mutant: the held queue is not restarted
EndOfFlushNoRestart(s) ==
  /\ q' = [s EXCEPT !.queued = FALSE, !.held = FALSE]
  /\ run' = Kicked(s.queued)

\* flush_end_io runs the queue if it added to it or had held it
EndOfFlush(s) ==
  /\ q' = [s EXCEPT !.queued = FALSE, !.held = FALSE]
  /\ run' = Kicked(s.queued \/ s.held)

\* flush_data_end_io, and a request that ends for good
EndOfData(s) == q' = [s EXCEPT !.queued = FALSE] /\ run' = Kicked(s.queued)

\* the caller of an insertion runs the queue itself
CallerRuns(s) == q' = [s EXCEPT !.queued = FALSE] /\ run' = Kicked(TRUE)

\* blk_delay_work: kblockd calls request_fn, unless the queue was stopped since
RequestFn ==
  /\ run \in {"kicked", "delayed"} /\ run' = IF q.stopped THEN "idle" ELSE "running"
  /\ UNCHANGED <<q, plugged, elevator, flags, driver, disk>>

\* blk_fetch_request, the dispatch queue not empty.  The disk starts a flush
\* with what its cache holds now.
Fetch ==
  /\ run = "running" /\ q.head # <<>>
  /\ q' = [q EXCEPT !.head = Tail(@)]
  /\ driver' = driver \cup {Head(q.head)}
  /\ disk' = IF Head(q.head) = FlushRq THEN [disk EXCEPT !.covers = @ \cup disk.cache] ELSE disk
  /\ UNCHANGED <<plugged, elevator, flags, run>>

\* blk_peek_request, BLKPREP_DEFER: the request stays in front, and the driver
\* has the queue run later
FetchDefer ==
  /\ run = "running" /\ q.head # <<>> /\ run' = "delayed"
  /\ UNCHANGED <<q, plugged, elevator, flags, driver, disk>>

\* blk_stop_queue takes back a delayed run, not one that kblockd already has;
\* a running request_fn may return on it or go on
StopQueue ==
  /\ ~q.stopped /\ q' = [q EXCEPT !.stopped = TRUE]
  /\ run' \in CASE run = "running" -> {"running", "idle"}
                [] run = "delayed" -> {"idle"}
                [] OTHER -> {run}
  /\ UNCHANGED <<plugged, elevator, flags, driver, disk>>

\* blk_start_queue
StartQueue ==
  /\ q.stopped /\ q' = [q EXCEPT !.stopped = FALSE]
  /\ run' = IF run = "running" THEN run ELSE "kicked"
  /\ UNCHANGED <<plugged, elevator, flags, driver, disk>>

Held == q.pidx # q.ridx /\ ~Queueable

\* the dispatch queue is empty: hold it for the flush, ask the elevator, or stop
FetchHeld ==
  /\ run = "running" /\ q.head = <<>> /\ Held
  /\ q' = [q EXCEPT !.held = TRUE] /\ run' = "idle"
  /\ UNCHANGED <<plugged, elevator, flags, driver, disk>>

FetchElevator(r) ==
  /\ run = "running" /\ q.head = <<>> /\ ~Held /\ r \in elevator
  /\ elevator' = elevator \ {r} /\ q' = [q EXCEPT !.head = <<r>>]
  /\ UNCHANGED <<plugged, flags, driver, run, disk>>

FetchNone ==
  /\ run = "running" /\ q.head = <<>> /\ ~Held /\ elevator = {}
  /\ run' = "idle"
  /\ UNCHANGED <<q, plugged, elevator, flags, driver, disk>>

-----------------------------------------------------------------------------
(* Submission *)

\* __generic_make_request: the flags are dropped if the queue has none, and
\* an empty bio then ends at once; __make_request allocates the request and
\* puts it on the plug list
Submit(r) ==
  /\ q.ended[r] = "new"
  /\ LET kept == (IF Kind[r].flush THEN {"FLUSH"} ELSE {}) \cup (IF Kind[r].fua THEN {"FUA"} ELSE {})
         bits == IF q.fflags = {} THEN {} ELSE kept
     IN  /\ flags' = [flags EXCEPT ![r] = bits]
         /\ IF bits = {} /\ ~Kind[r].data
            THEN q' = Ended(q, r, FALSE) /\ UNCHANGED plugged
            ELSE plugged' = plugged \cup {r} /\ q' = [q EXCEPT !.ended[r] = "live"]
  /\ disk' = [disk EXCEPT !.before[r] = {w \in Reqs : Kind[w].data /\ q.ended[w] = "ok"}]
  /\ UNCHANGED <<elevator, driver, run>>

\* blk_flush_plug_list, __elv_add_request: an ordinary write the elevator takes
InsertSort(r) ==
  /\ r \in plugged /\ flags[r] = {}
  /\ plugged' = plugged \ {r} /\ elevator' = elevator \cup {r}
  /\ CallerRuns(q)
  /\ UNCHANGED <<flags, driver, disk>>

\* one that was allocated while the elevator is being switched, without
\* REQ_ELVPRIV: what the elevator holds goes first, in the order it chooses
InsertBack(r) ==
  /\ r \in plugged /\ flags[r] = {}
  /\ plugged' = plugged \ {r} /\ elevator' = {}
  /\ \E s \in SetToSeqs(elevator) : CallerRuns([q EXCEPT !.head = @ \o Append(s, r)])
  /\ UNCHANGED <<flags, driver, disk>>

\* blk_insert_flush
InsertFlush(r, expired) ==
  /\ r \in plugged /\ flags[r] # {}
  /\ plugged' = plugged \ {r}
  /\ flags' = [flags EXCEPT ![r] = (@ \ {"FLUSH"}) \cap q.fflags]
  /\ LET policy == blk_flush_policy(q.fflags, r) IN
     CallerRuns(
       IF policy = {"DATA"} THEN [q EXCEPT !.head = Append(@, r)]
       ELSE blk_flush_complete_seq([q EXCEPT !.seqd = @ \cup {r}], r,
                                   Range(Actions) \ policy, FALSE, expired))
  /\ UNCHANGED <<elevator, driver, disk>>

\* blk_queue_flush, called by a driver whose disk changed its cache
SetFlags(f) ==
  /\ f # q.fflags /\ q' = [q EXCEPT !.fflags = f]
  /\ disk' = IF "FLUSH" \in f THEN disk ELSE [disk EXCEPT !.media = @ \cup disk.cache, !.cache = {}]
  /\ UNCHANGED <<plugged, elevator, flags, driver, run>>

-----------------------------------------------------------------------------
(* Completion by the driver *)

\* a write without FUA to a write-back disk is in its cache only
Written(r) ==
  IF "FLUSH" \in q.fflags /\ "FUA" \notin flags[r]
  THEN [disk EXCEPT !.cache = @ \cup {r}]
  ELSE [disk EXCEPT !.media = @ \cup {r}]

EndFlush(error, expired) ==
  /\ FlushRq \in driver /\ driver' = driver \ {FlushRq}
  /\ disk' = IF error THEN [disk EXCEPT !.covers = {}]
             ELSE [disk EXCEPT !.media = @ \cup disk.covers, !.cache = @ \ disk.covers,
                               !.covers = {}]
  /\ EndOfFlush(flush_end_io(q, error, expired))
  /\ UNCHANGED <<plugged, elevator, flags>>

\* blk_end_request of a write: flush_data_end_io inside a sequence, the
\* submitter's completion outside
EndWrite(r, error, expired) ==
  /\ r \in driver /\ driver' = driver \ {r}
  /\ disk' = IF error THEN disk ELSE Written(r)
  /\ EndOfData(IF r \in q.seqd
               THEN blk_flush_complete_seq(q, r, {"DATA"}, error, expired)
               ELSE Ended(q, r, error))
  /\ UNCHANGED <<plugged, elevator, flags>>

\* blk_requeue_request; the driver has the queue run again
Requeue(x) ==
  /\ x \in driver /\ driver' = driver \ {x}
  /\ q' = [q EXCEPT !.head = <<x>> \o @]
  /\ run' = Kicked(TRUE)
  /\ disk' = IF x = FlushRq THEN [disk EXCEPT !.covers = {}] ELSE disk
  /\ UNCHANGED <<plugged, elevator, flags>>

\* blk_abort_flushes: no sequences any more, the waiting requests join the
\* dispatch queue
blk_abort_flushes(s) ==
  [s EXCEPT !.data = <<>>, !.pending = [i \in 0..1 |-> <<>>], !.seqd = {},
            !.head = @ \o s.pending[0] \o s.pending[1]]

\* elv_abort_queue: everything on the dispatch queue ends in error
AbortQueue ==
  /\ ~q.aborted
  /\ LET s == blk_abort_flushes([q EXCEPT !.aborted = TRUE])
         gone == Range(s.head)
         s1 == [s EXCEPT !.head = <<>>,
                         !.ended = [r \in Reqs |-> IF r \in gone THEN "error" ELSE @[r]]]
     IN  IF FlushRq \in gone THEN EndOfFlush(flush_end_io(s1, TRUE, FALSE)) ELSE EndOfData(s1)
  /\ UNCHANGED <<plugged, elevator, flags, driver, disk>>

-----------------------------------------------------------------------------
Init ==
  /\ \E f \in FlagSets :
       q = [fflags |-> f, head |-> <<>>, pending |-> [i \in 0..1 |-> <<>>], pidx |-> 0, ridx |-> 0,
            data |-> <<>>, held |-> FALSE, seq |-> [r \in Reqs |-> {}], seqd |-> {},
            ended |-> [r \in Reqs |-> "new"], queued |-> FALSE, stopped |-> FALSE,
            aborted |-> FALSE]
  /\ plugged = {} /\ elevator = {} /\ driver = {} /\ run = "idle"
  /\ flags = [r \in Reqs |-> {}]
  /\ disk = [cache |-> {}, media |-> {}, covers |-> {}, before |-> [r \in Reqs |-> {}]]

Next ==
  \/ RequestFn \/ Fetch \/ FetchDefer \/ FetchHeld \/ FetchNone
  \/ StopQueue \/ StartQueue \/ AbortQueue
  \/ \E f \in FlagSets : SetFlags(f)
  \/ \E x \in Reqs \cup {FlushRq} : Requeue(x)
  \/ \E r \in Reqs : Submit(r) \/ InsertSort(r) \/ InsertBack(r) \/ FetchElevator(r)
  \/ \E expired \in BOOLEAN :
       \/ \E r \in Reqs : InsertFlush(r, expired)
       \/ \E error \in BOOLEAN : EndFlush(error, expired)
       \/ \E error \in BOOLEAN, r \in Reqs : EndWrite(r, error, expired)

Spec == Init /\ [][Next]_vars

-----------------------------------------------------------------------------
(* Properties *)

Places(r) == {x \in {"plug", "elevator", "head", "driver", "flush queue"} :
  CASE x = "plug" -> r \in plugged           [] x = "elevator" -> r \in elevator
    [] x = "head" -> Contains(q.head, r)     [] x = "driver" -> r \in driver
    [] x = "flush queue" -> \E i \in 0..1 : Contains(q.pending[i], r)}

\* A request that was submitted and has not ended is in exactly one place, an
\* ended one in none; flush_data_in_flight holds the sequenced requests that
\* are out for their data.  The BUG_ONs of blk_flush_complete_seq and
\* blk_finish_request rest on this, and those of flush_end_io on C1: the
\* indices differ exactly while the one flush request is queued or executed,
\* and who waits for it waits for a flush.
OnePlace ==
  /\ IsInjective(q.head) /\ IsInjective(q.pending[0] \o q.pending[1]) /\ IsInjective(q.data)
  /\ \A r \in Reqs : Cardinality(Places(r)) =
       IF q.ended[r] = "live" THEN 1 ELSE 0
  /\ \A r \in Reqs : Contains(q.data, r) <=>
       r \in q.seqd /\ Places(r) \subseteq {"head", "driver"} /\ blk_flush_cur_seq(q, r) = "DATA"
  /\ q.pidx # q.ridx <=> (Contains(q.head, FlushRq) \/ FlushRq \in driver)
  /\ Contains(q.head, FlushRq) => FlushRq \notin driver
  /\ \A i \in 0..1 : \A r \in Range(q.pending[i]) :
       blk_flush_cur_seq(q, r) \in {"PREFLUSH", "POSTFLUSH"}

\* Nobody waits for a flush that no event will start: either a flush is
\* running, whose end serves its own queue and kicks the other, or the waiter
\* is on the pending queue and the end of data in flight will kick it.
WaitersKicked ==
  ~q.aborted => \A i \in 0..1 : q.pending[i] # <<>> =>
    q.pidx # q.ridx \/ (i = q.pidx /\ q.data # <<>>)

\* The queue never stalls: with no run due, the driver has stopped it and
\* blk_start_queue will run it, or only requests held behind a running flush
\* are left, and the end of that flush will run the queue.
NoStall ==
  run = "idle" /\ ~q.stopped => q.head = <<>> /\ (elevator # {} => q.held /\ FlushRq \in driver)

\* What FLUSH and FUA promise: when the bio ends without error, every write
\* that had ended before it was submitted is on the media (FLUSH), and so is
\* its own data (FUA).  (elv_abort_queue turns a sequenced write that is out
\* for its data into an ordinary one, so nothing is said of an aborted queue.)
Durable ==
  ~q.aborted => \A r \in Reqs : q.ended[r] = "ok" =>
    /\ Kind[r].flush => disk.before[r] \subseteq disk.media
    /\ Kind[r].fua => r \in disk.media

\* "If the device doesn't have writeback cache, FLUSH and FUA don't make any
\* difference.  The requests are either completed immediately if there's no
\* data or executed as normal requests otherwise" (block/blk-flush.c): a write
\* that ends without error was written, by a disk with a cache as by one
\* without.  Kept by a queue whose flush_flags stay, or change between the
\* two kinds of cache.
DataWritten ==
  \A r \in Reqs : q.ended[r] = "ok" /\ Kind[r].data => r \in disk.cache \cup disk.media

=============================================================================
