------------------------------ MODULE BlkSched ------------------------------
(***************************************************************************)
(* From bio to driver: merging of bios and requests (blk-core.c,           *)
(* blk-merge.c, elevator.c), the elevator core with its merge hash, its    *)
(* one-hit cache and the dispatch queue, and the deadline and noop         *)
(* schedulers.                                                             *)
(*                                                                         *)
(* The state is one record, so that a C function is an operator from       *)
(* states to states and a call is an application.  Bios are numbered in    *)
(* the order they are submitted, and a request has the number of the bio   *)
(* it was made for; 0 is the null pointer.  A bio is one segment and       *)
(* REQ_FAILFAST_MASK is one bit.  No segments are clustered.               *)
(***************************************************************************)
EXTENDS Integers, Sequences, FiniteSets, FiniteSetsExt, SequencesExt

CONSTANT SchedScopes
  \* sets of bounds: elv, the bios (number, positions, sizes, directions,
  \* failfast), tasks that submit, plugging, depth of the device, special
  \* requests, last jiffy, whether the driver only fetches and ends whole
  \* requests or also peeks, requeues and ends parts, the limits of the queue
  \* (max_sectors, max_segments), nomerges, the tunables of deadline

VARIABLES
  d,         \* the state of the queue, see SchedInit
  schedscope \* the bounds of this behaviour

schedVars == <<d, schedscope>>

RWs == {"read", "write"}
Bios == 1..schedscope.bios
Keys == 0..Max(schedscope.pos) + schedscope.bios * Max(schedscope.sizes)
NoBio == [st |-> "unused", pos |-> 0, size |-> 0, rw |-> "read", ff |-> FALSE]
NoRq == [at |-> "free", bios |-> <<>>, pos |-> 0, size |-> 0, rw |-> "read", ff |-> FALSE,
         mixed |-> FALSE, nomerge |-> FALSE, barrier |-> FALSE, started |-> FALSE,
         sorted |-> FALSE, time |-> 0]

SchedInit ==
  /\ schedscope \in SchedScopes
  /\ d = [bio |-> [b \in Bios |-> NoBio], rq |-> [r \in Bios |-> NoRq], n |-> 0, now |-> 0,
          plug |-> <<>>,                                  \* the list of a task that plugs
          last_merge |-> 0, hash |-> [k \in Keys |-> <<>>], nr_sorted |-> 0,
          head |-> <<>>, end_sector |-> 0, boundary |-> 0, \* the dispatch queue
          rb |-> [w \in RWs |-> <<>>], fifo |-> [w \in RWs |-> <<>>],
          next |-> [w \in RWs |-> 0], batching |-> 0, starved |-> 0,
          queue |-> <<>>,                                 \* noop_data
          passed |-> 0]   \* reads chosen since a write waits: of the properties only

End(s, r) == s.rq[r].pos + s.rq[r].size
rq_mergeable(s, r) ==
  ~s.rq[r].nomerge /\ ~s.rq[r].started /\ ~s.rq[r].barrier /\ s.rq[r].bios # <<>>

\* neighbours in a list or tree in order
After(seq, r) == LET i == CHOOSE i \in DOMAIN seq : seq[i] = r IN
                 IF i = Len(seq) THEN 0 ELSE seq[i + 1]
Before(seq, r) == LET i == CHOOSE i \in DOMAIN seq : seq[i] = r IN
                  IF i = 1 THEN 0 ELSE seq[i - 1]

-----------------------------------------------------------------------------
(* The merge hash, by the end of a request; a bucket is searched from the  *)
(* last entry that was added.                                              *)

elv_rqhash_del(s, r) == [s EXCEPT !.hash = [k \in Keys |-> Remove(@[k], r)]]
elv_rqhash_add(s, r) == [s EXCEPT !.hash[End(s, r)] = <<r>> \o @]
elv_rqhash_reposition(s, r) == elv_rqhash_add(elv_rqhash_del(s, r), r)
elv_rqhash_find(s, key) ==
  LET hit == {i \in DOMAIN s.hash[key] :
                rq_mergeable(s, s.hash[key][i]) /\ End(s, s.hash[key][i]) = key}
  IN IF hit = {} THEN 0 ELSE s.hash[key][Min(hit)]
\* the search unhashes the requests it passes that can no longer be merged
HashPruned(s, key, found) ==
  LET met(i) == found = 0 \/ \E j \in i..Len(s.hash[key]) : s.hash[key][j] = found
  IN [s EXCEPT !.hash[key] = SelectSeq(@, LAMBDA r : rq_mergeable(s, r)
        \/ ~met(CHOOSE i \in DOMAIN s.hash[key] : s.hash[key][i] = r))]

LeavesScheduler(s, r) ==
  [elv_rqhash_del(s, r) EXCEPT !.last_merge = IF @ = r THEN 0 ELSE @, !.nr_sorted = @ - 1,
                               !.rq[r].at = "head"]

elv_dispatch_add_tail(s, r) ==
  [LeavesScheduler(s, r) EXCEPT !.end_sector = End(s, r), !.boundary = r,
                                !.head = Append(@, r)]

\* where elv_dispatch_sort stops on its way from the tail to the head
SortStops(s, r, pos) ==
  \/ s.rq[r].rw # s.rq[pos].rw
  \/ s.rq[pos].barrier \/ s.rq[pos].started
  \/ /\ s.rq[r].pos < s.end_sector
     /\ s.rq[pos].pos >= s.end_sector
  \/ /\ (s.rq[r].pos >= s.end_sector) => (s.rq[pos].pos >= s.end_sector)
     /\ s.rq[r].pos >= s.rq[pos].pos

elv_dispatch_sort(s, r) ==
  LET stops == {i \in DOMAIN s.head : SortStops(s, r, s.head[i])}
  IN [LeavesScheduler(s, r) EXCEPT
        !.head = InsertAt(@, (IF stops = {} THEN 0 ELSE Max(stops)) + 1, r)]

-----------------------------------------------------------------------------
(* The deadline scheduler.                                                 *)

elv_rb_find(s, w, pos) ==
  LET at == {r \in ToSet(s.rb[w]) : s.rq[r].pos = pos}
  IN IF at = {} THEN 0 ELSE CHOOSE r \in at : TRUE

deadline_del_rq_rb(s, r) ==
  LET w == s.rq[r].rw IN
  [s EXCEPT !.next[w] = IF @ = r THEN After(s.rb[w], r) ELSE @, !.rb[w] = Remove(@, r)]

deadline_remove_request(s, r) ==
  [deadline_del_rq_rb(s, r) EXCEPT !.fifo[s.rq[r].rw] = Remove(@, r)]

deadline_move_request(s, r) ==
  LET w == s.rq[r].rw
      moved == [s EXCEPT !.next = [x \in RWs |-> IF x = w THEN After(s.rb[w], r) ELSE 0],
                         !.passed = IF w = "write" THEN 0 ELSE @]
  IN elv_dispatch_add_tail(deadline_remove_request(moved, r), r)

\* elv_rb_add reports a request at the same position, which is dispatched
RbAdded(s, r, w) ==
  LET below == {i \in DOMAIN s.rb[w] : s.rq[s.rb[w][i]].pos < s.rq[r].pos}
  IN [s EXCEPT !.rb[w] = InsertAt(@, Cardinality(below) + 1, r)]
AliasMoved(s, alias) == IF alias = 0 THEN s ELSE deadline_move_request(s, alias)
deadline_add_rq_rb(s, r) ==
  LET w == s.rq[r].rw
  IN RbAdded(AliasMoved(s, elv_rb_find(s, w, s.rq[r].pos)), r, w)

deadline_add_request(s, r) ==
  LET w == s.rq[r].rw IN
  [deadline_add_rq_rb(s, r) EXCEPT !.rq[r].time = s.now + schedscope.expire[w],
                                   !.fifo[w] = Append(@, r)]


\* a front merge moved the request in sector order
deadline_merged_request(s, r) ==
  deadline_add_rq_rb([s EXCEPT !.rb[s.rq[r].rw] = Remove(@, r)], r)

\* next is absorbed: req takes its place in the fifo if that expires earlier
deadline_merged_requests(s, r, nxt) ==
  LET w == s.rq[r].rw
      rest == Remove(s.fifo[w], r)
      i == CHOOSE i \in DOMAIN rest : rest[i] = nxt
      t == IF s.rq[nxt].time < s.rq[r].time
           THEN [s EXCEPT !.fifo[w] = InsertAt(rest, i + 1, r),
                          !.rq[r].time = s.rq[nxt].time]
           ELSE s
  IN deadline_remove_request(t, nxt)

deadline_check_fifo(s, w) == s.now > s.rq[Head(s.fifo[w])].time

\* deadline_dispatch_requests: the request it takes, 0 for none, and whether
\* it goes on with a batch or starts one, after which starved is as given
Batching(s) ==
  LET rq == IF s.next["write"] # 0 THEN s.next["write"] ELSE s.next["read"]
  IN IF s.batching < schedscope.fifo_batch THEN rq ELSE 0
BestOf(s, w) ==
  IF deadline_check_fifo(s, w) \/ s.next[w] = 0 THEN Head(s.fifo[w]) ELSE s.next[w]

StarvedAfter(s, w) ==
  IF w = "write" THEN 0
  ELSE IF s.fifo["write"] # <<>> THEN s.starved + 1 ELSE s.starved
WritesNext(s) ==
  s.fifo["write"] # <<>> /\ (s.fifo["read"] # <<>> => s.starved >= schedscope.writes_starved)

Chosen(s, r) ==
  [s EXCEPT !.passed = IF s.rq[r].rw = "read" /\ s.fifo["write"] # <<>> THEN @ + 1 ELSE 0]

NewBatch(s, w) ==
  LET r == BestOf(s, w) IN
  deadline_move_request([Chosen(s, r) EXCEPT !.starved = StarvedAfter(s, w), !.batching = 1], r)

deadline_dispatch_requests(s) ==
  LET rq == Batching(s) IN
  IF rq # 0 THEN deadline_move_request([Chosen(s, rq) EXCEPT !.batching = @ + 1], rq)
  ELSE IF s.fifo["read"] = <<>> /\ s.fifo["write"] = <<>> THEN s
  ELSE NewBatch(s, IF WritesNext(s) THEN "write" ELSE "read")

-----------------------------------------------------------------------------
(* The noop scheduler is a list in the order of insertion.                 *)

noop_dispatch(s) ==
  IF s.queue = <<>> THEN s
  ELSE elv_dispatch_sort([s EXCEPT !.queue = Tail(@)], Head(s.queue))

Deadline == schedscope.elv = "deadline"
elevator_dispatch(s) == IF Deadline THEN deadline_dispatch_requests(s) ELSE noop_dispatch(s)
elevator_add_req(s, r) ==
  IF Deadline THEN deadline_add_request(s, r) ELSE [s EXCEPT !.queue = Append(@, r)]
elevator_merge_req(s, r, nxt) ==
  IF Deadline THEN deadline_merged_requests(s, r, nxt)
  ELSE [s EXCEPT !.queue = Remove(@, nxt)]
Sorted(s, r) == IF Deadline THEN s.rb[s.rq[r].rw] ELSE s.queue
elv_latter_request(s, r) == After(Sorted(s, r), r)
elv_former_request(s, r) == Before(Sorted(s, r), r)

elv_drain_elevator(s) ==
  FoldLeft(LAMBDA t, i : elevator_dispatch(t), s, [i \in 1..s.nr_sorted |-> i])

-----------------------------------------------------------------------------
(* Merging two requests.                                                   *)

\* every bio gets the failfast bit of the request, which then stands only
\* for the first one
blk_rq_set_mixed_merge(s, r) ==
  IF s.rq[r].mixed THEN s
  ELSE [s EXCEPT !.rq[r].mixed = TRUE,
                 !.bio = [b \in Bios |-> IF b \in ToSet(s.rq[r].bios)
                                         THEN [@[b] EXCEPT !.ff = @ \/ s.rq[r].ff] ELSE @[b]]]

MayMerge(s, r, nxt) ==
  /\ rq_mergeable(s, r) /\ rq_mergeable(s, nxt)
  /\ End(s, r) = s.rq[nxt].pos
  /\ s.rq[r].rw = s.rq[nxt].rw
  /\ s.rq[r].size + s.rq[nxt].size <= schedscope.max_sectors      \* ll_merge_requests_fn
  /\ Len(s.rq[r].bios) + Len(s.rq[nxt].bios) <= schedscope.max_segments

elv_merge_requests(s, r, nxt) ==
  LET t == IF s.rq[nxt].sorted THEN elevator_merge_req(s, r, nxt) ELSE s
      u == elv_rqhash_reposition(t, r)
      v == IF s.rq[nxt].sorted THEN [elv_rqhash_del(u, nxt) EXCEPT !.nr_sorted = @ - 1] ELSE u
  IN [v EXCEPT !.last_merge = r]

attempt_merge(s, r, nxt) ==
  LET mixes == s.rq[r].mixed \/ s.rq[nxt].mixed \/ s.rq[r].ff # s.rq[nxt].ff
      t == IF mixes THEN blk_rq_set_mixed_merge(blk_rq_set_mixed_merge(s, r), nxt) ELSE s
      u == [t EXCEPT !.rq[r].bios = @ \o s.rq[nxt].bios, !.rq[r].size = @ + s.rq[nxt].size]
  IN [elv_merge_requests(u, r, nxt) EXCEPT !.rq[nxt] = NoRq]

-----------------------------------------------------------------------------
(* Merging a bio into a request.                                           *)

\* mutant: the directions are not compared
any_direction(s, r, b) == rq_mergeable(s, r)
elv_rq_merge_ok(s, r, b) == rq_mergeable(s, r) /\ s.rq[r].rw = s.bio[b].rw
elv_try_merge(s, r, b) ==
  IF r = 0 \/ ~elv_rq_merge_ok(s, r, b) THEN "none"
  ELSE IF End(s, r) = s.bio[b].pos THEN "back"
  ELSE IF s.rq[r].pos = s.bio[b].pos + s.bio[b].size THEN "front"
  ELSE "none"

\* ll_back_merge_fn and ll_front_merge_fn: a request with no room for the
\* bio is not merged with again
HasRoom(s, r, b) ==
  /\ s.rq[r].size + s.bio[b].size <= schedscope.max_sectors
  /\ Len(s.rq[r].bios) + 1 <= schedscope.max_segments
ll_no_merge(s, r) ==
  [s EXCEPT !.rq[r].nomerge = TRUE, !.last_merge = IF @ = r THEN 0 ELSE @]

bio_attempt_merge(s, r, b, type) ==
  LET t == IF s.rq[r].ff # s.bio[b].ff THEN blk_rq_set_mixed_merge(s, r) ELSE s
      u == [t EXCEPT !.rq[r].size = @ + s.bio[b].size]
  IN IF type = "back" THEN [u EXCEPT !.rq[r].bios = Append(@, b)]
     ELSE [u EXCEPT !.rq[r].bios = <<b>> \o @, !.rq[r].pos = s.bio[b].pos]

elv_merged_request(s, r, type) ==
  LET t == IF Deadline /\ type = "front" THEN deadline_merged_request(s, r) ELSE s
      u == IF type = "back" THEN elv_rqhash_reposition(t, r) ELSE t
  IN [u EXCEPT !.last_merge = r]

\* elv_merge: the request to merge with and how
Lookup(s, b, hashed, front) ==
  IF hashed # 0 /\ elv_rq_merge_ok(s, hashed, b) THEN [type |-> "back", rq |-> hashed]
  ELSE IF front # 0 /\ elv_rq_merge_ok(s, front, b) THEN [type |-> "front", rq |-> front]
  ELSE [type |-> "none", rq |-> 0]
elv_merge(s, b) ==
  LET end == s.bio[b].pos + s.bio[b].size
      front == IF Deadline THEN elv_rb_find(s, s.bio[b].rw, end) ELSE 0
      try == elv_try_merge(s, s.last_merge, b)
  IN IF schedscope.nomerges = "all" THEN [type |-> "none", rq |-> 0]
     ELSE IF try # "none" THEN [type |-> try, rq |-> s.last_merge]
     ELSE IF schedscope.nomerges = "x" THEN [type |-> "none", rq |-> 0]
     ELSE Lookup(s, b, elv_rqhash_find(s, s.bio[b].pos), front)
\* the hash is searched unless merging is off or last_merge has served
AfterSearch(s, b) ==
  IF schedscope.nomerges # "no" \/ elv_try_merge(s, s.last_merge, b) # "none" THEN s
  ELSE HashPruned(s, s.bio[b].pos, elv_rqhash_find(s, s.bio[b].pos))

\* the queue side of __make_request: the state after it, and whether the bio
\* was merged
Neighbours(s, m) ==
  IF m.type = "back" THEN <<m.rq, elv_latter_request(s, m.rq)>>
  ELSE <<elv_former_request(s, m.rq), m.rq>>
TryNeighbour(s, m, rs) ==
  IF 0 \notin ToSet(rs) /\ MayMerge(s, rs[1], rs[2]) THEN attempt_merge(s, rs[1], rs[2])
  ELSE elv_merged_request(s, m.rq, m.type)
Grown(s, m) == TryNeighbour(s, m, Neighbours(s, m))
MergeInto(s, b, m) ==
  IF m.type = "none" THEN [done |-> FALSE, s |-> s]
  ELSE IF ~HasRoom(s, m.rq, b) THEN [done |-> FALSE, s |-> ll_no_merge(s, m.rq)]
  ELSE [done |-> TRUE, s |-> Grown(bio_attempt_merge(s, m.rq, b, m.type), m)]
MergeIntoQueue(s, b) == MergeInto(AfterSearch(s, b), b, elv_merge(s, b))

attempt_plug_merge(s, b) ==
  LET try(r, acc) ==
        LET type == elv_try_merge(acc.s, r, b) IN
        IF acc.done \/ type = "none" THEN acc
        ELSE IF HasRoom(acc.s, r, b)
             THEN [done |-> TRUE, s |-> bio_attempt_merge(acc.s, r, b, type)]
        ELSE [done |-> FALSE, s |-> ll_no_merge(acc.s, r)]
  IN FoldRight(try, s.plug, [done |-> FALSE, s |-> s])

-----------------------------------------------------------------------------
(* Inserting a request.                                                    *)

\* the request r is merged behind, 0 for none
InsertTarget(s, r, hashed) ==
  IF schedscope.nomerges = "all" THEN 0
  ELSE IF s.last_merge # 0 /\ MayMerge(s, s.last_merge, r) THEN s.last_merge
  ELSE IF schedscope.nomerges = "no" /\ hashed # 0 /\ MayMerge(s, hashed, r) THEN hashed
  ELSE 0
InsertSearched(s, r, hashed) ==
  IF schedscope.nomerges # "no" \/ (s.last_merge # 0 /\ MayMerge(s, s.last_merge, r)) THEN s
  ELSE HashPruned(s, s.rq[r].pos, hashed)

InsertSort(s, r) ==
  LET t == [s EXCEPT !.rq[r].sorted = TRUE, !.rq[r].at = "sched", !.nr_sorted = @ + 1]
      u == IF ~rq_mergeable(t, r) THEN t
           ELSE [elv_rqhash_add(t, r) EXCEPT !.last_merge = IF @ = 0 THEN r ELSE @]
  IN elevator_add_req(u, r)

elv_attempt_insert_merge(s, r, into) ==
  IF into # 0 THEN attempt_merge(s, into, r) ELSE InsertSort(s, r)
SortMerge(s, r, hashed) ==
  elv_attempt_insert_merge(InsertSearched(s, r, hashed), r, InsertTarget(s, r, hashed))

__elv_add_request(s, r, where) ==
  CASE where = "sort" -> InsertSort(s, r)
    [] where = "sort_merge" -> SortMerge(s, r, elv_rqhash_find(s, s.rq[r].pos))
    [] where = "front" ->
         [s EXCEPT !.rq[r].barrier = TRUE, !.rq[r].at = "head", !.head = <<r>> \o @]
    [] where = "back" ->
         [elv_drain_elevator([s EXCEPT !.rq[r].barrier = TRUE])
            EXCEPT !.rq[r].at = "head", !.head = Append(@, r)]

\* init_request_from_bio
NewRq(s, b, at) ==
  [NoRq EXCEPT !.at = at, !.bios = <<b>>, !.pos = s.bio[b].pos, !.size = s.bio[b].size,
               !.rw = s.bio[b].rw, !.ff = s.bio[b].ff]

-----------------------------------------------------------------------------
At(place) == {r \in Bios : d.rq[r].at = place}

(* The steps.                                                              *)

OrIntoQueue(p, b) == IF p.done THEN p ELSE MergeIntoQueue(p.s, b)
GetRequest(m, b, at) ==
  IF m.done THEN m.s
  ELSE [m.s EXCEPT !.rq[b] = NewRq(m.s, b, at), !.plug = IF at = "plug" THEN Append(@, b) ELSE @]

\* __make_request: merge with the plug list, merge with the queue, or get a
\* request.  To get it the lock is dropped; without a plug the request is
\* then inserted by a step of its own, whatever happened in between.
__make_request(plugs, bio) ==
  LET b == d.n + 1
      s == [d EXCEPT !.n = b, !.bio[b] = bio]
      p == IF plugs THEN attempt_plug_merge(s, b) ELSE [done |-> FALSE, s |-> s]
  IN /\ d.n < schedscope.bios /\ Cardinality(At("alloc")) < schedscope.tasks
     /\ d' = GetRequest(OrIntoQueue(p, b), b, IF plugs THEN "plug" ELSE "alloc")

add_acct_request(r) ==
  /\ d.rq[r].at = "alloc"
  /\ d' = __elv_add_request(d, r, "sort")

blk_flush_plug_list ==
  /\ d.plug # <<>>
  /\ d' = FoldLeft(LAMBDA s, r : __elv_add_request(s, r, "sort_merge"),
                   [d EXCEPT !.plug = <<>>], d.plug)

\* a request of a driver, which has no bio
blk_insert_request(where) ==
  LET r == d.n + 1 IN
  /\ schedscope.special /\ d.n < schedscope.bios
  /\ d' = __elv_add_request([d EXCEPT !.n = r], r, where)

\* the driver looks at the first request, which may make the scheduler
\* choose one; no request may pass it from then on
Peeked(s) ==
  LET r == Head(s.head)
      first == s.boundary \in {0, r}
  IN [s EXCEPT !.rq[r].started = TRUE,
               !.end_sector = IF first THEN End(s, r) ELSE @,
               !.boundary = IF first THEN 0 ELSE @]
__elv_next_request(s) == IF s.head = <<>> THEN elevator_dispatch(s) ELSE s
blk_dequeue_request(s) == [s EXCEPT !.rq[Head(s.head)].at = "driver", !.head = Tail(@)]

blk_peek_request ==
  /\ schedscope.parts
  /\ __elv_next_request(d).head # <<>>
  /\ d' = Peeked(__elv_next_request(d))

blk_start_request ==
  /\ schedscope.parts /\ Cardinality(At("driver")) < schedscope.depth
  /\ d.head # <<>> /\ d.rq[Head(d.head)].started
  /\ d' = blk_dequeue_request(d)

blk_fetch_request ==
  /\ Cardinality(At("driver")) < schedscope.depth
  /\ __elv_next_request(d).head # <<>>
  /\ d' = blk_dequeue_request(Peeked(__elv_next_request(d)))

blk_requeue_request(r) ==
  /\ schedscope.parts
  /\ d.rq[r].at = "driver"
  /\ d' = __elv_add_request([d EXCEPT !.rq[r].started = FALSE], r, "front")

SizeOf(s, bs) == FoldLeft(LAMBDA sum, b : sum + s.bio[b].size, 0, bs)
Ended(s, bs) == [b \in Bios |-> IF b \in ToSet(bs) THEN [NoBio EXCEPT !.st = "ended"] ELSE s.bio[b]]

\* n sectors of a request are done: whole bios end, the next one shrinks
blk_update_request(s, r, n) ==
  LET bs == s.rq[r].bios
      whole == Max({k \in 0..Len(bs) : SizeOf(s, SubSeq(bs, 1, k)) <= n})
      part == n - SizeOf(s, SubSeq(bs, 1, whole))
      rest == SubSeq(bs, whole + 1, Len(bs))
      t == [s EXCEPT !.bio = Ended(s, SubSeq(bs, 1, whole))]
  IN IF rest = <<>> THEN [t EXCEPT !.rq[r] = NoRq]
     ELSE [t EXCEPT !.bio[Head(rest)].pos = @ + part, !.bio[Head(rest)].size = @ - part,
                    !.rq[r].bios = rest, !.rq[r].pos = @ + n, !.rq[r].size = @ - n,
                    !.rq[r].ff = IF s.rq[r].mixed THEN s.bio[Head(rest)].ff ELSE @]

blk_end_request(r, n) ==
  /\ d.rq[r].at = "driver"
  /\ n = d.rq[r].size \/ (schedscope.parts /\ n \in 1..d.rq[r].size)
  /\ d' = blk_update_request(d, r, n)

\* how much of a request may fail at once: the bios before the first that is
\* less eager to fail than the request says
blk_rq_err_bytes(s, r) ==
  LET bs == s.rq[r].bios
      lazy == {i \in DOMAIN bs : s.rq[r].ff /\ ~s.bio[bs[i]].ff}
  IN IF ~s.rq[r].mixed \/ lazy = {} THEN s.rq[r].size
     ELSE SizeOf(s, SubSeq(bs, 1, Min(lazy) - 1))

blk_end_request_err(r) ==
  /\ schedscope.parts
  /\ d.rq[r].at = "driver" /\ d.rq[r].bios # <<>>
  /\ blk_rq_err_bytes(d, r) > 0      \* BUG_ON
  /\ d' = blk_update_request(d, r, blk_rq_err_bytes(d, r))

Tick == d.now < schedscope.now /\ d' = [d EXCEPT !.now = @ + 1]

SchedNext ==
  /\ UNCHANGED schedscope
  /\ \/ \E plugs \in schedscope.plugs, pos \in schedscope.pos, size \in schedscope.sizes,
           w \in schedscope.rws, ff \in schedscope.ff :
           __make_request(plugs, [st |-> "live", pos |-> pos, size |-> size, rw |-> w, ff |-> ff])
     \/ \E r \in Bios : add_acct_request(r) \/ blk_requeue_request(r) \/ blk_end_request_err(r)
                        \/ \E n \in 0..schedscope.max_sectors : blk_end_request(r, n)
     \/ blk_flush_plug_list
     \/ \E where \in {"front", "back"} : blk_insert_request(where)
     \/ blk_peek_request
     \/ blk_start_request
     \/ blk_fetch_request
     \/ Tick

SchedSpec == SchedInit /\ [][SchedNext]_schedVars

-----------------------------------------------------------------------------
Distinct(seq) == Cardinality(ToSet(seq)) = Len(seq)
Ordered(seq, v(_)) == \A i, j \in DOMAIN seq : i < j => v(seq[i]) <= v(seq[j])

\* Merging loses no bio and duplicates none: a bio that was submitted and has
\* not ended is in exactly one request, once, and the bios of a request lie
\* end to end in the request's direction and within the limits of the queue,
\* whichever of the plug, one-hit, hash and scheduler merges made it
\* (bio_attempt_back_merge, bio_attempt_front_merge, attempt_merge,
\* blk_update_request).
MergeKeepsBios ==
  /\ \A b \in Bios : d.bio[b].st = "live" =>
       Cardinality({r \in Bios : b \in ToSet(d.rq[r].bios)}) = 1
  /\ \A r \in Bios : LET bs == d.rq[r].bios IN
       /\ \A i \in DOMAIN bs :
            /\ d.bio[bs[i]].st = "live" /\ d.bio[bs[i]].rw = d.rq[r].rw
            /\ d.bio[bs[i]].size > 0
            /\ d.bio[bs[i]].pos = IF i = 1 THEN d.rq[r].pos
                                   ELSE d.bio[bs[i - 1]].pos + d.bio[bs[i - 1]].size
       /\ bs # <<>> => d.rq[r].pos + d.rq[r].size = d.bio[Last(bs)].pos + d.bio[Last(bs)].size
       /\ Len(bs) > 1 => /\ d.rq[r].size <= schedscope.max_sectors
                         /\ Len(bs) <= schedscope.max_segments



\* The failfast attribute of a request made of bios with different ones is that
\* of its first bio, which is what blk_rq_err_bytes relies on.
MixedFollowsFirst ==
  \A r \in Bios : d.rq[r].mixed => d.rq[r].ff = d.bio[Head(d.rq[r].bios)].ff
=============================================================================
