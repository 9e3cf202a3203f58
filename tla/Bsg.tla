-------------------------------- MODULE Bsg --------------------------------
(***************************************************************************)
(* SCSI generic access to a queue (bsg.c): the bsg_device shared by the    *)
(* files that have it open, its commands from bsg_write through completion *)
(* to bsg_read, the close that waits for all of them, and the class device *)
(* that goes away under its users.  A command is a model value; `rqs' are  *)
(* the requests it holds, two for a bidirectional one.                     *)
(***************************************************************************)
EXTENDS Integers, Sequences, FiniteSets, FiniteSetsExt, SequencesExt

CONSTANTS Files, Bds, Cmds, NoBd, NoCmd,
          BsgScopes      \* bounds explored together, see bsgscope

VARIABLES
  bcd,   \* q->bsg_dev: registered (its minor is in the idr and class_dev is set), ref
  queue, \* dead, references held by bsg devices, requests held
  bd,    \* per bsg_device: mem, listed, ref_count, queued_cmds, max_queue,
         \* busy_list, done_list, block (BSG_F_BLOCK)
  cmd,   \* per command: the requests it holds, 0 when it has none
  file,  \* per file: pc, bd, cmd, left (of nr_commands), nonblock
  waking, \* per device: completions that are about to wake wq_done
  bsgscope \* files, commands, commands per call, requests per command, values of
         \* max_queue and of O_NONBLOCK, SG_IO?, unregistering?, completions at once

bsgVars == <<bcd, queue, bd, cmd, file, waking, bsgscope>>

Closed == [pc |-> "closed", bd |-> NoBd, cmd |-> NoCmd, left |-> 0, nonblock |-> FALSE]
bsg_alloc_device(block) ==
  [mem |-> "live", listed |-> TRUE, ref_count |-> 1, queued_cmds |-> 0,
   max_queue |-> Max(bsgscope.queues), busy |-> {}, done |-> <<>>, block |-> block]
FreeBd == [bsg_alloc_device(FALSE) EXCEPT !.mem = "free", !.listed = FALSE,
                                          !.ref_count = 0, !.max_queue = 0]

BsgInit ==
  /\ bsgscope \in BsgScopes
  /\ bcd = [registered |-> TRUE, ref |-> 1]
  /\ queue = [dead |-> FALSE, refs |-> 0, held |-> 0]
  /\ bd = [d \in Bds |-> FreeBd]
  /\ cmd = [c \in Cmds |-> 0]
  /\ file = [f \in Files |-> Closed]
  /\ waking = [d \in Bds |-> 0]

\* commands of a device that a file is working on, and free command slots
Held(d) == {f \in Files : file[f].bd = d /\ (file[f].pc = "map" \/ file[f].cmd # NoCmd)}
FreeCmds == bsgscope.cmds \ (UNION {bd[d].busy \cup ToSet(bd[d].done) : d \in Bds}
                             \cup {file[f].cmd : f \in Files})

bsg_set_block(f) == [bd EXCEPT ![file[f].bd].block = ~file[f].nonblock]

-----------------------------------------------------------------------------
(* Opening *)

\* bsg_open, bsg_get_device: a reference to the class device
bsg_open(f, nonblock) ==
  /\ file[f].pc = "closed" /\ bcd.registered
  /\ bcd' = [bcd EXCEPT !.ref = @ + 1]
  /\ file' = [file EXCEPT ![f] = [Closed EXCEPT !.pc = "found", !.nonblock = nonblock]]
  /\ UNCHANGED <<queue, bd, cmd, waking, bsgscope>>

\* under bsg_mutex: share a listed device, or go on to add one
__bsg_get_device(f) ==
  /\ file[f].pc = "found"
  /\ \/ \E d \in Bds :
          /\ bd[d].listed
          /\ bd' = [bd EXCEPT ![d].ref_count = @ + 1]
          /\ file' = [file EXCEPT ![f].pc = "open", ![f].bd = d]
     \/ /\ \A d \in Bds : ~bd[d].listed
        /\ file' = [file EXCEPT ![f].pc = "add"]
        /\ UNCHANGED bd
  /\ UNCHANGED <<bcd, queue, cmd, waking, bsgscope>>

bsg_add_device(f, d) ==
  /\ file[f].pc = "add" /\ ~queue.dead /\ bd[d].mem = "free"
  /\ queue' = [queue EXCEPT !.refs = @ + 1]
  /\ bd' = [bd EXCEPT ![d] = bsg_alloc_device(~file[f].nonblock)]
  /\ file' = [file EXCEPT ![f].pc = "open", ![f].bd = d]
  /\ UNCHANGED <<bcd, cmd, waking, bsgscope>>

\* a dead queue, or no memory: both references are dropped
AddDeviceFails(f) ==
  /\ file[f].pc = "add"
  /\ bcd' = [bcd EXCEPT !.ref = @ - 1]
  /\ file' = [file EXCEPT ![f] = Closed]
  /\ UNCHANGED <<queue, bd, cmd, waking, bsgscope>>

-----------------------------------------------------------------------------
(* Commands *)

bsg_write(f, n) ==
  /\ file[f].pc = "open"
  /\ bd' = bsg_set_block(f)
  /\ file' = [file EXCEPT ![f].pc = "write", ![f].left = n]
  /\ UNCHANGED <<bcd, queue, cmd, waking, bsgscope>>

Stop(f) == [file EXCEPT ![f].pc = "open", ![f].cmd = NoCmd, ![f].left = 0]
Loop(f) == [file EXCEPT ![f].pc = IF file[f].left = 1 THEN "open" ELSE
                                    IF @ = "map" THEN "write" ELSE "read",
                        ![f].cmd = NoCmd, ![f].left = @ - 1]

\* the count is raised under the lock before the command is allocated
bsg_alloc_command(f) ==
  LET d == file[f].bd IN
  /\ file[f].pc = "write"
  /\ \/ /\ bd[d].queued_cmds >= bd[d].max_queue
        /\ file' = Stop(f)
        /\ UNCHANGED bd
     \/ /\ bd[d].queued_cmds < bd[d].max_queue
        /\ bd' = [bd EXCEPT ![d].queued_cmds = @ + 1]
        /\ file' = [file EXCEPT ![f].pc = "map",
             ![f].cmd = IF FreeCmds = {} THEN NoCmd ELSE CHOOSE c \in FreeCmds : TRUE]
  /\ UNCHANGED <<bcd, queue, cmd, waking, bsgscope>>

\* bsg_free_command after a failed allocation, copy or mapping, which has
\* put whatever requests it got
WriteFails(f) ==
  /\ file[f].pc = "map"
  /\ bd' = [bd EXCEPT ![file[f].bd].queued_cmds = @ - 1]
  /\ file' = Stop(f)
  /\ UNCHANGED <<bcd, queue, cmd, waking, bsgscope>>

\* one request, and one more for the other direction; not once class_dev is gone
bsg_map_hdr(n) == bcd.registered /\ n \in 1..2

\* bsg_add_command: on the busy list, then submitted
bsg_add_command(f, n) ==
  LET d == file[f].bd IN
  /\ file[f].pc = "map" /\ file[f].cmd # NoCmd /\ bsg_map_hdr(n)
  /\ queue' = [queue EXCEPT !.held = @ + n]
  /\ cmd' = [cmd EXCEPT ![file[f].cmd] = n]
  /\ bd' = [bd EXCEPT ![d].busy = @ \cup {file[f].cmd}]
  /\ file' = Loop(f)
  /\ UNCHANGED <<bcd, waking, bsgscope>>

\* bsg_rq_end_io: done under the lock, then the wakeup
bsg_rq_end_io(d, c) ==
  /\ c \in bd[d].busy /\ waking[d] < bsgscope.cpus
  /\ bd' = [bd EXCEPT ![d].busy = @ \ {c}, ![d].done = Append(@, c)]
  /\ waking' = [waking EXCEPT ![d] = @ + 1]
  /\ UNCHANGED <<bcd, queue, cmd, file, bsgscope>>

WakeDone(d) ==
  /\ waking[d] > 0
  /\ waking' = [waking EXCEPT ![d] = @ - 1]
  /\ file' = [f \in Files |-> IF file[f].bd = d /\ file[f].pc = "sleep"
                              THEN [file[f] EXCEPT !.pc = "drain"] ELSE file[f]]
  /\ UNCHANGED <<bcd, queue, bd, cmd, bsgscope>>

bsg_read(f, n) ==
  /\ file[f].pc = "open"
  /\ bd' = bsg_set_block(f)
  /\ file' = [file EXCEPT ![f].pc = "read", ![f].left = n]
  /\ UNCHANGED <<bcd, queue, cmd, waking, bsgscope>>

\* bsg_next_done_cmd
Taken(f) ==
  LET d == file[f].bd IN
  /\ bd[d].done # <<>>
  /\ bd' = [bd EXCEPT ![d].done = Tail(@)]

\* bsg_get_done_cmd: a done command, or an error, or a wait for one, which
\* a signal may end
bsg_get_done_cmd(f) ==
  LET d == file[f].bd IN
  /\ file[f].pc = "read"
  /\ \/ /\ Taken(f)
        /\ file' = [file EXCEPT ![f].pc = "reap", ![f].cmd = Head(bd[d].done)]
     \/ /\ bd[d].done = <<>>
        /\ file' = IF bd[d].block THEN [file EXCEPT ![f].pc = "wait"] ELSE Stop(f)
        /\ UNCHANGED bd
  /\ UNCHANGED <<bcd, queue, cmd, waking, bsgscope>>

WaitDone(f) ==
  /\ file[f].pc = "wait"
  /\ \/ bd[file[f].bd].done # <<>> /\ file' = [file EXCEPT ![f].pc = "read"]
     \/ file' = Stop(f)
  /\ UNCHANGED <<bcd, queue, bd, cmd, waking, bsgscope>>

\* blk_complete_sgv4_hdr_rq puts the requests, then bsg_free_command
blk_complete_sgv4_hdr_rq(f) ==
  LET c == file[f].cmd IN
  /\ queue' = [queue EXCEPT !.held = @ - cmd[c]]
  /\ cmd' = [cmd EXCEPT ![c] = 0]
  /\ bd' = [bd EXCEPT ![file[f].bd].queued_cmds = @ - 1]

__bsg_read(f) ==
  /\ file[f].pc = "reap"
  /\ blk_complete_sgv4_hdr_rq(f)
  /\ file' \in {Stop(f), Loop(f)}
  /\ UNCHANGED <<bcd, waking, bsgscope>>

SG_SET_COMMAND_Q(f, n) ==
  /\ file[f].pc = "open"
  /\ bd' = [bd EXCEPT ![file[f].bd].max_queue = n]
  /\ UNCHANGED <<bcd, queue, cmd, file, waking, bsgscope>>

\* SG_IO: a request that is not a command of the device, waited for
SG_IO(f, n) ==
  /\ file[f].pc = "open" /\ bsgscope.sgio /\ bsg_map_hdr(n)
  /\ queue' = [queue EXCEPT !.held = @ + n]
  /\ file' = [file EXCEPT ![f].pc = "exec", ![f].left = n]
  /\ UNCHANGED <<bcd, bd, cmd, waking, bsgscope>>

SgIoDone(f) ==
  /\ file[f].pc = "exec"
  /\ queue' = [queue EXCEPT !.held = @ - file[f].left]
  /\ file' = Stop(f)
  /\ UNCHANGED <<bcd, bd, cmd, waking, bsgscope>>

-----------------------------------------------------------------------------
(* Closing *)

\* mutant: the device stays on the list until it is torn down
put_listed(f) ==
  LET d == file[f].bd
      last == bd[d].ref_count = 1 IN
  /\ file[f].pc = "open"
  /\ bd' = [bd EXCEPT ![d].ref_count = @ - 1, ![d].block = @ \/ last]
  /\ bcd' = IF last THEN bcd ELSE [bcd EXCEPT !.ref = @ - 1]
  /\ file' = [file EXCEPT ![f] = IF last THEN [@ EXCEPT !.pc = "drain"] ELSE Closed]
  /\ UNCHANGED <<queue, cmd, waking, bsgscope>>

\* bsg_release: under bsg_mutex the last reference takes the device off the
\* list; a close can always block
bsg_put_device(f) ==
  LET d == file[f].bd
      last == bd[d].ref_count = 1 IN
  /\ file[f].pc = "open"
  /\ bd' = [bd EXCEPT ![d].ref_count = @ - 1, ![d].listed = @ /\ ~last, ![d].block = @ \/ last]
  /\ bcd' = IF last THEN bcd ELSE [bcd EXCEPT !.ref = @ - 1]
  /\ file' = [file EXCEPT ![f] = IF last THEN [@ EXCEPT !.pc = "drain"] ELSE Closed]
  /\ UNCHANGED <<queue, cmd, waking, bsgscope>>

\* on the wait queue before the lock is dropped, asleep after it; a wakeup
\* in between is not missed
bsg_io_schedule(f) ==
  LET d == file[f].bd IN
  /\ file[f].pc = "drain"
  /\ file' = [file EXCEPT ![f].pc = IF Len(bd[d].done) = bd[d].queued_cmds
                                    THEN "discard" ELSE "sleep"]
  /\ UNCHANGED <<bcd, queue, bd, cmd, waking, bsgscope>>

\* the rest of bsg_complete_all_commands: take a done command, complete it
bsg_complete_all_commands(f) ==
  \/ /\ file[f].pc = "discard" /\ file[f].cmd = NoCmd
     /\ Taken(f)
     /\ file' = [file EXCEPT ![f].cmd = Head(bd[file[f].bd].done)]
     /\ UNCHANGED <<bcd, queue, cmd, waking, bsgscope>>
  \/ /\ file[f].pc = "discard" /\ file[f].cmd # NoCmd
     /\ blk_complete_sgv4_hdr_rq(f)
     /\ file' = [file EXCEPT ![f].cmd = NoCmd]
     /\ UNCHANGED <<bcd, waking, bsgscope>>

\* kfree, then the references to the class device and to the queue
FreeDevice(f) ==
  LET d == file[f].bd IN
  /\ file[f].pc = "discard" /\ file[f].cmd = NoCmd /\ bd[d].queued_cmds = 0
  /\ bd' = [bd EXCEPT ![d] = FreeBd]
  /\ bcd' = [bcd EXCEPT !.ref = @ - 1]
  /\ queue' = [queue EXCEPT !.refs = @ - 1]
  /\ file' = [file EXCEPT ![f] = Closed]
  /\ UNCHANGED <<cmd, waking, bsgscope>>

bsg_unregister_queue ==
  /\ bcd.registered /\ bsgscope.unregister
  /\ bcd' = [registered |-> FALSE, ref |-> bcd.ref - 1]
  /\ UNCHANGED <<queue, bd, cmd, file, waking, bsgscope>>

bsg_register_queue ==
  /\ ~bcd.registered /\ bcd.ref = 0 /\ ~queue.dead
  /\ bcd' = [registered |-> TRUE, ref |-> 1]
  /\ UNCHANGED <<queue, bd, cmd, file, waking, bsgscope>>

QueueDies ==
  /\ ~bcd.registered
  /\ queue' = [queue EXCEPT !.dead = TRUE]
  /\ UNCHANGED <<bcd, bd, cmd, file, waking, bsgscope>>

BsgNext ==
  \/ \E f \in bsgscope.files :
       \/ \E nonblock \in bsgscope.nonblocks : bsg_open(f, nonblock)
       \/ __bsg_get_device(f) \/ AddDeviceFails(f) \/ WriteFails(f)
       \/ \E d \in Bds : bsg_add_device(f, d)
       \/ \E n \in bsgscope.percall : bsg_write(f, n) \/ bsg_read(f, n)
       \/ \E n \in bsgscope.rqs : bsg_add_command(f, n) \/ SG_IO(f, n)
       \/ bsg_alloc_command(f) \/ bsg_get_done_cmd(f) \/ WaitDone(f) \/ __bsg_read(f) \/ SgIoDone(f)
       \/ \E n \in bsgscope.queues : SG_SET_COMMAND_Q(f, n)
       \/ bsg_put_device(f) \/ bsg_io_schedule(f) \/ bsg_complete_all_commands(f) \/ FreeDevice(f)
  \/ \E d \in Bds : WakeDone(d) \/ \E c \in Cmds : bsg_rq_end_io(d, c)
  \/ bsg_unregister_queue \/ bsg_register_queue \/ QueueDies

BsgSpec == BsgInit /\ [][BsgNext]_bsgVars

-----------------------------------------------------------------------------
(* Properties *)

UsersOf(d) == {f \in Files : file[f].bd = d}

\* Every open file, and every command the driver still has, has a live
\* device: the last close took it off the list first and waited for all
\* commands.  queued_cmds counts the commands being set up, busy, done or
\* being read; the references to the class device and to the queue are those
\* of its users; no request is left behind; and a close that sleeps has a
\* completion to come that wakes it.
BsgLifetime ==
  /\ \A f \in Files : file[f].bd # NoBd => bd[file[f].bd].mem = "live"
  /\ \A d \in Bds :
       /\ bd[d].mem = "free" => UsersOf(d) = {} /\ bd[d].busy = {}
       /\ bd[d].queued_cmds = Cardinality(bd[d].busy) + Len(bd[d].done) + Cardinality(Held(d))
       /\ bd[d].listed => bd[d].ref_count = Cardinality(UsersOf(d)) /\ bd[d].ref_count > 0
       /\ (\E f \in UsersOf(d) : file[f].pc = "sleep") => bd[d].busy # {} \/ waking[d] > 0
  /\ bcd.ref = Cardinality({f \in Files : file[f].pc # "closed"}) + (IF bcd.registered THEN 1 ELSE 0)
  /\ queue.refs = Cardinality({d \in Bds : bd[d].mem = "live"})
  /\ queue.held = MapThenSumSet(LAMBDA c : cmd[c], Cmds)
                  + MapThenSumSet(LAMBDA f : IF file[f].pc = "exec" THEN file[f].left ELSE 0, Files)
=============================================================================
