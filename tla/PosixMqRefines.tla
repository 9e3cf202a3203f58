--------------------------- MODULE PosixMqRefines ---------------------------
(***************************************************************************)
(* A POSIX message queue as its users see it: PosixMq implements the       *)
(* atomic priority queue of PrioQueue.                                     *)
(***************************************************************************)
EXTENDS PosixMq

\* The place of a message as a user of the queue sees it: a sleeping sender's
\* message is still outside, one handed to a receiver is taken.
PlaceOf(m) ==
  CASE fate[m] = "unsent"    -> "out"
    [] fate[m] = "received"  -> "taken"
    [] fate[m] = "destroyed" -> "lost"
    [] fate[m] = "kernel"    ->
         IF Contains(messages, m) THEN "in"
         ELSE IF \E t \in Tasks : msg[t] = m /\ role[t] = "RECV" THEN "taken" ELSE "out"

\* who keeps the inode: the descriptors and the name in the directory
Refs == opened \cup (IF linked THEN {None} ELSE {})

Abstract == INSTANCE PrioQueue WITH
  Capacity <- MaxMsg, Users <- Tasks, Name <- None,
  queue <- Reverse(messages), place <- [m \in Messages |-> PlaceOf(m)], refs <- Refs

\* Hand-overs, pipelined inserts, signals and timeouts racing with a served
\* waiter, closing and unlinking: the whole is an atomic bounded priority
\* queue that neither loses, duplicates nor reorders a message, and that is
\* evicted, with what is in it, by whoever gives up the last reference and
\* not before.
ImplementsPrioQueue == Abstract!ASpec

=============================================================================
