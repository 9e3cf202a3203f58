----------------------------- MODULE PrioQueue -----------------------------
(***************************************************************************)
(* What a POSIX message queue promises: an atomic bounded queue that hands *)
(* out the message of highest priority, oldest first, each at most once,   *)
(* and that lives, with its messages, as long as somebody can refer to it. *)
(***************************************************************************)
EXTENDS Naturals, Sequences

CONSTANTS Messages, Prio, Capacity,
          Users, Name   \* who may hold the queue open; its name

VARIABLES queue,    \* the messages inside, in the order they will be received
          place,    \* where each message is: "out", "in", "taken", "lost"
          refs      \* the users that have it open, and Name while it has one

avars == <<queue, place, refs>>

\* r is q with m put in behind every message of the same or a higher priority
Inserted(q, m, r) ==
  \E k \in 0..Len(q) :
    /\ \A i \in 1..Len(q) : i <= k <=> Prio[q[i]] >= Prio[m]
    /\ r = SubSeq(q, 1, k) \o <<m>> \o SubSeq(q, k + 1, Len(q))

AInit == /\ queue = <<>> /\ place = [m \in Messages |-> "out"]
         /\ Name \in refs

Put(m) == /\ place[m] = "out" /\ Len(queue) < Capacity
          /\ Inserted(queue, m, queue')
          /\ place' = [place EXCEPT ![m] = "in"]

Take == /\ queue # <<>>
        /\ queue' = Tail(queue)
        /\ place' = [place EXCEPT ![Head(queue)] = "taken"]

\* put into an empty queue and taken from it at once
Pass(m) == /\ place[m] = "out" /\ queue = <<>>
           /\ place' = [place EXCEPT ![m] = "taken"]
           /\ UNCHANGED queue

\* a taken message makes room for one that could not be put
Swap(m) == /\ place[m] = "out" /\ Len(queue) = Capacity
           /\ Inserted(Tail(queue), m, queue')
           /\ place' = [place EXCEPT ![m] = "in", ![Head(queue)] = "taken"]

\* opened by its name
Gain(x) == /\ Name \in refs /\ refs' = refs \cup {x}
           /\ UNCHANGED <<queue, place>>

\* closed or unlinked: the last reference takes the queue and what is in it
Drop(x) == /\ x \in refs /\ refs' = refs \ {x}
           /\ IF refs' = {}
              THEN /\ queue' = <<>>
                   /\ place' = [m \in Messages |-> IF place[m] = "in" THEN "lost" ELSE place[m]]
              ELSE UNCHANGED <<queue, place>>

Use == refs # {} /\ UNCHANGED refs /\ (Take \/ \E m \in Messages : Put(m) \/ Pass(m) \/ Swap(m))

ANext == Use \/ (\E x \in Users : Gain(x)) \/ (\E x \in Users \cup {Name} : Drop(x))

ASpec == AInit /\ [][ANext]_avars

=============================================================================
