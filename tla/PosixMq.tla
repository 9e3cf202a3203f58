------------------------------ MODULE PosixMq ------------------------------
(***************************************************************************)
(* One POSIX message queue of ipc/mqueue.c: mq_timedsend, mq_timedreceive, *)
(* mq_notify, opening, closing, unlinking and the final eviction, with     *)
(* waiters that are served by pipelined_send and pipelined_receive and     *)
(* leave without the queue lock (STATE_NONE, STATE_PENDING, STATE_READY).  *)
(***************************************************************************)
EXTENDS SeqOps

CONSTANTS Tasks,        \* threads, each with a descriptor of its own
          Messages, Prio,       \* messages and their m_type
          MaxMsg,       \* attr.mq_maxmsg
          StaticPrio,   \* static_prio of each task, small is important
          None

SR == {"SEND", "RECV"}

ASSUME MqAssumption ==
  /\ None \notin Tasks \cup Messages \cup SR
  /\ Prio \in [Messages -> Nat]
  /\ MaxMsg \in Nat \ {0}
  /\ StaticPrio \in [Tasks -> Nat]

VARIABLES
  lock,          \* info->lock: the task that holds it over several steps
  messages,      \* info->messages[0 .. mq_curmsgs - 1], best message last
  e_wait_q,      \* the two wait lists, first to be served last
  notify_owner,
  opened, linked,               \* descriptors; the name in the directory
  evicted,       \* mqueue_evict_inode has run
  pc, tstate, sig, expired,     \* per task: position, scheduler state, signal, timer
  role, state, msg,             \* per task: which list, wait.state, wait.msg
  waking,        \* the waiter the lock owner is serving
  fate,          \* history: what became of each message
  nonempty       \* history: the queue has not been empty since mq_notify

tvars == <<pc, tstate, sig, expired>>
wvars == <<e_wait_q, role, state, msg>>
fvars == <<opened, linked, evicted>>
nvars == <<notify_owner, nonempty>>
vars == <<lock, messages, wvars, nvars, fvars, tvars, waking, fate>>

-----------------------------------------------------------------------------
\* msg_insert: above every message of smaller m_type, below its equals
Inserted(q, m) ==
  LET k == Max({0} \cup {i \in 1..Len(q) : Prio[q[i]] < Prio[m]})
  IN  InsertAt(q, k + 1, m)

\* wq_add: in front of the first waiter that is at least as important
wq_add(q, t) ==
  LET eq == {i \in 1..Len(q) : StaticPrio[q[i]] <= StaticPrio[t]}
  IN  IF eq = {} THEN Append(q, t) ELSE InsertAt(q, Min(eq), t)

\* list_del: q without waiter w
Delisted(q, w) ==
  LET at == {i \in 1..Len(q) : q[i] = w}
  IN  IF at = {} THEN q ELSE RemoveAt(q, Min(at))

wq_get_first_waiter(sr) == Last(e_wait_q[sr])

Goto(t, l) == pc' = [pc EXCEPT ![t] = l]

\* The call returns; the pending signal is taken on the way to user space.
Return(t) ==
  /\ Goto(t, "idle")
  /\ sig' = [sig EXCEPT ![t] = FALSE] /\ expired' = [expired EXCEPT ![t] = FALSE]

\* the task's ext_wait_queue, on its stack, is gone
Forget(t) ==
  /\ role' = [role EXCEPT ![t] = None] /\ state' = [state EXCEPT ![t] = "NONE"]
  /\ msg' = [msg EXCEPT ![t] = None]

\* history of the notification: owner o, messages q
Noted(o, q) ==
  /\ notify_owner' = o
  /\ nonempty' = (o # None /\ q # <<>> /\ (nonempty \/ notify_owner # o))

\* wq_sleep up to schedule: on the list, unlocked
Sleep(t, sr, m) ==
  /\ e_wait_q' = [e_wait_q EXCEPT ![sr] = wq_add(@, t)]
  /\ role' = [role EXCEPT ![t] = sr] /\ state' = [state EXCEPT ![t] = "NONE"]
  /\ msg' = [msg EXCEPT ![t] = m]
  /\ Goto(t, "sleep") /\ tstate' = [tstate EXCEPT ![t] = "sleeping"]
  /\ UNCHANGED <<lock, messages, nvars, sig, expired, waking>>

\* mutant: the waiter served is left on the list
ServeLinked(t, w, m) ==
  /\ lock' = t /\ waking' = w /\ Goto(t, "wake")
  /\ UNCHANGED e_wait_q
  /\ state' = [state EXCEPT ![w] = "PENDING"] /\ msg' = [msg EXCEPT ![w] = m]
  /\ UNCHANGED <<role, tstate, sig, expired>>

\* list_del of a waiter and STATE_PENDING; the wake-up and STATE_READY follow
Serve(t, w, m) ==
  /\ lock' = t /\ waking' = w /\ Goto(t, "wake")
  /\ e_wait_q' = [e_wait_q EXCEPT ![role[w]] = Delisted(@, w)]
  /\ state' = [state EXCEPT ![w] = "PENDING"] /\ msg' = [msg EXCEPT ![w] = m]
  /\ UNCHANGED <<role, tstate, sig, expired>>

-----------------------------------------------------------------------------
(* mq_timedsend, mq_timedreceive.  Calls refused with -EAGAIN (O_NONBLOCK) *)
(* or an argument error change nothing.                                    *)

Enter(t) == pc[t] = "idle" /\ t \in opened /\ lock = None

Full == Len(messages) = MaxMsg

\* the queue is full: sleep
SendFull(t, m) ==
  /\ Enter(t) /\ fate[m] = "unsent" /\ Full
  /\ Sleep(t, "SEND", m)
  /\ fate' = [fate EXCEPT ![m] = "kernel"]
  /\ UNCHANGED fvars

\* a receiver waits: pipelined_send
SendHandOver(t, m) ==
  /\ Enter(t) /\ fate[m] = "unsent" /\ ~Full
  /\ e_wait_q["RECV"] # <<>>
  /\ Serve(t, wq_get_first_waiter("RECV"), m)
  /\ fate' = [fate EXCEPT ![m] = "kernel"]
  /\ UNCHANGED <<messages, nvars, fvars>>

\* mutant of NotifiedOwner: the notification waits for a second message
NotifiedOwnerLate(q) == IF Len(q) = 2 THEN None ELSE notify_owner

\* __do_notify: the first message of an empty queue uses up the registration
NotifiedOwner(q) == IF Len(q) = 1 THEN None ELSE notify_owner

\* nobody waits: msg_insert and __do_notify
SendInsert(t, m) ==
  /\ Enter(t) /\ fate[m] = "unsent" /\ ~Full
  /\ e_wait_q["RECV"] = <<>>
  /\ messages' = Inserted(messages, m)
  /\ Noted(NotifiedOwner(messages'), messages')
  /\ fate' = [fate EXCEPT ![m] = "kernel"]
  /\ UNCHANGED <<lock, wvars, fvars, tvars, waking>>

ReceiveEmpty(t) ==
  /\ Enter(t) /\ messages = <<>>
  /\ Sleep(t, "RECV", None)
  /\ UNCHANGED <<fvars, fate>>

\* msg_get, and pipelined_receive when a sender waits: its message goes into
\* the free place
ReceiveQueued(t) ==
  /\ Enter(t) /\ messages # <<>>
  /\ fate' = [fate EXCEPT ![Last(messages)] = "received"]
  /\ IF e_wait_q["SEND"] = <<>>
     THEN /\ messages' = Front(messages)
          /\ UNCHANGED <<lock, wvars, tvars, waking>>
     ELSE LET s == wq_get_first_waiter("SEND") IN
          /\ messages' = Inserted(Front(messages), msg[s])
          /\ Serve(t, s, msg[s])
  /\ Noted(notify_owner, messages')
  /\ UNCHANGED fvars

\* wake_up_process on the served waiter
WakeUp(t) ==
  /\ pc[t] = "wake"
  /\ tstate' = [tstate EXCEPT ![waking] = "running"]
  /\ Goto(t, "ready")
  /\ UNCHANGED <<lock, messages, wvars, nvars, fvars, sig, expired, waking, fate>>

\* STATE_READY, unlock and return
Ready(t) ==
  /\ pc[t] = "ready"
  /\ state' = [state EXCEPT ![waking] = "READY"]
  /\ lock' = None /\ waking' = None /\ Return(t)
  /\ UNCHANGED <<messages, e_wait_q, role, msg, nvars, fvars, tstate, fate>>

-----------------------------------------------------------------------------
(* wq_sleep after schedule *)

Scheduled(t) ==
  /\ pc[t] = "sleep" /\ tstate[t] = "running"
  /\ Goto(t, "check")
  /\ UNCHANGED <<lock, messages, wvars, nvars, fvars, tstate, sig, expired, waking, fate>>

\* Served: a receiver has its message, a sender's message is in the queue.
Success(t) ==
  /\ Return(t) /\ Forget(t)
  /\ fate' = IF role[t] = "RECV" THEN [fate EXCEPT ![msg[t]] = "received"] ELSE fate

\* spin while STATE_PENDING; STATE_READY leaves without the lock
CheckLockless(t) ==
  /\ pc[t] = "check" /\ state[t] # "PENDING"
  /\ \/ state[t] = "READY" /\ Success(t)
     \/ state[t] = "NONE" /\ Goto(t, "relock") /\ UNCHANGED <<sig, expired, role, state, msg, fate>>
  /\ UNCHANGED <<lock, messages, e_wait_q, nvars, fvars, tstate, waking>>

\* -ERESTARTSYS or -ETIMEDOUT: off the list; a sender frees its message
Fail(t) ==
  /\ e_wait_q' = [e_wait_q EXCEPT ![role[t]] = Delisted(@, t)]
  /\ Return(t) /\ Forget(t)
  /\ fate' = IF role[t] = "SEND" THEN [fate EXCEPT ![msg[t]] = "unsent"] ELSE fate

\* mutant: the state is not tested again under the lock
RelockBlind(t) ==
  /\ pc[t] = "relock" /\ lock = None
  /\ \/ (sig[t] \/ expired[t]) /\ Fail(t) /\ UNCHANGED tstate
     \/ /\ ~sig[t] /\ ~expired[t]
        /\ Goto(t, "sleep") /\ tstate' = [tstate EXCEPT ![t] = "sleeping"]
        /\ UNCHANGED <<wvars, sig, expired, fate>>
  /\ UNCHANGED <<lock, messages, nvars, fvars, waking>>

\* With the lock: test the state again, then signal, then timer; else sleep
\* on, in the same place of the list.
Relock(t) ==
  /\ pc[t] = "relock" /\ lock = None
  /\ \/ state[t] = "READY" /\ Success(t) /\ UNCHANGED <<e_wait_q, tstate>>
     \/ state[t] # "READY" /\ (sig[t] \/ expired[t]) /\ Fail(t) /\ UNCHANGED tstate
     \/ /\ state[t] # "READY" /\ ~sig[t] /\ ~expired[t]
        /\ Goto(t, "sleep") /\ tstate' = [tstate EXCEPT ![t] = "sleeping"]
        /\ UNCHANGED <<wvars, sig, expired, fate>>
  /\ UNCHANGED <<lock, messages, nvars, fvars, waking>>

-----------------------------------------------------------------------------
(* mq_notify, mq_open, mq_close, mq_unlink *)

\* refused with -EBUSY while somebody is registered
NotifyRegister(t) ==
  /\ Enter(t) /\ notify_owner = None
  /\ Noted(t, messages)
  /\ UNCHANGED <<lock, messages, wvars, fvars, tvars, waking, fate>>

\* remove_notification; a no-op for anybody but the owner
NotifyRemove(t) ==
  /\ Enter(t) /\ notify_owner = t
  /\ Noted(None, messages)
  /\ UNCHANGED <<lock, messages, wvars, fvars, tvars, waking, fate>>

Open(t) ==
  /\ pc[t] = "idle" /\ linked /\ t \notin opened
  /\ opened' = opened \cup {t}
  /\ UNCHANGED <<lock, messages, wvars, nvars, linked, evicted, tvars, waking, fate>>

\* the last reference to the inode: mqueue_evict_inode frees the messages
PutInode ==
  /\ evicted' = (opened' = {} /\ ~linked')
  /\ IF evicted'
     THEN /\ fate' = [m \in Messages |-> IF Contains(messages, m) THEN "destroyed" ELSE fate[m]]
          /\ messages' = <<>>
     ELSE UNCHANGED <<fate, messages>>

\* mqueue_flush_file, then the reference of the descriptor
Close(t) ==
  /\ Enter(t)
  /\ opened' = opened \ {t} /\ UNCHANGED linked
  /\ PutInode
  /\ Noted(IF notify_owner = t THEN None ELSE notify_owner, messages)
  /\ UNCHANGED <<lock, wvars, tvars, waking>>

Unlink(t) ==
  /\ pc[t] = "idle" /\ linked
  /\ linked' = FALSE /\ UNCHANGED opened
  /\ PutInode
  /\ UNCHANGED <<lock, wvars, nvars, tvars, waking>>

-----------------------------------------------------------------------------
Signal(t) ==
  /\ pc[t] \in {"sleep", "check", "relock"} /\ ~sig[t]
  /\ sig' = [sig EXCEPT ![t] = TRUE] /\ tstate' = [tstate EXCEPT ![t] = "running"]
  /\ UNCHANGED <<lock, messages, wvars, nvars, fvars, pc, expired, waking, fate>>

\* the hrtimer of a sleeper with a timeout fires
Timeout(t) ==
  /\ pc[t] = "sleep" /\ tstate[t] = "sleeping"
  /\ expired' = [expired EXCEPT ![t] = TRUE] /\ tstate' = [tstate EXCEPT ![t] = "running"]
  /\ UNCHANGED <<lock, messages, wvars, nvars, fvars, pc, sig, waking, fate>>

Init ==
  /\ lock = None /\ messages = <<>> /\ e_wait_q = [sr \in SR |-> <<>>]
  /\ notify_owner = None /\ nonempty = FALSE
  /\ opened = Tasks /\ linked = TRUE /\ evicted = FALSE
  /\ pc = [t \in Tasks |-> "idle"] /\ tstate = [t \in Tasks |-> "running"]
  /\ sig = [t \in Tasks |-> FALSE] /\ expired = [t \in Tasks |-> FALSE]
  /\ role = [t \in Tasks |-> None] /\ state = [t \in Tasks |-> "NONE"]
  /\ msg = [t \in Tasks |-> None] /\ waking = None
  /\ fate = [m \in Messages |-> "unsent"]

Inside(t) == WakeUp(t) \/ Ready(t) \/ Scheduled(t) \/ CheckLockless(t) \/ Relock(t)

Call(t) ==
  \/ \E m \in Messages : SendFull(t, m) \/ SendHandOver(t, m) \/ SendInsert(t, m)
  \/ ReceiveEmpty(t) \/ ReceiveQueued(t)
  \/ NotifyRegister(t) \/ NotifyRemove(t) \/ Open(t) \/ Close(t) \/ Unlink(t)

Next == \E t \in Tasks : Inside(t) \/ Call(t) \/ Signal(t) \/ Timeout(t)

Spec == Init /\ [][Next]_vars

-----------------------------------------------------------------------------
(* Properties *)

Asleep == {"sleep", "check", "relock"}

\* Every variable has its type; the message array never overflows.
MqTypeOK ==
  /\ lock \in Tasks \cup {None} /\ waking \in Tasks \cup {None}
  /\ messages \in Seq(Messages) /\ Len(messages) <= MaxMsg
  /\ e_wait_q \in [SR -> Seq(Tasks)]
  /\ notify_owner \in Tasks \cup {None} /\ nonempty \in BOOLEAN
  /\ opened \in SUBSET Tasks /\ linked \in BOOLEAN /\ evicted \in BOOLEAN
  /\ pc \in [Tasks -> {"idle", "wake", "ready"} \cup Asleep]
  /\ tstate \in [Tasks -> {"running", "sleeping"}]
  /\ sig \in [Tasks -> BOOLEAN] /\ expired \in [Tasks -> BOOLEAN]
  /\ role \in [Tasks -> SR \cup {None}]
  /\ state \in [Tasks -> {"NONE", "PENDING", "READY"}]
  /\ msg \in [Tasks -> Messages \cup {None}]
  /\ fate \in [Messages -> {"unsent", "kernel", "received", "destroyed"}]

\* Receivers wait only on an empty queue and senders only on a full one, so
\* nobody is left behind by a message or a place that came free; the lists
\* hold exactly the unserved waiters, least important first; and the waker
\* touches only the stack of a task that is still inside wq_sleep.  The state
\* is well typed, and the message array never overflows.
MqWaiters ==
  /\ MqTypeOK
  /\ \A t \in Tasks : pc[t] \in {"wake", "ready"} =>
       lock = t /\ pc[waking] \in Asleep /\ state[waking] = "PENDING"
  /\ lock = None =>
       /\ e_wait_q["RECV"] # <<>> => messages = <<>>
       /\ e_wait_q["SEND"] # <<>> => Len(messages) = MaxMsg
  /\ \A sr \in SR :
       /\ IsInjective(e_wait_q[sr])
       /\ \A t \in Tasks : Contains(e_wait_q[sr], t) <=>
            pc[t] \in Asleep /\ role[t] = sr /\ state[t] = "NONE"
       /\ \A i, j \in 1..Len(e_wait_q[sr]) : i < j =>
            StaticPrio[e_wait_q[sr][i]] >= StaticPrio[e_wait_q[sr][j]]

\* While somebody is registered, a message that came into the empty queue
\* cannot lie there unannounced: the queue has held messages without a break
\* since before the registration.
NotifyNotMissed == notify_owner # None /\ messages # <<>> => nonempty

=============================================================================
