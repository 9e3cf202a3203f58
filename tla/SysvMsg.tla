------------------------------ MODULE SysvMsg ------------------------------
(***************************************************************************)
(* One System V message queue: msgsnd, msgrcv, msgctl(IPC_SET, IPC_RMID)   *)
(* of ipc/msg.c, with the lockless hand-off to sleeping receivers, the     *)
(* sender wait list, and the life of the RCU-managed struct msg_queue.     *)
(*                                                                         *)
(* A critical section nobody can observe half-way is one action, enabled   *)
(* when the spinlock is free.  The three stores of a hand-off (r_msg :=    *)
(* NULL, wake_up_process, r_msg := result) are seen by a receiver that     *)
(* holds no lock, so they are three actions and the waker keeps `lock`.    *)
(***************************************************************************)
EXTENDS SeqOps

CONSTANTS Tasks,      \* threads that use the queue
          Messages,   \* message identities, each sent at most once
          MType,      \* m_type of each message
          MSize,      \* m_ts of each message
          QBytes,     \* values q_qbytes may take (newque, IPC_SET)
          Modes,      \* values of q_perm.mode: sets of "r", "w"
          RcvArgs,    \* the (msgtyp, msgsz, flags) msgrcv may be called with
          LongMin,    \* LONG_MIN
          IntMax,     \* INT_MAX, at least every m_ts
          NoTask      \* no owner

\* The values r_msg can hold besides a message.
Codes == {"NULL", "EAGAIN", "E2BIG", "EIDRM"}

SearchModes == {"ANY", "LESSEQUAL", "EQUAL", "NOTEQUAL"}

Filters == [mode : SearchModes, msgtyp : Int, maxsize : Int]

ASSUME ConstantsAssumption ==
  /\ NoTask \notin Tasks
  /\ Messages \cap Codes = {}
  /\ MType \in [Messages -> Nat \ {0}]
  /\ MSize \in [Messages -> Nat]
  /\ QBytes \subseteq Nat
  /\ Modes \subseteq SUBSET {"r", "w"}
  /\ RcvArgs \subseteq [msgtyp : Int, msgsz : Nat, noerror : BOOLEAN,
                        except : BOOLEAN, nowait : BOOLEAN]
  /\ LongMin \in Int /\ LongMin < 0
  /\ IntMax \in Nat /\ \A m \in Messages : MSize[m] <= IntMax

VARIABLES
  lock,         \* q_perm.lock: the task that holds it over several steps
  rw_mutex,     \* msg_ids.rw_mutex, write side
  deleted,      \* q_perm.deleted
  q_mode,       \* q_perm.mode
  q_messages,   \* the message list
  q_cbytes, q_qnum, q_qbytes,
  msg_bytes, msg_hdrs,          \* counters of the namespace
  q_receivers,  \* receiver list, in order
  q_senders,    \* sender list; its order is never used
  refcount,     \* ipc_rcu_hdr.refcount
  mem,          \* memory of msq: "live", "grace" (call_rcu done), "freed"
  readers,      \* RCU readers the grace period waits for
  pc, tstate, sig,              \* per task: position, scheduler state, signal
  smsg,         \* per task: the message it is sending
  filter,       \* per task: r_mode, r_msgtype, r_maxsize of its msr_d
  r_msg,        \* per task: r_msg of its msr_d
  waking, handing, cursor,      \* the hand-off the lock owner is doing
  reg,          \* register of the unlocked ipc_rcu_putref of freeque
  fate          \* history: what became of each message

qvars   == <<q_messages, q_cbytes, q_qnum, msg_bytes, msg_hdrs>>
memvars == <<refcount, mem, readers, reg>>
hvars   == <<waking, handing, cursor>>
ctlvars == <<rw_mutex, deleted, q_mode, q_qbytes>>
lists   == <<q_receivers, q_senders>>
callvars == <<smsg, filter, r_msg>>
vars == <<lock, ctlvars, qvars, lists, memvars, pc, tstate, sig, callvars, hvars, fate>>

-----------------------------------------------------------------------------
(* Pure parts *)

\* -x in a long: LONG_MIN has no positive counterpart
Negate(x) == IF x = LongMin THEN LongMin ELSE -x

convert_mode(a) ==
  CASE a.msgtyp = 0 -> [mode |-> "ANY", msgtyp |-> 0]
    [] a.msgtyp < 0 -> [mode |-> "LESSEQUAL", msgtyp |-> Negate(a.msgtyp)]
    [] a.msgtyp > 0 -> [mode |-> IF a.except THEN "NOTEQUAL" ELSE "EQUAL",
                        msgtyp |-> a.msgtyp]

\* the receiver's filter, r_maxsize included: what a too long message is
FilterOf(a) ==
  LET c == convert_mode(a) IN
  [mode |-> c.mode, msgtyp |-> c.msgtyp,
   maxsize |-> IF a.noerror THEN IntMax ELSE a.msgsz]

testmsg(m, f) ==
  \/ f.mode = "ANY"
  \/ f.mode = "LESSEQUAL" /\ MType[m] <= f.msgtyp
  \/ f.mode = "EQUAL"     /\ MType[m] = f.msgtyp
  \/ f.mode = "NOTEQUAL"  /\ MType[m] # f.msgtyp

Matching(f) == {i \in 1..Len(q_messages) : testmsg(q_messages[i], f)}

\* The walk of do_msgrcv over q_messages: the first match, and for
\* SEARCH_LESSEQUAL the first one of the least type.
Walk(f) ==
  CHOOSE i \in Matching(f) : \A j \in Matching(f) :
    \/ f.mode = "LESSEQUAL" /\ MType[q_messages[i]] < MType[q_messages[j]]
    \/ /\ f.mode = "LESSEQUAL" => MType[q_messages[i]] = MType[q_messages[j]]
       /\ i <= j

Fits(m) == /\ MSize[m] + q_cbytes <= q_qbytes
           /\ 1 + q_qnum <= q_qbytes

ipcperms(access) == access \in q_mode

\* mutant: the receiver reads r_msg and takes the lock outside rcu_read_lock
InRcuLockOnly(t) == lock = t

InRcu(t) == pc[t] \in {"rcv_rcu", "rcv_lock"} \/ lock = t

-----------------------------------------------------------------------------
(* Building blocks of the actions *)

Goto(t, l) == pc' = [pc EXCEPT ![t] = l]

\* back to user space; the pending signal, if any, is taken there
Return(t) == Goto(t, "idle") /\ sig' = [sig EXCEPT ![t] = FALSE]

NoFilter == [mode |-> "ANY", msgtyp |-> 0, maxsize |-> 0]

\* a receiver returns: its msr_d on the stack is gone
RcvReturn(t) ==
  /\ Return(t)
  /\ filter' = [filter EXCEPT ![t] = NoFilter]
  /\ r_msg' = [r_msg EXCEPT ![t] = "NULL"]

\* mutants: one sender is woken; the killed senders are not woken
ss_wakeup_one(kill) ==
  LET s == CHOOSE u \in q_senders : TRUE IN
  /\ tstate' = IF q_senders = {} THEN tstate ELSE [tstate EXCEPT ![s] = "running"]
  /\ q_senders' = IF kill THEN {} ELSE q_senders

ss_wakeup_nokill(kill) ==
  /\ tstate' = [t \in Tasks |-> IF t \in q_senders /\ ~kill THEN "running" ELSE tstate[t]]
  /\ q_senders' = IF kill THEN {} ELSE q_senders

\* wake_up_process on every sender of the list; a killed sender no longer is
\* on any list
ss_wakeup(kill) ==
  /\ tstate' = [t \in Tasks |-> IF t \in q_senders THEN "running" ELSE tstate[t]]
  /\ q_senders' = IF kill THEN {} ELSE q_senders

\* r_msg := NULL; what is left to do is to wake r and store val
Answering(r, val) ==
  /\ waking' = r /\ handing' = val
  /\ r_msg' = [r_msg EXCEPT ![r] = "NULL"]

\* ipc_rcu_putref, where the decrement is not interrupted
ipc_rcu_putref ==
  /\ refcount' = refcount - 1
  /\ IF refcount - 1 > 0
     THEN UNCHANGED <<mem, readers>>
     ELSE mem' = "grace" /\ readers' = {u \in Tasks : InRcu(u)}
  /\ UNCHANGED reg

\* mutant: the message is put at the head
EnlistHead(m) ==
  /\ q_messages' = Cons(m, q_messages)
  /\ q_qnum' = q_qnum + 1 /\ q_cbytes' = q_cbytes + MSize[m]
  /\ msg_hdrs' = msg_hdrs + 1 /\ msg_bytes' = msg_bytes + MSize[m]

\* list_add_tail and the counters of the queue and of the namespace
Enlist(m) ==
  /\ q_messages' = Append(q_messages, m)
  /\ q_qnum' = q_qnum + 1 /\ q_cbytes' = q_cbytes + MSize[m]
  /\ msg_hdrs' = msg_hdrs + 1 /\ msg_bytes' = msg_bytes + MSize[m]

\* mutants: the message stays on the list; msg_hdrs forgotten
DelistKept(i) ==
  /\ UNCHANGED q_messages
  /\ q_qnum' = q_qnum - 1 /\ q_cbytes' = q_cbytes - MSize[q_messages[i]]
  /\ msg_hdrs' = msg_hdrs - 1 /\ msg_bytes' = msg_bytes - MSize[q_messages[i]]

DelistNoHdr(i) ==
  /\ q_messages' = RemoveAt(q_messages, i)
  /\ q_qnum' = q_qnum - 1 /\ q_cbytes' = q_cbytes - MSize[q_messages[i]]
  /\ msg_hdrs' = msg_hdrs /\ msg_bytes' = msg_bytes - MSize[q_messages[i]]

\* list_del and the counters
Delist(i) ==
  /\ q_messages' = RemoveAt(q_messages, i)
  /\ q_qnum' = q_qnum - 1 /\ q_cbytes' = q_cbytes - MSize[q_messages[i]]
  /\ msg_hdrs' = msg_hdrs - 1 /\ msg_bytes' = msg_bytes - MSize[q_messages[i]]

\* the kernel's copy is freed and the caller told so: nothing was sent
Refuse(m) == fate' = [fate EXCEPT ![m] = "unsent"]

-----------------------------------------------------------------------------
(* do_msgsnd *)

\* The loop of do_msgsnd from its top, entered with the spinlock held:
\* no permission, room, IPC_NOWAIT, or sleep on q_senders with a reference.
SendNoPerm(t, m) ==
  /\ ~ipcperms("w")
  /\ Refuse(m) /\ Return(t)
  /\ smsg' = [smsg EXCEPT ![t] = "NULL"]
  /\ UNCHANGED <<lock, tstate>>

SendBegin(t, m) ==
  /\ ipcperms("w") /\ Fits(m)
  /\ lock' = t /\ Goto(t, "pipelined_send")
  /\ smsg' = [smsg EXCEPT ![t] = m]
  /\ fate' = [fate EXCEPT ![m] = "kernel"]
  /\ UNCHANGED <<sig, tstate>>

SendSleep(t, m) ==
  /\ ipcperms("w") /\ ~Fits(m)
  /\ Goto(t, "snd_sleep")
  /\ smsg' = [smsg EXCEPT ![t] = m]
  /\ tstate' = [tstate EXCEPT ![t] = "sleeping"]
  /\ fate' = [fate EXCEPT ![m] = "kernel"]
  /\ UNCHANGED <<lock, sig>>

\* msgsnd called: load_msg, msg_lock_check, and the first turn of the loop.
\* A message refused with an error goes back to user space unsent, so only
\* the calls that change the state are actions.
MsgsndCall(t, m) ==
  /\ pc[t] = "idle" /\ fate[m] = "unsent" /\ lock = NoTask /\ ~deleted
  /\ \/ /\ SendBegin(t, m)
        /\ UNCHANGED <<q_senders, refcount>>
     \/ /\ SendSleep(t, m)
        /\ q_senders' = q_senders \cup {t}
        /\ refcount' = refcount + 1
  /\ UNCHANGED <<ctlvars, qvars, q_receivers, mem, readers, reg, filter, r_msg, hvars>>

\* schedule() returned: ipc_lock_by_ptr, ipc_rcu_putref, then -EIDRM, or
\* ss_del and -ERESTARTNOHAND, or the loop again.
MsgsndWake(t) ==
  /\ pc[t] = "snd_sleep" /\ tstate[t] = "running" /\ lock = NoTask
  /\ \/ /\ deleted
        /\ Refuse(smsg[t]) /\ Return(t)
        /\ smsg' = [smsg EXCEPT ![t] = "NULL"]
        /\ ipc_rcu_putref
        /\ UNCHANGED <<lock, tstate, q_senders>>
     \/ /\ ~deleted /\ sig[t]
        /\ Refuse(smsg[t]) /\ Return(t)
        /\ smsg' = [smsg EXCEPT ![t] = "NULL"]
        /\ ipc_rcu_putref
        /\ q_senders' = q_senders \ {t}
        /\ UNCHANGED <<lock, tstate>>
     \/ /\ ~deleted /\ ~sig[t]
        /\ SendNoPerm(t, smsg[t]) \/ SendBegin(t, smsg[t])
        /\ ipc_rcu_putref
        /\ q_senders' = q_senders \ {t}
     \/ /\ ~deleted /\ ~sig[t]
        /\ SendSleep(t, smsg[t])          \* putref, ss_del, ss_add, getref
        /\ UNCHANGED <<q_senders, memvars>>
  /\ UNCHANGED <<ctlvars, qvars, q_receivers, filter, r_msg, hvars>>

-----------------------------------------------------------------------------
(* pipelined_send and the hand-off to a sleeping receiver *)

Takers(m) == {i \in 1..Len(q_receivers) : testmsg(m, filter[q_receivers[i]])}

\* list_del of the first receiver whose filter matches, r_msg := NULL.
PipelinedSelect(t) ==
  /\ pc[t] = "pipelined_send" /\ Takers(smsg[t]) # {}
  /\ LET i == Min(Takers(smsg[t]))
         r == q_receivers[i]
     IN /\ q_receivers' = RemoveAt(q_receivers, i)
        /\ Answering(r, IF filter[r].maxsize < MSize[smsg[t]] THEN "E2BIG" ELSE smsg[t])
  /\ Goto(t, "wake_up")
  /\ UNCHANGED <<lock, ctlvars, qvars, q_senders, memvars, tstate, sig, smsg, filter, cursor, fate>>

\* Nobody is waiting for the message: enqueue it and unlock.
Enqueue(t) ==
  /\ pc[t] = "pipelined_send" /\ Takers(smsg[t]) = {}
  /\ Enlist(smsg[t])
  /\ smsg' = [smsg EXCEPT ![t] = "NULL"]
  /\ lock' = NoTask /\ Return(t)
  /\ UNCHANGED <<ctlvars, lists, memvars, tstate, filter, r_msg, hvars, fate>>

\* wake_up_process(msr->r_tsk)
WakeUp(t) ==
  /\ pc[t] = "wake_up"
  /\ tstate' = [tstate EXCEPT ![waking] = "running"]
  /\ Goto(t, "store")
  /\ UNCHANGED <<lock, ctlvars, qvars, lists, memvars, sig, callvars, hvars, fate>>

\* Where the hand-off came from: a sender holds its message, msgctl does not
\* and says by `handing` which command it runs.
Caller(t) == CASE smsg[t] # "NULL"    -> "pipelined_send"
               [] handing = "EIDRM"   -> "freeque"
               [] OTHER               -> "ipc_set"

\* r_msg := the message or the error.  A sender whose message was taken
\* unlocks and returns, every other caller goes on with its list walk.
Store(t) ==
  /\ pc[t] = "store"
  /\ r_msg' = [r_msg EXCEPT ![waking] = handing]
  /\ waking' = NoTask /\ handing' = "NULL" /\ UNCHANGED cursor
  /\ \/ /\ handing \in Messages
        /\ smsg' = [smsg EXCEPT ![t] = "NULL"]
        /\ lock' = NoTask /\ Return(t)
     \/ /\ handing \notin Messages
        /\ Goto(t, Caller(t))
        /\ UNCHANGED <<smsg, lock, sig>>
  /\ UNCHANGED <<ctlvars, qvars, lists, memvars, tstate, filter, fate>>

-----------------------------------------------------------------------------
(* do_msgrcv *)

\* The loop of do_msgrcv from its top, entered with the spinlock held, as far
\* as it changes the state.  ReceiveQueued unlinks the message, wakes every
\* sender and unlocks.
ReceiveQueued(t, f) ==
  /\ ipcperms("r") /\ Matching(f) # {}
  /\ LET i == Walk(f)
         m == q_messages[i]
     IN /\ MSize[m] <= f.maxsize
        /\ Delist(i)
        /\ fate' = [fate EXCEPT ![m] = "received"]
  /\ ss_wakeup(FALSE) /\ RcvReturn(t)

\* -EACCES, or -E2BIG with the message left on the queue
ReceiveError(t, f) ==
  /\ \/ ~ipcperms("r")
     \/ Matching(f) # {} /\ f.maxsize < MSize[q_messages[Walk(f)]]
  /\ RcvReturn(t)
  /\ UNCHANGED <<qvars, q_senders, tstate, fate>>

ReceiveSleep(t, f) ==
  /\ ipcperms("r") /\ Matching(f) = {}
  /\ Goto(t, "rcv_sleep")
  /\ filter' = [filter EXCEPT ![t] = f]
  /\ r_msg' = [r_msg EXCEPT ![t] = "EAGAIN"]
  /\ tstate' = [tstate EXCEPT ![t] = "sleeping"]
  /\ UNCHANGED <<qvars, q_senders, sig, fate>>

\* msgrcv called.  A call that fails leaves no trace.
MsgrcvCall(t, a) ==
  /\ pc[t] = "idle" /\ lock = NoTask /\ ~deleted
  /\ \/ ReceiveQueued(t, FilterOf(a)) /\ UNCHANGED q_receivers
     \/ /\ ~a.nowait /\ ReceiveSleep(t, FilterOf(a))
        /\ q_receivers' = Append(q_receivers, t)
  /\ UNCHANGED <<lock, ctlvars, memvars, smsg, hvars>>

\* schedule() returned: rcu_read_lock
MsgrcvWake(t) ==
  /\ pc[t] = "rcv_sleep" /\ tstate[t] = "running"
  /\ Goto(t, "rcv_rcu")
  /\ UNCHANGED <<lock, ctlvars, qvars, lists, memvars, tstate, sig, callvars, hvars, fate>>

\* Return what r_msg holds, a message or an error.
Accept(t) ==
  /\ RcvReturn(t)
  /\ fate' = IF r_msg[t] \in Messages
             THEN [fate EXCEPT ![r_msg[t]] = "received"] ELSE fate

\* Parts 2 and 3: spin while r_msg is NULL; a message or an error is
\* accepted without the lock, -EAGAIN needs it.
MsgrcvLockless(t) ==
  /\ pc[t] = "rcv_rcu" /\ r_msg[t] # "NULL"
  /\ \/ r_msg[t] # "EAGAIN" /\ Accept(t)
     \/ /\ r_msg[t] = "EAGAIN" /\ Goto(t, "rcv_lock")
        /\ UNCHANGED <<sig, filter, r_msg, fate>>
  /\ UNCHANGED <<lock, ctlvars, qvars, lists, memvars, tstate, smsg, hvars>>

\* list_del(&msr_d.r_list) by its owner
Unlink(t) ==
  \E i \in 1..Len(q_receivers) :
    q_receivers[i] = t /\ q_receivers' = RemoveAt(q_receivers, i)

\* ipc_lock_by_ptr and part 4: test r_msg again; still -EAGAIN means still on
\* the list: unlink, then -ERESTARTNOHAND or the loop again, which may sleep
\* at the tail of the list.
MsgrcvRelock(t) ==
  /\ pc[t] = "rcv_lock" /\ lock = NoTask
  /\ \/ /\ r_msg[t] # "EAGAIN" /\ Accept(t)
        /\ UNCHANGED <<q_receivers, qvars, q_senders, tstate>>
     \/ /\ r_msg[t] = "EAGAIN" /\ sig[t]
        /\ Unlink(t) /\ RcvReturn(t)
        /\ UNCHANGED <<qvars, q_senders, tstate, fate>>
     \/ /\ r_msg[t] = "EAGAIN" /\ ~sig[t]
        /\ ReceiveQueued(t, filter[t]) \/ ReceiveError(t, filter[t])
        /\ Unlink(t)
     \/ /\ r_msg[t] = "EAGAIN" /\ ~sig[t]
        /\ ReceiveSleep(t, filter[t])
        /\ \E i \in 1..Len(q_receivers) :
             q_receivers[i] = t /\ q_receivers' = Append(RemoveAt(q_receivers, i), t)
  /\ UNCHANGED <<lock, ctlvars, memvars, smsg, hvars>>

-----------------------------------------------------------------------------
(* msgctl: IPC_SET and IPC_RMID under rw_mutex *)

\* msgctl_down, ipcctl_pre_down: rw_mutex, then the spinlock of a live queue.
CtlEnter(t) ==
  /\ pc[t] = "idle" /\ rw_mutex = NoTask /\ lock = NoTask /\ ~deleted
  /\ rw_mutex' = t /\ lock' = t
  /\ cursor' = 1

IpcSet(t, bytes, mode) ==
  /\ CtlEnter(t)
  /\ q_qbytes' = bytes /\ q_mode' = mode
  /\ Goto(t, "ipc_set")
  /\ UNCHANGED <<deleted, qvars, lists, memvars, tstate, sig, callvars, waking, handing, fate>>

IpcRmid(t) ==
  /\ CtlEnter(t)
  /\ Goto(t, "freeque")
  /\ UNCHANGED <<deleted, q_mode, qvars, q_qbytes, lists, memvars, tstate, sig, callvars, waking, handing, fate>>

\* One turn of expunge_all, which leaves the receivers on the list.
expunge_all(t) ==
  /\ pc[t] \in {"freeque", "ipc_set"} /\ cursor <= Len(q_receivers)
  /\ Answering(q_receivers[cursor], IF pc[t] = "freeque" THEN "EIDRM" ELSE "EAGAIN")
  /\ cursor' = cursor + 1
  /\ Goto(t, "wake_up")
  /\ UNCHANGED <<lock, ctlvars, qvars, lists, memvars, tstate, sig, smsg, filter, fate>>

IpcSetDone(t) ==
  /\ pc[t] = "ipc_set" /\ cursor > Len(q_receivers)
  /\ ss_wakeup(FALSE)
  /\ lock' = NoTask /\ rw_mutex' = NoTask /\ Return(t)
  /\ cursor' = 0
  /\ UNCHANGED <<deleted, q_mode, qvars, q_qbytes, q_receivers, memvars, callvars, waking, handing, fate>>

\* freeque: ss_wakeup(kill), msg_rmid, msg_unlock
FreequeUnlock(t) ==
  /\ pc[t] = "freeque" /\ cursor > Len(q_receivers)
  /\ ss_wakeup(TRUE)
  /\ deleted' = TRUE /\ lock' = NoTask
  /\ cursor' = 0
  /\ Goto(t, "free_msgs")
  /\ UNCHANGED <<rw_mutex, q_mode, qvars, q_qbytes, q_receivers, memvars, sig, callvars, waking, handing, fate>>

\* The rest of freeque runs without the spinlock.
FreequeMsg(t) ==
  /\ pc[t] = "free_msgs" /\ q_messages # <<>>
  /\ msg_hdrs' = msg_hdrs - 1
  /\ fate' = [fate EXCEPT ![Head(q_messages)] = "destroyed"]
  /\ q_messages' = Tail(q_messages)
  /\ UNCHANGED <<lock, ctlvars, q_cbytes, q_qnum, msg_bytes, lists, memvars, pc, tstate, sig, callvars, hvars>>

\* atomic_sub(q_cbytes), then the load half of ipc_rcu_putref
FreequeLoad(t) ==
  /\ pc[t] = "free_msgs" /\ q_messages = <<>>
  /\ msg_bytes' = msg_bytes - q_cbytes
  /\ reg' = refcount
  /\ Goto(t, "putref")
  /\ UNCHANGED <<lock, ctlvars, q_messages, q_cbytes, q_qnum, msg_hdrs, lists, refcount, mem, readers, tstate, sig, callvars, hvars, fate>>

\* The store half: refcount is a plain int, so a decrement made by a sender
\* under the spinlock between the two halves is overwritten.
FreequePutref(t) ==
  /\ pc[t] = "putref"
  /\ refcount' = reg - 1 /\ reg' = 0
  /\ IF reg - 1 > 0
     THEN UNCHANGED <<mem, readers>>
     ELSE mem' = "grace" /\ readers' = {u \in Tasks : InRcu(u)}
  /\ rw_mutex' = NoTask /\ Return(t)
  /\ UNCHANGED <<lock, deleted, q_mode, qvars, q_qbytes, lists, tstate, callvars, hvars, fate>>

-----------------------------------------------------------------------------
(* The environment, and the specification *)

\* a signal wakes an interruptible sleeper
Signal(t) ==
  /\ pc[t] \in {"snd_sleep", "rcv_sleep", "rcv_rcu", "rcv_lock"} /\ ~sig[t]
  /\ sig' = [sig EXCEPT ![t] = TRUE] /\ tstate' = [tstate EXCEPT ![t] = "running"]
  /\ UNCHANGED <<lock, ctlvars, qvars, lists, memvars, pc, callvars, hvars, fate>>

\* The end of the grace period: every reader of the time of call_rcu has left
\* its read-side section.  None re-enters one, the queue being deleted.
GracePeriod ==
  /\ mem = "grace" /\ \A u \in readers : ~InRcu(u)
  /\ mem' = "freed" /\ readers' = {}
  /\ UNCHANGED <<lock, ctlvars, qvars, lists, refcount, reg, pc, tstate, sig, callvars, hvars, fate>>

\* A queue newque has just published.
Init ==
  /\ lock = NoTask /\ rw_mutex = NoTask /\ deleted = FALSE
  /\ q_mode \in Modes /\ q_qbytes \in QBytes
  /\ q_messages = <<>> /\ q_cbytes = 0 /\ q_qnum = 0
  /\ msg_bytes = 0 /\ msg_hdrs = 0
  /\ q_receivers = <<>> /\ q_senders = {}
  /\ refcount = 1 /\ mem = "live" /\ readers = {} /\ reg = 0
  /\ pc = [t \in Tasks |-> "idle"]
  /\ tstate = [t \in Tasks |-> "running"]
  /\ sig = [t \in Tasks |-> FALSE]
  /\ smsg = [t \in Tasks |-> "NULL"]
  /\ filter = [t \in Tasks |-> NoFilter]
  /\ r_msg = [t \in Tasks |-> "NULL"]
  /\ waking = NoTask /\ handing = "NULL" /\ cursor = 0
  /\ fate = [m \in Messages |-> "unsent"]

\* the steps a task takes on its own once it is inside a system call
Inside(t) ==
  \/ MsgsndWake(t) \/ PipelinedSelect(t) \/ Enqueue(t) \/ WakeUp(t) \/ Store(t)
  \/ MsgrcvWake(t) \/ MsgrcvLockless(t) \/ MsgrcvRelock(t)
  \/ expunge_all(t) \/ IpcSetDone(t)
  \/ FreequeUnlock(t) \/ FreequeMsg(t) \/ FreequeLoad(t) \/ FreequePutref(t)

Call(t) ==
  \/ \E m \in Messages : MsgsndCall(t, m)
  \/ \E a \in RcvArgs : MsgrcvCall(t, a)
  \/ \E b \in QBytes, p \in Modes : IpcSet(t, b, p)
  \/ IpcRmid(t)

Next == GracePeriod \/ \E t \in Tasks : Inside(t) \/ Call(t) \/ Signal(t)

Spec == Init /\ [][Next]_vars

\* The scheduler runs every runnable task, grace periods end, and a task that
\* waits for the spinlock gets it (the lock is a fair, ticket spinlock).
Fairness ==
  /\ WF_vars(GracePeriod)
  /\ \A t \in Tasks : /\ WF_vars(Inside(t))
                      /\ SF_vars(MsgsndWake(t)) /\ SF_vars(MsgrcvRelock(t))

FairSpec == Spec /\ Fairness

-----------------------------------------------------------------------------
(* Properties *)

Waiting == {"rcv_sleep", "rcv_rcu", "rcv_lock"}
Labels == {"idle", "snd_sleep", "pipelined_send", "wake_up", "store", "freeque",
           "ipc_set", "free_msgs", "putref"} \cup Waiting

\* Every variable has its type; in particular no counter goes below zero.
TypeOK ==
  /\ lock \in Tasks \cup {NoTask} /\ rw_mutex \in Tasks \cup {NoTask}
  /\ deleted \in BOOLEAN /\ q_mode \in SUBSET {"r", "w"}
  /\ q_messages \in Seq(Messages)
  /\ q_cbytes \in Nat /\ q_qnum \in Nat /\ q_qbytes \in Nat
  /\ msg_bytes \in Nat /\ msg_hdrs \in Nat
  /\ q_receivers \in Seq(Tasks) /\ q_senders \in SUBSET Tasks
  /\ refcount \in Nat /\ mem \in {"live", "grace", "freed"}
  /\ readers \in SUBSET Tasks /\ reg \in Nat
  /\ pc \in [Tasks -> Labels] /\ tstate \in [Tasks -> {"running", "sleeping"}]
  /\ sig \in [Tasks -> BOOLEAN]
  /\ smsg \in [Tasks -> Messages \cup {"NULL"}]
  /\ filter \in [Tasks -> Filters] /\ r_msg \in [Tasks -> Messages \cup Codes]
  /\ waking \in Tasks \cup {NoTask} /\ handing \in Messages \cup Codes
  /\ cursor \in Nat
  /\ fate \in [Messages -> {"unsent", "kernel", "received", "destroyed"}]

\* Everything that points to a message: its sender, the queue, a receiver.
HeldBy(m) == {<<"smsg", t>> : t \in {u \in Tasks : smsg[u] = m}}
       \cup {<<"queue", i>> : i \in {j \in 1..Len(q_messages) : q_messages[j] = m}}
       \cup {<<"r_msg", t>> : t \in {u \in Tasks : r_msg[u] = m}}

\* A message inside the kernel has exactly one holder, one outside has none:
\* pipelined_send, enqueueing, receiving, -EIDRM, signals and freeque neither
\* duplicate a message nor lose one.
Conservation ==
  \A m \in Messages :
    /\ fate[m] = "kernel" <=> HeldBy(m) # {}
    /\ \A x, y \in HeldBy(m) : x = y

\* n is the last of the running totals of the sizes of the list
Totals(list, n) ==
  \E c \in [0..Len(list) -> 0..n] :
    /\ c[0] = 0 /\ c[Len(list)] = n
    /\ \A i \in 1..Len(list) : c[i] = c[i - 1] + MSize[list[i]]

\* The counters the code keeps apart agree with the list: q_qnum and q_cbytes
\* while the queue lives, the namespace's msg_hdrs and msg_bytes at all times,
\* down to zero once freeque is through; and the state is well typed.
Accounting ==
  /\ TypeOK
  /\ msg_hdrs = Len(q_messages)
  /\ ~deleted => q_qnum = Len(q_messages) /\ Totals(q_messages, q_cbytes)
  /\ msg_bytes = IF deleted /\ (\A t \in Tasks : pc[t] # "free_msgs") THEN 0 ELSE q_cbytes

\* With the spinlock free nobody sleeps who should not.  A sleeping sender is
\* listed, its queue is alive and its message does not fit (ss_wakeup); a
\* sleeping receiver is listed, alive and unanswered (expunge_all,
\* pipelined_send); and no message lies queued that a listed receiver, asleep
\* or just woken, is waiting for.
NoLostWakeup ==
  lock = NoTask =>
    /\ \A t \in Tasks : tstate[t] = "sleeping" =>
         /\ ~deleted
         /\ pc[t] = "snd_sleep" => t \in q_senders /\ ~Fits(smsg[t])
         /\ pc[t] = "rcv_sleep" => r_msg[t] = "EAGAIN" /\ Contains(q_receivers, t)
    /\ ~deleted => \A i \in 1..Len(q_receivers) : Matching(filter[q_receivers[i]]) = {}

\* Nobody touches what is gone.  wake_up_process and the final store of r_msg
\* go to a receiver that is still inside msgrcv, its msr_d still on its stack:
\* the reason for storing NULL first and the result last.  The list of a live
\* queue holds exactly the unanswered receivers, each once, and what a list
\* walk still has to visit is the msr_d of a task inside msgrcv: only entries
\* that expunge_all(-EIDRM) is past may be stale.  And no task is about to
\* touch a freed msq: not the lock owner, not a sleeping sender (it has a
\* reference), not freeque, and not a receiver that holds none and relies on
\* RCU and on r_msg.
NoUseAfterFree ==
  /\ \A t \in Tasks : pc[t] \in {"wake_up", "store"} =>
       /\ lock = t
       /\ waking \in Tasks /\ pc[waking] \in Waiting
  /\ ~deleted =>
       /\ IsInjective(q_receivers)
       /\ \A i \in 1..Len(q_receivers) : i >= cursor => pc[q_receivers[i]] \in Waiting
       /\ lock = NoTask => \A t \in Tasks :
            Contains(q_receivers, t) <=> pc[t] \in Waiting /\ r_msg[t] = "EAGAIN"
  /\ mem = "freed" =>
       /\ lock = NoTask
       /\ \A t \in Tasks : pc[t] \in {"idle", "rcv_sleep", "rcv_rcu"} /\ r_msg[t] # "EAGAIN"

\* the messages of m's type ahead of m on the list, or all if m is not on it
Ahead(m, list) ==
  {list[i] : i \in {j \in 1..Len(list) : MType[list[j]] = MType[m] /\ \A k \in 1..j : list[k] # m}}

\* this step gives m to a receiver, from the queue or by pipelined_send
Delivered(m) == \/ Contains(q_messages, m) /\ fate'[m] = "received"
                \/ \E t \in Tasks : r_msg[t] # m /\ r_msg'[t] = m

\* what a step may do to the order of a live queue's messages
KeepsOrder ==
  ~deleted => \A m \in Messages :
    /\ Delivered(m) => Ahead(m, q_messages) = {}
    /\ Contains(q_messages, m) /\ Contains(q_messages', m) =>
         Ahead(m, q_messages') \subseteq Ahead(m, q_messages)

\* Messages of one type are received in the order they were sent: nobody gets
\* ahead of a queued message, and none is delivered, off the queue or handed
\* over directly, while an older one of its type is still queued.
OrderPerType == [][KeepsOrder]_vars

\* After IPC_RMID everybody leaves: blocked senders, receivers, freeque.
RmidReleasesAll == deleted ~> \A t \in Tasks : pc[t] = "idle"

\* alloc.h: "the putref that reaches zero schedules destruction": with
\* freeque through and no sender holding a reference, msq is on its way out.
ReleasedWhenUnreferenced ==
  deleted /\ (\A t \in Tasks : pc[t] \notin {"snd_sleep", "free_msgs", "putref"})
    => mem # "live"

=============================================================================
