---------------------------- MODULE SysvMsgSteps ----------------------------
(***************************************************************************)
(* Every step of SysvMsg preserves the invariant of the hand-off, of the   *)
(* sleepers and of the list of receivers.                                  *)
(***************************************************************************)
EXTENDS SysvMsgInv

\* the provers tried, in this order, on a step that names none
USE ZenonT(30), SMTT(30)

\* What msgrcv does under the lock, in the call and after a sleep.
LEMMA ReceiveEffect ==
  ASSUME NEW t \in Tasks, MsgrcvRelock(t) \/ \E a \in RcvArgs : MsgrcvCall(t, a)
  PROVE  /\ pc[t] \in {"idle", "rcv_lock"} /\ lock = NoTask
         /\ UNCHANGED <<lock, rw_mutex, deleted, q_qbytes, q_senders, smsg, waking, handing, cursor>>
         /\ \/ /\ pc' = [pc EXCEPT ![t] = "idle"] /\ r_msg' = [r_msg EXCEPT ![t] = "NULL"]
               /\ \/ UNCHANGED <<q_cbytes, q_qnum, tstate>>
                  \/ tstate' = [u \in Tasks |-> IF u \in q_senders THEN "running" ELSE tstate[u]]
            \/ /\ pc' = [pc EXCEPT ![t] = "rcv_sleep"] /\ r_msg' = [r_msg EXCEPT ![t] = "EAGAIN"]
               /\ tstate' = [tstate EXCEPT ![t] = "sleeping"] /\ UNCHANGED <<q_cbytes, q_qnum>>
<1> DEFINE Woken == [u \in Tasks |-> IF u \in q_senders THEN "running" ELSE tstate[u]]
           Left == pc' = [pc EXCEPT ![t] = "idle"] /\ r_msg' = [r_msg EXCEPT ![t] = "NULL"]
<1>1. RcvReturn(t) => Left
  BY DEF RcvReturn, Return, Goto
<1>2. ASSUME NEW f, ReceiveQueued(t, f) PROVE RcvReturn(t) /\ UNCHANGED q_senders /\ tstate' = Woken
  BY <1>2 DEF ReceiveQueued, ss_wakeup
<1>3. ASSUME NEW f, ReceiveError(t, f)
      PROVE  RcvReturn(t) /\ UNCHANGED <<q_senders, tstate, q_cbytes, q_qnum>>
  BY <1>3 DEF ReceiveError, qvars
<1>4. ASSUME NEW f, ReceiveSleep(t, f)
      PROVE  /\ pc' = [pc EXCEPT ![t] = "rcv_sleep"] /\ r_msg' = [r_msg EXCEPT ![t] = "EAGAIN"]
             /\ tstate' = [tstate EXCEPT ![t] = "sleeping"] /\ UNCHANGED <<q_senders, q_cbytes, q_qnum>>
  BY <1>4 DEF ReceiveSleep, Goto, qvars
<1>5. CASE MsgrcvRelock(t)
  <2>1. /\ pc[t] = "rcv_lock" /\ lock = NoTask
        /\ UNCHANGED <<lock, rw_mutex, deleted, q_qbytes, smsg, waking, handing, cursor>>
    BY <1>5 DEF MsgrcvRelock, ctlvars, hvars
  <2>2. \/ RcvReturn(t) /\ UNCHANGED <<q_senders, tstate, q_cbytes, q_qnum>>
        \/ ReceiveQueued(t, filter[t]) \/ ReceiveError(t, filter[t]) \/ ReceiveSleep(t, filter[t])
    BY <1>5 DEF MsgrcvRelock, Accept, qvars
  <2> QED BY <1>1, <1>2, <1>3, <1>4, <2>1, <2>2
<1>6. ASSUME NEW a \in RcvArgs, MsgrcvCall(t, a)
      PROVE  /\ pc[t] = "idle" /\ lock = NoTask
             /\ UNCHANGED <<lock, rw_mutex, deleted, q_qbytes, smsg, waking, handing, cursor>>
             /\ ReceiveQueued(t, FilterOf(a)) \/ ReceiveSleep(t, FilterOf(a))
  BY <1>6 DEF MsgrcvCall, ctlvars, hvars
<1> QED BY <1>1, <1>2, <1>4, <1>5, <1>6

\* A hand-off is for one waiting receiver; a message goes to a receiver that
\* wants it and for which nothing is queued.
LEMMA AnswerStep == ASSUME IInv, [Next]_vars PROVE AnswerInv'
<1>0. /\ TypeOK /\ LockInv /\ CallInv /\ AnswerInv
      /\ pc \in [Tasks -> Labels] /\ smsg \in [Tasks -> Messages \cup {"NULL"}]
      /\ r_msg \in [Tasks -> Messages \cup Codes] /\ filter \in [Tasks -> Filters]
  BY DEF IInv, Accounting, TypeOK
<1>1. "NULL" \notin Messages /\ "EAGAIN" \notin Messages /\ "EIDRM" \notin Messages
      /\ "E2BIG" \notin Messages /\ NoTask \notin Tasks
  BY ConstantsAssumption DEF Codes
<1> USE <1>0
\* nobody answers, before and after
<1>2. ASSUME NEW t \in Tasks, NEW l, l \notin Answers, pc' = [pc EXCEPT ![t] = l],
             \A u \in Tasks : pc[u] \notin Answers, UNCHANGED <<waking, handing>>
      PROVE  AnswerInv'
  BY <1>2 DEF AnswerInv
\* nothing of the hand-off changes
<1>3. ASSUME UNCHANGED <<waking, handing, smsg, filter, r_msg, q_messages>>,
             \A u \in Tasks : /\ pc'[u] \in Answers <=> pc[u] \in Answers
                              /\ pc[u] \in Waiting => pc'[u] \in Waiting
      PROVE  AnswerInv'
  BY <1>3 DEF AnswerInv, Matching
\* the lock is free, or held by a task that does not answer
<1>4. ASSUME lock = NoTask \/ \E t \in Tasks : pc[t] \in Owner \ Answers
      PROVE  \A u \in Tasks : pc[u] \notin Answers
  BY <1>1, <1>4 DEF LockInv, Owner, Answers
<1>5. ASSUME NEW t \in Tasks, PipelinedSelect(t) PROVE AnswerInv'
  <2> DEFINE r == q_receivers[Min(Takers(smsg[t]))]
  <2>1. /\ pc[t] = "pipelined_send" /\ lock = t /\ ~deleted /\ cursor = 0 /\ smsg[t] # "NULL"
    BY <1>5, SenderLocks DEF PipelinedSelect
  <2>2. \A u \in Tasks : pc[u] \in Owner => u = t
    BY <2>1 DEF LockInv
  <2>5. Min(Takers(smsg[t])) \in 1..Len(q_receivers) /\ testmsg(smsg[t], filter[r])
    BY <1>5, TakerFact DEF PipelinedSelect
  <2>6. r \in Tasks /\ pc[r] \in Waiting /\ Matching(filter[r]) = {}
    <3>1. q_receivers \in Seq(Tasks) /\ r \in Range(q_receivers)
      BY <2>5, SMTT(30) DEF Range, TypeOK
    <3>2. r \in Tasks /\ r_msg[r] = "EAGAIN" /\ Matching(filter[r]) = {}
      BY <2>1, <3>1, ListFact DEF Unanswered
    <3> QED BY <3>2 DEF CallInv
  <2>7. /\ waking' = r /\ r_msg' = [r_msg EXCEPT ![r] = "NULL"]
        /\ pc' = [pc EXCEPT ![t] = "wake_up"] /\ UNCHANGED <<smsg, filter, q_messages>>
        /\ handing' = IF filter[r].maxsize < MSize[smsg[t]] THEN "E2BIG" ELSE smsg[t]
    BY <1>5 DEF PipelinedSelect, Answering, Goto, qvars
  <2> HIDE DEF r
  <2>8. r # t /\ pc'[r] \in Waiting /\ r_msg'[r] = "NULL"
    BY <2>1, <2>6, <2>7 DEF Waiting
  <2>9. \A u \in Tasks : pc'[u] \in Answers <=> u = t
    BY <2>1, <2>2, <2>7 DEF Answers, Owner
  <2>10. handing' \in {"E2BIG", smsg[t]} /\ smsg[t] \in Messages
    BY <2>1, <2>7
  <2>11. Matching(filter[waking])' = {}
    BY <2>6, <2>7 DEF Matching
  <2>12. handing' \in Messages => testmsg(handing', filter'[waking'])
    BY <1>1, <2>5, <2>7, <2>10
  <2> QED BY <2>1, <2>6, <2>7, <2>8, <2>9, <2>10, <2>11, <2>12 DEF AnswerInv
<1>6. ASSUME NEW t \in Tasks, Store(t) PROVE AnswerInv'
  <2>1. /\ waking' = NoTask /\ handing' = "NULL" /\ lock = t
        /\ \E l \in {"idle", "pipelined_send", "freeque", "ipc_set"} : pc' = [pc EXCEPT ![t] = l]
    BY <1>6, StoreEffect
  <2>2. \A u \in Tasks : pc'[u] \notin Answers
    BY <2>1 DEF LockInv, Answers, Owner
  <2> QED BY <2>1, <2>2 DEF AnswerInv
<1>7. ASSUME NEW t \in Tasks, MsgrcvLockless(t) PROVE AnswerInv'
  <2>1. /\ pc[t] = "rcv_rcu" /\ r_msg[t] # "NULL"
        /\ UNCHANGED <<smsg, waking, handing, q_messages>>
        /\ \/ /\ pc' = [pc EXCEPT ![t] = "idle"] /\ filter' = [filter EXCEPT ![t] = NoFilter]
              /\ r_msg' = [r_msg EXCEPT ![t] = "NULL"]
           \/ pc' = [pc EXCEPT ![t] = "rcv_lock"] /\ UNCHANGED <<filter, r_msg>>
    BY <1>7 DEF MsgrcvLockless, Accept, RcvReturn, Return, Goto, qvars, hvars
  <2>2. \A u \in Tasks : pc'[u] \in Answers <=> pc[u] \in Answers
    BY <2>1 DEF Answers
  <2>3. ASSUME NEW u \in Tasks, pc[u] \in Answers
        PROVE  waking # t /\ pc'[waking] = pc[waking] /\ r_msg'[waking] = r_msg[waking]
               /\ filter'[waking] = filter[waking]
    <3>1. waking \in Tasks /\ waking # t
      BY <2>1, <2>3 DEF AnswerInv
    <3> QED BY <2>1, <3>1
  <2> QED BY <2>1, <2>2, <2>3 DEF AnswerInv, Matching
<1>8. ASSUME NEW t \in Tasks, expunge_all(t) PROVE AnswerInv'
  <2> DEFINE r == q_receivers[cursor]
  <2>1. /\ pc[t] \in {"freeque", "ipc_set"} /\ lock = t /\ ~deleted /\ cursor \in 1..Len(q_receivers)
    BY <1>8, CtlLocks, SMTT(30) DEF expunge_all, IInv, Accounting, TypeOK
  <2>2. smsg[t] = "NULL" /\ \A u \in Tasks : pc[u] \in Owner => u = t
    BY <2>1 DEF LockInv, CallInv
  <2>3. r \in Tasks /\ pc[r] \in Waiting
    BY <2>1, SMTT(30) DEF IInv, ReceiverInv, Unanswered, CallInv
  <2>4. /\ waking' = r /\ r_msg' = [r_msg EXCEPT ![r] = "NULL"]
        /\ pc' = [pc EXCEPT ![t] = "wake_up"] /\ UNCHANGED smsg
        /\ handing' \in {"EIDRM", "EAGAIN"}
    BY <1>8 DEF expunge_all, Answering, Goto
  <2> HIDE DEF r
  <2>5. r # t /\ pc'[r] \in Waiting /\ r_msg'[r] = "NULL"
    BY <2>1, <2>3, <2>4 DEF Waiting
  <2>6. \A u \in Tasks : pc'[u] \in Answers <=> u = t
    BY <2>1, <2>2, <2>4 DEF Answers, Owner
  <2>7. handing' \notin Messages
    BY <1>1, <2>4
  <2> QED BY <2>2, <2>3, <2>4, <2>5, <2>6, <2>7 DEF AnswerInv
\* the calls that take a free lock
<1>9. ASSUME NEW t \in Tasks,
             \/ MsgsndWake(t) \/ MsgrcvRelock(t) \/ IpcRmid(t)
             \/ \E m \in Messages : MsgsndCall(t, m)
             \/ \E a \in RcvArgs : MsgrcvCall(t, a)
             \/ \E b \in QBytes, p \in Modes : IpcSet(t, b, p)
      PROVE  AnswerInv'
  <2> DEFINE Quiet == /\ lock = NoTask /\ UNCHANGED <<waking, handing>>
                      /\ \E l \in Labels \ Answers : pc' = [pc EXCEPT ![t] = l]
  <2>1. ASSUME NEW m \in Messages, MsgsndCall(t, m) PROVE Quiet
    BY <2>1 DEF MsgsndCall, SendBegin, SendSleep, Goto, hvars, Labels, Answers
  <2>2. ASSUME MsgsndWake(t) PROVE Quiet
    BY <2>2 DEF MsgsndWake, SendNoPerm, SendBegin, SendSleep, Return, Goto, hvars, Labels, Answers
  <2>3. ASSUME MsgrcvRelock(t) \/ \E a \in RcvArgs : MsgrcvCall(t, a) PROVE Quiet
    BY <2>3, ReceiveEffect DEF Labels, Answers, Waiting
  <2>5. ASSUME NEW b \in QBytes, NEW p \in Modes, IpcSet(t, b, p) PROVE Quiet
    BY <2>5 DEF IpcSet, CtlEnter, Goto, Labels, Answers
  <2>6. ASSUME IpcRmid(t) PROVE Quiet
    BY <2>6 DEF IpcRmid, CtlEnter, Goto, Labels, Answers
  <2>7. Quiet
    <3> HIDE DEF Quiet
    <3> QED BY <1>9, <2>1, <2>2, <2>3, <2>5, <2>6
  <2>8. PICK l \in Labels \ Answers : pc' = [pc EXCEPT ![t] = l]
    BY <2>7
  <2> QED BY <1>2, <1>4, <2>7, <2>8
\* the owner of the lock lets go of it
<1>10. ASSUME NEW t \in Tasks, Enqueue(t) \/ IpcSetDone(t) \/ FreequeUnlock(t) PROVE AnswerInv'
  <2>1. /\ pc[t] \in Owner \ Answers /\ UNCHANGED <<waking, handing>>
        /\ \E l \in Labels \ Answers : pc' = [pc EXCEPT ![t] = l]
    BY <1>10 DEF Enqueue, IpcSetDone, FreequeUnlock, Return, Goto, hvars, Labels, Answers, Owner
  <2> QED BY <1>2, <1>4, <2>1
\* the queue is gone
<1>11. ASSUME NEW t \in Tasks, FreequeMsg(t) \/ FreequeLoad(t) \/ FreequePutref(t) PROVE AnswerInv'
  <2>1. /\ pc[t] \in {"free_msgs", "putref"} /\ UNCHANGED <<waking, handing>>
        /\ \E l \in Labels \ Answers : pc' = [pc EXCEPT ![t] = l]
    BY <1>11 DEF FreequeMsg, FreequeLoad, FreequePutref, Return, Goto, hvars, Labels, Answers
  <2> QED BY <1>2, <1>4, <2>1 DEF LockInv
<1>12. ASSUME NEW t \in Tasks, WakeUp(t) \/ MsgrcvWake(t) PROVE AnswerInv'
  <2>1. /\ UNCHANGED <<waking, handing, smsg, filter, r_msg, q_messages>>
        /\ \/ pc[t] = "wake_up" /\ pc' = [pc EXCEPT ![t] = "store"]
           \/ pc[t] = "rcv_sleep" /\ pc' = [pc EXCEPT ![t] = "rcv_rcu"]
    BY <1>12 DEF WakeUp, MsgrcvWake, Goto, qvars, callvars, hvars
  <2> QED BY <1>3, <2>1 DEF Answers, Waiting
<1>13. ASSUME (\E t \in Tasks : Signal(t)) \/ GracePeriod \/ UNCHANGED vars PROVE AnswerInv'
  <2>1. UNCHANGED <<waking, handing, smsg, filter, r_msg, q_messages, pc>>
    BY <1>13 DEF Signal, GracePeriod, vars, qvars, callvars, hvars
  <2> QED BY <1>3, <2>1
<1> QED BY <1>5, <1>6, <1>7, <1>8, <1>9, <1>10, <1>11, <1>12, <1>13 DEF Next, Inside, Call

\* Whoever sleeps has a reason to, or is about to be woken.
LEMMA SleepStep == ASSUME IInv, [Next]_vars PROVE SleepInv'
<1>0. /\ TypeOK /\ LockInv /\ CallInv /\ AnswerInv /\ SleepInv
      /\ pc \in [Tasks -> Labels] /\ tstate \in [Tasks -> {"running", "sleeping"}]
      /\ smsg \in [Tasks -> Messages \cup {"NULL"}] /\ r_msg \in [Tasks -> Messages \cup Codes]
      /\ q_senders \in SUBSET Tasks /\ deleted \in BOOLEAN
  BY DEF IInv, Accounting, TypeOK
<1>1. NoTask \notin Tasks
  BY ConstantsAssumption
<1> USE <1>0
\* One task moves; the senders asleep are held by msgctl, woken, or still
\* without room.
<1>2. ASSUME NEW t \in Tasks, pc[t] # "wake_up",
             \A u \in Tasks : u # t =>
               /\ pc'[u] = pc[u] /\ r_msg'[u] = r_msg[u] /\ smsg'[u] = smsg[u]
               /\ tstate'[u] = "sleeping" => tstate[u] = "sleeping",
             tstate'[t] = "sleeping" =>
               \/ pc'[t] = "rcv_sleep" /\ r_msg'[t] = "EAGAIN"
               \/ pc'[t] = "snd_sleep" /\ ~Fits(smsg[t])' /\ ~deleted,
             \/ CtlLocked'
             \/ \A u \in Tasks : u # t /\ pc[u] = "snd_sleep" => tstate'[u] # "sleeping"
             \/ ~CtlLocked /\ \A m \in Messages : Fits(m)' => Fits(m),
             UNCHANGED <<waking, deleted>>,
             q_senders' \ {t} = q_senders \ {t},
             ~deleted => (t \in q_senders' <=> pc'[t] = "snd_sleep"),
             deleted => q_senders' = {}
      PROVE  SleepInv'
  <2>1. ASSUME NEW u \in Tasks, tstate'[u] = "sleeping", pc'[u] = "rcv_sleep"
        PROVE  r_msg'[u] = "EAGAIN" \/ (u = waking' /\ \E v \in Tasks : pc'[v] = "wake_up")
    BY <1>2, <2>1 DEF SleepInv
  <2>2. ASSUME NEW u \in Tasks, tstate'[u] = "sleeping", pc'[u] = "snd_sleep"
        PROVE  ~deleted' /\ (CtlLocked' \/ ~Fits(smsg[u])')
    <3>1. CASE u = t
      BY <1>2, <2>2, <3>1
    <3>2. CASE u # t
      <4>1. ~deleted /\ (CtlLocked \/ ~Fits(smsg[u])) /\ smsg[u] \in Messages
        BY <1>2, <2>2, <3>2 DEF SleepInv, CallInv
      <4>2. Fits(smsg[u])' => \E m \in Messages : m = smsg[u] /\ Fits(m)'
        BY <1>2, <3>2, <4>1 DEF Fits
      <4> QED BY <1>2, <2>2, <3>2, <4>1, <4>2
    <3> QED BY <3>1, <3>2
  <2>3. \A u \in Tasks : ~deleted' => (u \in q_senders' <=> pc'[u] = "snd_sleep")
    BY <1>2 DEF SleepInv
  <2> QED BY <1>2, <2>1, <2>2, <2>3 DEF SleepInv
\* nobody is about to be woken
<1>3. ASSUME \A u \in Tasks : pc[u] # "wake_up"
      PROVE  \A u \in Tasks : tstate[u] = "sleeping" /\ pc[u] = "rcv_sleep" => r_msg[u] = "EAGAIN"
  BY <1>3 DEF SleepInv
<1>4. ASSUME NEW t \in Tasks, MsgsndWake(t) \/ \E m \in Messages : MsgsndCall(t, m) PROVE SleepInv'
  <2>1. /\ pc[t] \in {"idle", "snd_sleep"} /\ lock = NoTask
        /\ UNCHANGED <<deleted, waking, r_msg, q_cbytes, q_qnum, q_qbytes>>
        /\ deleted => q_senders' = q_senders
        /\ \/ /\ pc' = [pc EXCEPT ![t] = "snd_sleep"] /\ tstate' = [tstate EXCEPT ![t] = "sleeping"]
              /\ q_senders' = q_senders \cup {t} /\ ~deleted
              /\ \E m \in Messages : smsg' = [smsg EXCEPT ![t] = m] /\ ~Fits(m)
           \/ /\ pc' = [pc EXCEPT ![t] = "idle"] \/ pc' = [pc EXCEPT ![t] = "pipelined_send"]
              /\ tstate' = tstate /\ tstate[t] # "sleeping"
              /\ ~deleted => q_senders' = q_senders \ {t}
              /\ \E m \in Messages \cup {"NULL"} : smsg' = [smsg EXCEPT ![t] = m]
    <3>1. ASSUME NEW m \in Messages, MsgsndCall(t, m)
          PROVE  pc[t] = "idle" /\ tstate[t] # "sleeping" /\ (~deleted => t \notin q_senders)
      BY <3>1 DEF MsgsndCall, CallInv, SleepInv
    <3>2. CASE \E m \in Messages : MsgsndCall(t, m)
      BY <3>1, <3>2, SMTT(30) DEF MsgsndCall, SendBegin, SendSleep, Goto, qvars, ctlvars, hvars
    <3>3. CASE MsgsndWake(t)
      <4>1. /\ pc[t] = "snd_sleep" /\ tstate[t] # "sleeping" /\ smsg[t] \in Messages
            /\ ~deleted => q_senders \cup {t} = q_senders
        BY <3>3 DEF MsgsndWake, CallInv, SleepInv
      <4> QED BY <3>3, <4>1 DEF MsgsndWake, SendNoPerm, SendBegin, SendSleep, Return, Goto, qvars, ctlvars, hvars
    <3> QED BY <1>4, <3>2, <3>3
  <2>2. ~CtlLocked /\ \A m \in Messages : Fits(m)' <=> Fits(m)
    BY <2>1 DEF CtlLocked, Fits
  <2>3. deleted => q_senders = {}
    BY DEF SleepInv
  <2>4. tstate'[t] = "sleeping" => pc'[t] = "snd_sleep" /\ ~Fits(smsg[t])' /\ ~deleted
    BY <2>1 DEF Fits
  <2> QED BY <1>2, <2>1, <2>2, <2>3, <2>4, SMTT(30)
<1>5. ASSUME NEW t \in Tasks, MsgrcvRelock(t) \/ \E a \in RcvArgs : MsgrcvCall(t, a) PROVE SleepInv'
  <2>1. /\ pc[t] \in {"idle", "rcv_lock"} /\ lock = NoTask
        /\ UNCHANGED <<lock, rw_mutex, deleted, q_qbytes, q_senders, smsg, waking, handing, cursor>>
        /\ \/ /\ pc' = [pc EXCEPT ![t] = "idle"] /\ r_msg' = [r_msg EXCEPT ![t] = "NULL"]
              /\ \/ UNCHANGED <<q_cbytes, q_qnum, tstate>>
                 \/ tstate' = [u \in Tasks |-> IF u \in q_senders THEN "running" ELSE tstate[u]]
           \/ /\ pc' = [pc EXCEPT ![t] = "rcv_sleep"] /\ r_msg' = [r_msg EXCEPT ![t] = "EAGAIN"]
              /\ tstate' = [tstate EXCEPT ![t] = "sleeping"] /\ UNCHANGED <<q_cbytes, q_qnum>>
    BY <1>5, ReceiveEffect
  <2>2. tstate[t] # "sleeping" /\ (~deleted => t \notin q_senders) /\ (deleted => q_senders = {})
    BY <2>1 DEF CallInv, SleepInv
  <2>3. ~CtlLocked
    BY <2>1 DEF CtlLocked
  <2>4. \/ \A u \in Tasks : u # t /\ pc[u] = "snd_sleep" => tstate'[u] # "sleeping"
        \/ \A m \in Messages : Fits(m)' => Fits(m)
    BY <2>1, SMTT(30) DEF Fits, SleepInv
  <2> QED BY <1>2, <2>1, <2>2, <2>3, <2>4, SMTT(30)
<1>6. ASSUME NEW t \in Tasks, MsgrcvWake(t) \/ MsgrcvLockless(t) PROVE SleepInv'
  <2>1. /\ pc[t] \in {"rcv_sleep", "rcv_rcu"} /\ tstate[t] # "sleeping"
        /\ UNCHANGED <<lock, rw_mutex, deleted, waking, q_cbytes, q_qnum, q_qbytes, q_senders, smsg, tstate>>
        /\ \E l \in {"idle", "rcv_rcu", "rcv_lock"} : pc' = [pc EXCEPT ![t] = l]
        /\ r_msg' = r_msg \/ r_msg' = [r_msg EXCEPT ![t] = "NULL"]
    <3>1. CASE MsgrcvWake(t)
      BY <3>1 DEF MsgrcvWake, Goto, qvars, ctlvars, lists, callvars, hvars
    <3>2. CASE MsgrcvLockless(t)
      BY <3>2 DEF MsgrcvLockless, Accept, RcvReturn, Return, Goto, qvars, ctlvars, lists, callvars, hvars, CallInv
    <3> QED BY <1>6, <3>1, <3>2
  <2>2. (CtlLocked' <=> CtlLocked) /\ \A m \in Messages : Fits(m)' <=> Fits(m)
    BY <2>1 DEF CtlLocked, Fits
  <2>3. (~deleted => t \notin q_senders) /\ (deleted => q_senders = {})
    BY <2>1 DEF SleepInv
  <2> QED BY <1>2, <2>1, <2>2, <2>3
<1>7. ASSUME NEW t \in Tasks, Enqueue(t) PROVE SleepInv'
  <2>1. pc[t] = "pipelined_send" /\ lock = t /\ ~deleted /\ cursor = 0 /\ smsg[t] \in Messages
    BY <1>7, SenderLocks DEF Enqueue
  <2>2. /\ q_cbytes' = q_cbytes + MSize[smsg[t]] /\ q_qnum' = q_qnum + 1 /\ pc' = [pc EXCEPT ![t] = "idle"]
        /\ smsg' = [smsg EXCEPT ![t] = "NULL"]
        /\ UNCHANGED <<deleted, waking, q_qbytes, q_senders, tstate, r_msg>>
    BY <1>7 DEF Enqueue, Enlist, Return, Goto, ctlvars, lists, hvars
  <2>3. ~CtlLocked
    BY <2>1, SMTT(30) DEF LockInv
  <2>4. \A m \in Messages : Fits(m)' => Fits(m)
    BY <2>1, <2>2, ConstantsAssumption, SMTT(30) DEF Fits, TypeOK
  <2>5. tstate[t] # "sleeping" /\ t \notin q_senders
    BY <2>1 DEF CallInv, SleepInv
  <2> QED BY <1>2, <2>1, <2>2, <2>3, <2>4, <2>5
<1>8. ASSUME NEW t \in Tasks, IpcRmid(t) \/ \E b \in QBytes, p \in Modes : IpcSet(t, b, p)
      PROVE  SleepInv'
  <2>1. /\ pc[t] = "idle" /\ ~deleted /\ lock' = t /\ rw_mutex' = t
        /\ pc' = [pc EXCEPT ![t] = "freeque"] \/ pc' = [pc EXCEPT ![t] = "ipc_set"]
        /\ UNCHANGED <<deleted, waking, q_senders, tstate, r_msg, smsg>>
    BY <1>8 DEF IpcRmid, IpcSet, CtlEnter, Goto, lists, callvars
  <2>2. CtlLocked' /\ tstate[t] # "sleeping" /\ t \notin q_senders
    BY <1>1, <2>1 DEF CtlLocked, CallInv, SleepInv
  <2> QED BY <1>2, <2>1, <2>2
<1>9. ASSUME NEW t \in Tasks, IpcSetDone(t) PROVE SleepInv'
  <2>1. /\ pc[t] = "ipc_set" /\ pc' = [pc EXCEPT ![t] = "idle"]
        /\ tstate' = [u \in Tasks |-> IF u \in q_senders THEN "running" ELSE tstate[u]]
        /\ UNCHANGED <<deleted, waking, q_senders, r_msg, smsg>>
    BY <1>9 DEF IpcSetDone, ss_wakeup, Return, Goto, callvars
  <2>2. ~deleted /\ tstate[t] # "sleeping" /\ t \notin q_senders
    BY <1>1, <2>1 DEF LockInv, Owner, CallInv, SleepInv
  <2>3. \A u \in Tasks : u # t /\ pc[u] = "snd_sleep" => tstate'[u] # "sleeping"
    BY <2>1, <2>2 DEF SleepInv
  <2> QED BY <1>2, <2>1, <2>2, <2>3
<1>10. ASSUME NEW t \in Tasks, FreequeUnlock(t) PROVE SleepInv'
  <2>1. /\ pc[t] = "freeque" /\ pc' = [pc EXCEPT ![t] = "free_msgs"] /\ deleted' /\ q_senders' = {}
        /\ tstate' = [u \in Tasks |-> IF u \in q_senders THEN "running" ELSE tstate[u]]
        /\ UNCHANGED <<waking, r_msg>>
    BY <1>10 DEF FreequeUnlock, ss_wakeup, Goto, callvars
  <2>2. \A u \in Tasks : pc[u] \in Owner => u = t
    BY <2>1 DEF LockInv, Owner
  <2>3. ~deleted /\ \A u \in Tasks : pc[u] # "wake_up"
    BY <1>1, <2>1, <2>2 DEF LockInv, Owner
  <2>4. \A u \in Tasks : tstate'[u] = "sleeping" => pc'[u] # "snd_sleep"
    BY <2>1, <2>3 DEF SleepInv
  <2>5. \A u \in Tasks : tstate'[u] = "sleeping" /\ pc'[u] = "rcv_sleep" => r_msg'[u] = "EAGAIN"
    BY <1>3, <2>1, <2>3
  <2> QED BY <2>1, <2>4, <2>5 DEF SleepInv
<1>11. ASSUME NEW t \in Tasks, FreequeMsg(t) \/ FreequeLoad(t) \/ FreequePutref(t) PROVE SleepInv'
  <2>1. /\ pc[t] \in {"free_msgs", "putref"} /\ UNCHANGED <<deleted, waking, r_msg, smsg, tstate, q_senders>>
        /\ \E l \in {"idle", "free_msgs", "putref"} : pc' = [pc EXCEPT ![t] = l]
    BY <1>11 DEF FreequeMsg, FreequeLoad, FreequePutref, Return, Goto, ctlvars, lists, callvars, hvars
  <2>2. deleted /\ tstate[t] # "sleeping"
    BY <2>1 DEF LockInv, CallInv
  <2>3. q_senders = {} /\ \A u \in Tasks : pc[u] = "snd_sleep" => tstate[u] # "sleeping"
    BY <2>2 DEF SleepInv
  <2> QED BY <1>2, <2>1, <2>2, <2>3
<1>12. ASSUME NEW t \in Tasks, WakeUp(t) PROVE SleepInv'
  <2>1. /\ pc[t] = "wake_up" /\ pc' = [pc EXCEPT ![t] = "store"]
        /\ tstate' = [tstate EXCEPT ![waking] = "running"]
        /\ UNCHANGED <<lock, rw_mutex, deleted, waking, r_msg, smsg, q_cbytes, q_qnum, q_qbytes, q_senders>>
    BY <1>12 DEF WakeUp, Goto, ctlvars, qvars, lists, callvars, hvars
  <2>2. \A u \in Tasks : tstate'[u] = "sleeping" => u # waking /\ tstate[u] = "sleeping"
    BY <2>1
  <2>3. (CtlLocked' <=> CtlLocked) /\ \A u \in Tasks : Fits(smsg[u])' <=> Fits(smsg[u])
    BY <2>1 DEF CtlLocked, Fits
  <2> QED BY <2>1, <2>2, <2>3 DEF SleepInv
\* a receiver is about to be woken
<1>13. ASSUME NEW t \in Tasks, PipelinedSelect(t) \/ expunge_all(t) PROVE SleepInv'
  <2>1. /\ pc[t] \in {"pipelined_send", "freeque", "ipc_set"} /\ pc' = [pc EXCEPT ![t] = "wake_up"]
        /\ r_msg' = [r_msg EXCEPT ![waking'] = "NULL"]
        /\ UNCHANGED <<lock, rw_mutex, deleted, smsg, tstate, q_cbytes, q_qnum, q_qbytes, q_senders>>
    BY <1>13 DEF PipelinedSelect, expunge_all, Answering, Goto, ctlvars, qvars, lists
  <2>2. \A u \in Tasks : pc[u] \in Owner => u = t
    BY <2>1 DEF LockInv, Owner
  <2>3. \A u \in Tasks : pc[u] # "wake_up"
    BY <2>1, <2>2 DEF Owner
  <2>4. (CtlLocked' <=> CtlLocked) /\ \A u \in Tasks : Fits(smsg[u])' <=> Fits(smsg[u])
    BY <2>1 DEF CtlLocked, Fits
  <2>5. \A u \in Tasks : tstate'[u] = "sleeping" /\ pc'[u] = "rcv_sleep" => r_msg'[u] = "EAGAIN" \/ u = waking'
    BY <1>3, <2>1, <2>3
  <2>6. \E u \in Tasks : pc'[u] = "wake_up"
    BY <2>1
  <2> QED BY <2>1, <2>4, <2>5, <2>6 DEF SleepInv
<1>14. ASSUME NEW t \in Tasks, Store(t) PROVE SleepInv'
  <2>1. /\ pc[t] = "store" /\ UNCHANGED <<tstate, q_senders, deleted, q_cbytes, q_qnum, q_qbytes, rw_mutex>>
    BY <1>14 DEF Store, ctlvars, qvars, lists
  <2>2. /\ lock = t /\ waking \in Tasks /\ r_msg[waking] = "NULL"
        /\ r_msg' = [r_msg EXCEPT ![waking] = handing]
        /\ \E l \in {"idle", "pipelined_send", "freeque", "ipc_set"} : pc' = [pc EXCEPT ![t] = l]
        /\ smsg' = smsg \/ smsg' = [smsg EXCEPT ![t] = "NULL"]
        /\ lock' = lock \/ (lock' = NoTask /\ rw_mutex # t)
    BY <1>14, StoreEffect
  <2>3. \A u \in Tasks : pc[u] # "wake_up"
    BY <2>1, <2>2 DEF LockInv, Owner
  <2>4. ASSUME NEW u \in Tasks, tstate'[u] = "sleeping", pc'[u] = "rcv_sleep"
        PROVE  r_msg'[u] = "EAGAIN"
    <3>1. u # t /\ pc[u] = "rcv_sleep" /\ tstate[u] = "sleeping"
      BY <2>1, <2>2, <2>4
    <3>2. r_msg[u] = "EAGAIN"
      BY <1>3, <2>3, <3>1
    <3> QED BY <2>2, <3>2
  <2>5. ASSUME NEW u \in Tasks, tstate'[u] = "sleeping", pc'[u] = "snd_sleep"
        PROVE  ~deleted' /\ (CtlLocked' \/ ~Fits(smsg[u])')
    <3>1. u # t /\ pc[u] = "snd_sleep" /\ tstate[u] = "sleeping"
      BY <2>1, <2>2, <2>5
    <3>2. ~deleted /\ (CtlLocked \/ ~Fits(smsg[u]))
      BY <3>1 DEF SleepInv
    <3>3. smsg'[u] = smsg[u] /\ (CtlLocked => CtlLocked')
      BY <2>1, <2>2, <3>1 DEF CtlLocked
    <3> QED BY <2>1, <3>2, <3>3 DEF Fits
  <2>6. \A u \in Tasks : pc'[u] = "snd_sleep" <=> pc[u] = "snd_sleep"
    BY <2>1, <2>2
  <2> QED BY <2>1, <2>4, <2>5, <2>6 DEF SleepInv
<1>15. ASSUME (\E t \in Tasks : Signal(t)) \/ GracePeriod \/ UNCHANGED vars PROVE SleepInv'
  <2>1. /\ UNCHANGED <<pc, lock, rw_mutex, deleted, waking, r_msg, smsg, q_cbytes, q_qnum, q_qbytes, q_senders>>
        /\ \A u \in Tasks : tstate'[u] = "sleeping" => tstate[u] = "sleeping"
    BY <1>15 DEF Signal, GracePeriod, vars, ctlvars, qvars, lists, callvars, hvars
  <2>2. (CtlLocked' <=> CtlLocked) /\ \A u \in Tasks : Fits(smsg[u])' <=> Fits(smsg[u])
    BY <2>1 DEF CtlLocked, Fits
  <2> QED BY <2>1, <2>2 DEF SleepInv
<1> QED BY <1>4, <1>5, <1>6, <1>7, <1>8, <1>9, <1>10, <1>11, <1>12, <1>13, <1>14, <1>15 DEF Next, Inside, Call

\* The receiver list stays what the hand-off protocol needs it to be.
LEMMA ReceiverStep == ASSUME IInv, [Next]_vars PROVE ReceiverInv'
<1>0. /\ pc \in [Tasks -> Labels] /\ r_msg \in [Tasks -> Messages \cup Codes] /\ cursor \in Nat
      /\ filter \in [Tasks -> Filters] /\ q_receivers \in Seq(Tasks) /\ q_messages \in Seq(Messages)
      /\ smsg \in [Tasks -> Messages \cup {"NULL"}]
      /\ TypeOK /\ LockInv /\ AnswerInv /\ ReceiverInv /\ CallInv
  BY DEF IInv, Accounting, TypeOK
<1>1. "NULL" \notin Messages /\ "EAGAIN" \notin Messages /\ "EIDRM" \notin Messages
      /\ "E2BIG" \notin Messages /\ NoTask \notin Tasks
  BY ConstantsAssumption DEF Codes
<1>2. Range(q_receivers) \subseteq Tasks
  <2>1. q_receivers \in Seq(Tasks)
    BY <1>0
  <2> QED BY <2>1, SMTT(30) DEF Range
\* what the list is like in a walk
<1>30. ~deleted /\ cursor > 0 =>
         /\ IsInjective(q_receivers)
         /\ \A i \in 1..Len(q_receivers) : i >= cursor => q_receivers[i] \in Unanswered
  <2>1. ReceiverInv
    BY <1>0
  <2> QED BY <2>1, Zenon DEF ReceiverInv
\* no walk under way, before and after
<1>3. ASSUME ~deleted', cursor' = 0, ~Freeing', handing' # "EAGAIN",
             IsInjective(q_receivers'), Range(q_receivers') = Unanswered',
             \A t \in Unanswered' : Matching(filter[t])' = {}
      PROVE  ReceiverInv'
  BY <1>3, SMTT(30) DEF ReceiverInv, Unanswered
<1> USE <1>0
\* nothing of the list, the filters, the queue and the answers changes
<1>4. ASSUME UNCHANGED <<q_receivers, r_msg, filter, q_messages, waking, handing, cursor, deleted>>,
             Freeing' <=> Freeing
      PROVE  ReceiverInv'
  BY <1>4 DEF ReceiverInv, Unanswered, Matching
<1>5. ASSUME NEW t \in Tasks, NEW l \in Labels, pc' = [pc EXCEPT ![t] = l], UNCHANGED handing,
             pc[t] # "freeque", l # "freeque", pc[t] \in Answers <=> l \in Answers
      PROVE  Freeing' <=> Freeing
  BY <1>5 DEF Freeing
\* the queue is gone
<1>6. ASSUME deleted, deleted', \A u \in Tasks : r_msg'[u] = "EAGAIN" => r_msg[u] = "EAGAIN"
      PROVE  ReceiverInv'
  BY <1>6 DEF ReceiverInv, Unanswered
<1>7. ASSUME NEW t \in Tasks, NEW m \in Messages, MsgsndCall(t, m) PROVE ReceiverInv'
  <2>1. /\ pc[t] = "idle"
        /\ UNCHANGED <<q_receivers, r_msg, filter, q_messages, waking, handing, cursor, deleted>>
        /\ pc' = [pc EXCEPT ![t] = "pipelined_send"] \/ pc' = [pc EXCEPT ![t] = "snd_sleep"]
    BY <1>7 DEF MsgsndCall, SendBegin, SendSleep, Goto, qvars, ctlvars, hvars
  <2> QED BY <1>4, <1>5, <2>1 DEF Labels, Answers
<1>8. ASSUME NEW t \in Tasks, MsgsndWake(t) PROVE ReceiverInv'
  <2>1. /\ pc[t] = "snd_sleep"
        /\ UNCHANGED <<q_receivers, r_msg, filter, q_messages, waking, handing, cursor, deleted>>
        /\ \/ pc' = [pc EXCEPT ![t] = "pipelined_send"] \/ pc' = [pc EXCEPT ![t] = "snd_sleep"]
           \/ pc' = [pc EXCEPT ![t] = "idle"]
    BY <1>8 DEF MsgsndWake, SendNoPerm, SendBegin, SendSleep, Return, Goto, qvars, ctlvars, hvars
  <2> QED BY <1>4, <1>5, <2>1 DEF Labels, Answers
<1>9. ASSUME NEW t \in Tasks, PipelinedSelect(t) PROVE ReceiverInv'
  <2> DEFINE i == Min(Takers(smsg[t]))
             r == q_receivers[i]
  <2>1. pc[t] = "pipelined_send" /\ lock = t /\ ~deleted /\ cursor = 0 /\ smsg[t] # "NULL"
    BY <1>9, SenderLocks DEF PipelinedSelect
  <2>2. i \in 1..Len(q_receivers)
    BY <1>9, TakerFact DEF PipelinedSelect
  <2>3. /\ q_receivers' = RemoveAt(q_receivers, i) /\ r_msg' = [r_msg EXCEPT ![r] = "NULL"]
        /\ pc' = [pc EXCEPT ![t] = "wake_up"] /\ handing' \in {"E2BIG", smsg[t]}
        /\ UNCHANGED <<cursor, deleted, filter, q_messages>>
    BY <1>9 DEF PipelinedSelect, Answering, Goto, ctlvars, qvars
  <2> HIDE DEF i
  <2>4. IsInjective(q_receivers) /\ Range(q_receivers) = Unanswered /\ \A u \in Unanswered : Matching(filter[u]) = {}
    BY <2>1, ListFact
  <2>5. IsInjective(q_receivers') /\ Range(q_receivers') = Range(q_receivers) \ {r}
    BY <2>2, <2>3, <2>4, RemoveAtRange
  <2>6. Unanswered' = Unanswered \ {r}
    BY <2>2, <2>3 DEF Unanswered
  <2>7. handing' \notin {"EAGAIN", "EIDRM"}
    BY <1>1, <2>1, <2>3
  <2>8. ~Freeing'
    <3>1. \A u \in Tasks : pc[u] # "freeque"
      BY <2>1 DEF LockInv, Owner
    <3> QED BY <2>3, <2>7, <3>1 DEF Freeing
  <2>9. \A u \in Unanswered' : Matching(filter[u])' = {}
    BY <2>3, <2>4, <2>6 DEF Matching
  <2> QED BY <1>3, <2>1, <2>3, <2>4, <2>5, <2>6, <2>7, <2>8, <2>9
<1>10. ASSUME NEW t \in Tasks, Enqueue(t) PROVE ReceiverInv'
  <2>1. pc[t] = "pipelined_send" /\ lock = t /\ ~deleted /\ cursor = 0 /\ smsg[t] # "NULL"
    BY <1>10, SenderLocks DEF Enqueue
  <2>2. /\ q_messages' = Append(q_messages, smsg[t]) /\ pc' = [pc EXCEPT ![t] = "idle"]
        /\ Takers(smsg[t]) = {} /\ UNCHANGED <<q_receivers, r_msg, cursor, deleted, filter, handing>>
    BY <1>10 DEF Enqueue, Enlist, Return, Goto, ctlvars, lists, hvars
  <2>3. IsInjective(q_receivers) /\ Range(q_receivers) = Unanswered /\ \A u \in Unanswered : Matching(filter[u]) = {}
    BY <2>1, ListFact
  <2>4. Unanswered' = Unanswered
    BY <2>2 DEF Unanswered
  <2>5. ~Freeing' /\ handing # "EAGAIN"
    BY <2>1, <2>2, NoWalk DEF Freeing, Answers
  <2>6. /\ Len(q_messages') = Len(q_messages) + 1 /\ q_messages'[Len(q_messages) + 1] = smsg[t]
        /\ \A j \in 1..Len(q_messages) : q_messages'[j] = q_messages[j]
    BY <2>1, <2>2, AppendProperties, SMTT(30)
  <2>7. ASSUME NEW u \in Unanswered PROVE ~testmsg(smsg[t], filter[u])
    <3>1. PICK i \in 1..Len(q_receivers) : q_receivers[i] = u
      BY <2>3, SMTT(30) DEF Range
    <3> QED BY <2>2, <3>1 DEF Takers
  <2>8. \A u \in Unanswered' : Matching(filter[u])' = {}
    BY <2>2, <2>3, <2>4, <2>6, <2>7, SMTT(30) DEF Matching
  <2> QED BY <1>3, <2>1, <2>2, <2>3, <2>4, <2>5, <2>8
<1>11. ASSUME NEW t \in Tasks, Store(t) PROVE ReceiverInv'
  <2>1. /\ lock = t /\ waking \in Tasks /\ waking # t /\ r_msg[waking] = "NULL" /\ ~deleted
        /\ waking' = NoTask /\ handing' = "NULL" /\ r_msg' = [r_msg EXCEPT ![waking] = handing]
        /\ \/ handing \in Messages /\ pc' = [pc EXCEPT ![t] = "idle"]
           \/ handing = "E2BIG" /\ pc' = [pc EXCEPT ![t] = "pipelined_send"]
           \/ handing = "EIDRM" /\ pc' = [pc EXCEPT ![t] = "freeque"]
           \/ handing = "EAGAIN" /\ pc' = [pc EXCEPT ![t] = "ipc_set"]
    BY <1>11, StoreEffect
  <2>2. pc[t] = "store" /\ UNCHANGED <<q_receivers, filter, q_messages, cursor, deleted>>
    BY <1>11 DEF Store, ctlvars, qvars, lists
  <2>3. \A u \in Tasks : pc[u] \in Owner => u = t
    BY <2>1 DEF LockInv
  <2>4. Freeing' <=> Freeing
    <3>1. Freeing <=> handing = "EIDRM"
      BY <2>2, <2>3 DEF Freeing, Answers, Owner
    <3>2. Freeing' <=> pc'[t] = "freeque"
      BY <2>1, <2>2, <2>3 DEF Freeing, Owner
    <3> QED BY <1>1, <2>1, <3>1, <3>2
  <2>5. CASE handing = "EAGAIN"
    <3>1. ~Freeing /\ Unanswered' = Unanswered \cup {waking}
      BY <2>1, <2>2, <2>3, <2>5 DEF Freeing, Unanswered, Owner
    <3>2. \A u \in Tasks : u \in Range(q_receivers) <=> u \in Unanswered'
      BY <2>1, <2>5, <3>1 DEF ReceiverInv
    <3> QED BY <2>1, <2>2, <2>4, <3>1, <3>2 DEF ReceiverInv, Matching
  <2>6. CASE handing # "EAGAIN"
    <3>1. Unanswered' = Unanswered
      BY <2>1, <2>6 DEF Unanswered
    <3> QED BY <2>1, <2>2, <2>4, <2>6, <3>1, ZenonT(30), SMTT(30) DEF ReceiverInv, Matching
  <2> QED BY <2>5, <2>6
\* a message leaves the queue: what nobody matched before, nobody matches after
<1>12. ASSUME NEW f, ReceiveQueued(NoTask, f) \/ \E t \in Tasks : ReceiveQueued(t, f)
       PROVE  \A g : Matching(g) = {} => {k \in 1..Len(q_messages') : testmsg(q_messages'[k], g)} = {}
  <2>1. Walk(f) \in 1..Len(q_messages) /\ q_messages' = RemoveAt(q_messages, Walk(f))
    BY <1>12, WalkFact, ZenonT(30), SMTT(30) DEF ReceiveQueued, Delist
  <2>2. \A j \in 1..Len(q_messages') : \E k \in 1..Len(q_messages) : q_messages'[j] = q_messages[k]
    <3>1. ASSUME NEW w \in 1..Len(q_messages), q_messages' = RemoveAt(q_messages, w),
                 NEW j \in 1..Len(q_messages')
          PROVE  \E k \in 1..Len(q_messages) : q_messages'[j] = q_messages[k]
      <4>1. q_messages \in Seq(Messages)
        OBVIOUS
      <4>2. \A n \in 1..Len(RemoveAt(q_messages, w)) :
              \E k \in 1..Len(q_messages) : k # w /\ RemoveAt(q_messages, w)[n] = q_messages[k]
        BY <4>1, RemoveAtKeeps
      <4> QED BY <3>1, <4>2
    <3> QED BY <2>1, <3>1
  <2> QED BY <2>2 DEF Matching
<1>13. ASSUME NEW t \in Tasks, NEW a \in RcvArgs, MsgrcvCall(t, a) PROVE ReceiverInv'
  <2>1. /\ pc[t] = "idle" /\ lock = NoTask /\ ~deleted /\ UNCHANGED <<handing, cursor, deleted>>
        /\ r_msg[t] = "NULL"
    BY <1>13 DEF MsgrcvCall, ctlvars, hvars, CallInv, Waiting
  <2>2. cursor = 0
    BY <2>1, SMTT(30) DEF LockInv, CtlLocked
  <2>3. IsInjective(q_receivers) /\ Range(q_receivers) = Unanswered /\ \A u \in Unanswered : Matching(filter[u]) = {}
    BY <2>1, <2>2, ListFact, ZenonT(30), SMTT(30)
  <2>4. ~Freeing /\ handing # "EAGAIN"
    BY <2>2, NoWalk
  <2>5. CASE ReceiveQueued(t, FilterOf(a)) /\ UNCHANGED q_receivers
    <3>1. /\ pc' = [pc EXCEPT ![t] = "idle"] /\ r_msg' = [r_msg EXCEPT ![t] = "NULL"]
          /\ filter' = [filter EXCEPT ![t] = NoFilter]
      BY <2>5, ZenonT(30), SMTT(30) DEF ReceiveQueued, RcvReturn, Return, Goto
    <3>2. ~Freeing'
      BY <2>1, <2>4, <3>1 DEF Freeing, Answers
    <3>3. Unanswered' = Unanswered /\ t \notin Unanswered
      BY <2>1, <3>1 DEF Unanswered
    <3>4. \A u \in Unanswered : Matching(filter[u])' = {}
      BY <1>12, <2>3, <2>5, <3>1, <3>3, ZenonT(30), SMTT(30) DEF Matching, Unanswered
    <3> QED BY <1>3, <2>1, <2>2, <2>3, <2>4, <2>5, <3>2, <3>3, <3>4, ZenonT(30), SMTT(30)
  <2>6. CASE ReceiveSleep(t, FilterOf(a)) /\ q_receivers' = Append(q_receivers, t)
    <3>1. /\ pc' = [pc EXCEPT ![t] = "rcv_sleep"] /\ r_msg' = [r_msg EXCEPT ![t] = "EAGAIN"]
          /\ filter' = [filter EXCEPT ![t] = FilterOf(a)] /\ UNCHANGED q_messages
          /\ Matching(FilterOf(a)) = {}
      BY <2>6 DEF ReceiveSleep, Goto, qvars
    <3>2. ~Freeing'
      BY <2>1, <2>4, <3>1 DEF Freeing, Answers
    <3>3. Unanswered' = Unanswered \cup {t} /\ t \notin Unanswered
      BY <2>1, <3>1 DEF Unanswered
    <3>4. \A u \in Unanswered' : Matching(filter[u])' = {}
      BY <2>3, <3>1, <3>3 DEF Matching, Unanswered
    <3>5. IsInjective(q_receivers') /\ Range(q_receivers') = Range(q_receivers) \cup {t}
      BY <2>3, <2>6, <3>3, AppendKeeps, SMTT(30)
    <3> QED BY <1>3, <2>1, <2>2, <2>3, <2>4, <3>2, <3>3, <3>4, <3>5, ZenonT(30), SMTT(30)
  <2> QED BY <1>13, <2>5, <2>6 DEF MsgrcvCall
\* a receiver leaves with its answer
<1>14. ASSUME NEW t \in Tasks, pc[t] \in Waiting, r_msg[t] \notin {"EAGAIN", "NULL"},
              pc' = [pc EXCEPT ![t] = "idle"],
              r_msg' = [r_msg EXCEPT ![t] = "NULL"], filter' = [filter EXCEPT ![t] = NoFilter],
              UNCHANGED <<q_receivers, q_messages, waking, handing, cursor, deleted>>
       PROVE  ReceiverInv'
  <2>1. Unanswered' = Unanswered /\ t \notin Unanswered
    BY <1>14 DEF Unanswered
  <2>2. Freeing' <=> Freeing
    BY <1>5, <1>14, ZenonT(30), SMTT(30) DEF Labels, Answers, Waiting
  <2>3. CASE deleted
    BY <1>14, <2>1, <2>3 DEF ReceiverInv
  <2>4. CASE ~deleted /\ Freeing
    BY <1>14, <2>1, <2>2, <2>4 DEF ReceiverInv
  <2>5. CASE ~deleted /\ ~Freeing
    <3>1. handing = "EAGAIN" => waking # t
      BY <1>14 DEF AnswerInv
    <3>2. t \notin Range(q_receivers)
      BY <2>1, <2>5, <3>1, ZenonT(30), SMTT(30) DEF ReceiverInv
    <3>3. \A u \in Range(q_receivers) : Matching(filter[u])' = {}
      BY <1>2, <1>14, <2>5, <3>2 DEF ReceiverInv, Matching
    <3> QED BY <1>14, <2>1, <2>2, <2>5, <3>3, ZenonT(30), SMTT(30) DEF ReceiverInv
  <2> QED BY <2>3, <2>4, <2>5
<1>15. ASSUME NEW t \in Tasks, MsgrcvLockless(t) PROVE ReceiverInv'
  <2>1. /\ pc[t] = "rcv_rcu" /\ r_msg[t] # "NULL"
        /\ UNCHANGED <<q_receivers, q_messages, waking, handing, cursor, deleted>>
    BY <1>15, ZenonT(30), SMTT(30) DEF MsgrcvLockless, lists, qvars, hvars, ctlvars
  <2>2. CASE r_msg[t] # "EAGAIN" /\ Accept(t)
    BY <1>14, <2>1, <2>2, ZenonT(30), SMTT(30) DEF Accept, RcvReturn, Return, Goto, Waiting
  <2>3. CASE pc' = [pc EXCEPT ![t] = "rcv_lock"] /\ UNCHANGED <<filter, r_msg>>
    BY <1>4, <1>5, <2>1, <2>3, ZenonT(30), SMTT(30) DEF Labels, Answers, Waiting
  <2> QED BY <1>15, <2>2, <2>3 DEF MsgrcvLockless, Goto
<1>16. ASSUME NEW t \in Tasks, MsgrcvRelock(t) PROVE ReceiverInv'
  <2>1. pc[t] = "rcv_lock" /\ lock = NoTask /\ UNCHANGED <<waking, handing, cursor, deleted>>
    BY <1>16 DEF MsgrcvRelock, ctlvars, hvars
  <2>2. CASE r_msg[t] # "EAGAIN"
    <3>1. r_msg[t] # "NULL"
      <4>1. \A u \in Tasks : pc[u] \notin Answers
        BY <1>1, <2>1 DEF LockInv, Owner, Answers
      <4>2. waking # t
        BY <1>1, <4>1 DEF AnswerInv
      <4> QED BY <2>1, <4>2 DEF CallInv, Waiting
    <3> QED BY <1>14, <1>16, <2>1, <2>2, <3>1, ZenonT(30), SMTT(30) DEF MsgrcvRelock, Accept, RcvReturn, Return, Goto, Waiting, qvars
  <2>3. CASE r_msg[t] = "EAGAIN"
    <3>1. ~deleted /\ cursor = 0
      BY <2>1, <2>3, SMTT(30) DEF ReceiverInv, Unanswered, LockInv, CtlLocked
    <3>2. IsInjective(q_receivers) /\ Range(q_receivers) = Unanswered
          /\ \A u \in Unanswered : Matching(filter[u]) = {}
      BY <3>1, ListFact
    <3>3. ~Freeing /\ handing # "EAGAIN"
      BY <3>1, NoWalk
    <3>4. ASSUME NEW g, Matching(g) = {} PROVE {k \in 1..Len(q_messages') : testmsg(q_messages'[k], g)} = {}
      <4>1. CASE ReceiveQueued(t, filter[t])
        BY <1>12, <3>4, <4>1, ZenonT(30), SMTT(30)
      <4>2. CASE UNCHANGED q_messages
        BY <3>4, <4>2 DEF Matching
      <4> QED BY <1>16, <4>1, <4>2 DEF MsgrcvRelock, ReceiveError, ReceiveSleep, qvars
    <3>5. CASE Unlink(t) /\ RcvReturn(t)
      <4>1. PICK i \in 1..Len(q_receivers) : q_receivers[i] = t /\ q_receivers' = RemoveAt(q_receivers, i)
        BY <3>5 DEF Unlink
      <4>2. IsInjective(q_receivers') /\ Range(q_receivers') = Range(q_receivers) \ {t}
        BY <3>2, <4>1, RemoveAtRange
      <4>3. /\ pc' = [pc EXCEPT ![t] = "idle"] /\ r_msg' = [r_msg EXCEPT ![t] = "NULL"]
            /\ filter' = [filter EXCEPT ![t] = NoFilter]
        BY <3>5 DEF RcvReturn, Return, Goto
      <4>4. Unanswered' = Unanswered \ {t}
        BY <4>3 DEF Unanswered
      <4>5. ~Freeing'
        BY <2>1, <3>3, <4>3 DEF Freeing, Answers
      <4>6. \A u \in Unanswered' : Matching(filter[u])' = {}
        BY <3>2, <3>4, <4>3, <4>4, ZenonT(30), SMTT(30) DEF Matching, Unanswered
      <4> QED BY <1>3, <2>1, <3>1, <3>2, <3>3, <4>2, <4>4, <4>5, <4>6
    <3>6. CASE ReceiveSleep(t, filter[t]) /\ \E i \in 1..Len(q_receivers) :
                 q_receivers[i] = t /\ q_receivers' = Append(RemoveAt(q_receivers, i), t)
      <4>1. PICK i \in 1..Len(q_receivers) :
              q_receivers[i] = t /\ q_receivers' = Append(RemoveAt(q_receivers, i), t)
        BY <3>6
      <4>2. /\ IsInjective(RemoveAt(q_receivers, i)) /\ RemoveAt(q_receivers, i) \in Seq(Tasks)
            /\ Range(RemoveAt(q_receivers, i)) = Range(q_receivers) \ {t}
        BY <3>2, <4>1, RemoveAtRange, RemoveAtProperties
      <4>3. IsInjective(q_receivers') /\ Range(q_receivers') = (Range(q_receivers) \ {t}) \cup {t}
        BY <4>1, <4>2, AppendKeeps, SMTT(30)
      <4>4. /\ pc' = [pc EXCEPT ![t] = "rcv_sleep"] /\ r_msg' = [r_msg EXCEPT ![t] = "EAGAIN"]
            /\ filter' = [filter EXCEPT ![t] = filter[t]] /\ Matching(filter[t]) = {}
        BY <3>6 DEF ReceiveSleep, Goto
      <4>5. Unanswered' = Unanswered /\ t \in Unanswered
        BY <2>3, <4>4 DEF Unanswered
      <4>6. ~Freeing'
        BY <2>1, <3>3, <4>4 DEF Freeing, Answers
      <4>7. \A u \in Unanswered' : Matching(filter[u])' = {}
        BY <3>2, <3>4, <4>4, <4>5, ZenonT(30), SMTT(30) DEF Matching, Unanswered
      <4>8. Range(q_receivers') = Unanswered'
        BY <3>2, <4>3, <4>5
      <4> QED BY <1>3, <2>1, <3>1, <3>3, <4>3, <4>6, <4>7, <4>8
    <3> QED BY <1>16, <2>3, <3>5, <3>6, ZenonT(30), SMTT(30) DEF MsgrcvRelock, ReceiveQueued, ReceiveError
  <2> QED BY <2>2, <2>3
<1>17. ASSUME NEW t \in Tasks, expunge_all(t) PROVE ReceiverInv'
  <2> DEFINE r == q_receivers[cursor]
  <2>1. /\ pc[t] \in {"freeque", "ipc_set"} /\ lock = t /\ ~deleted /\ cursor \in 1..Len(q_receivers)
    BY <1>17, CtlLocks, SMTT(30) DEF expunge_all
  <2>2. /\ waking' = r /\ r_msg' = [r_msg EXCEPT ![r] = "NULL"] /\ cursor' = cursor + 1
        /\ handing' = IF pc[t] = "freeque" THEN "EIDRM" ELSE "EAGAIN"
        /\ pc' = [pc EXCEPT ![t] = "wake_up"]
        /\ UNCHANGED <<q_receivers, filter, q_messages, deleted>>
    BY <1>17 DEF expunge_all, Answering, Goto, ctlvars, lists, qvars
  <2>0. /\ IsInjective(q_receivers)
        /\ \A i \in 1..Len(q_receivers) : i >= cursor => q_receivers[i] \in Unanswered
    BY <2>1, <1>30, SMTT(30)
  <2>3. /\ r \in Tasks /\ IsInjective(q_receivers) /\ r \in Range(q_receivers)
        /\ \A i \in 1..Len(q_receivers) : q_receivers[i] = r => i = cursor
    <3>1. r \in Tasks /\ r \in Range(q_receivers)
      BY <2>1, SMTT(30) DEF Range
    <3> QED BY <2>0, <2>1, <3>1, SMTT(30) DEF IsInjective
  <2>9. r \in Unanswered
    BY <2>0, <2>1, SMTT(30)
  <2> HIDE DEF r
  <2>4. \A u \in Tasks : pc[u] \in Owner => u = t
    BY <2>1 DEF LockInv
  <2>5. \A u \in Tasks : pc[u] \notin Answers
    BY <2>1, <2>4 DEF Answers, Owner
  <2>6. handing = "NULL" /\ waking = NoTask
    BY <2>5 DEF AnswerInv
  <2>7. (Freeing <=> pc[t] = "freeque") /\ (Freeing' <=> pc[t] = "freeque")
    BY <2>1, <2>2, <2>4, <2>5 DEF Freeing, Owner, Answers
  <2>8. Unanswered' = Unanswered \ {r}
    BY <2>2, <2>3 DEF Unanswered
  <2>10. \A i \in 1..Len(q_receivers) : i >= cursor' => q_receivers[i] \in Unanswered'
    BY <2>0, <2>1, <2>2, <2>3, <2>8, SMTT(30)
  <2>11. CASE pc[t] = "freeque"
    <3>1. ASSUME NEW u \in Unanswered'
          PROVE  \E i \in 1..Len(q_receivers) : q_receivers[i] = u /\ i >= cursor'
      <4>1. PICK i \in 1..Len(q_receivers) : q_receivers[i] = u /\ i >= cursor
        BY <2>1, <2>7, <2>8, <2>11, ZenonT(30), SMTT(30) DEF ReceiverInv
      <4>2. i # cursor
        BY <2>8, <4>1 DEF r
      <4> QED BY <2>2, <4>1, <4>2, SMTT(30)
    <3> QED BY <2>1, <2>2, <2>3, <2>7, <2>10, <2>11, <3>1 DEF ReceiverInv
  <2>12. CASE pc[t] # "freeque"
    <3>1. \A u \in Tasks : u \in Range(q_receivers) <=> u \in Unanswered
      BY <2>1, <2>6, <2>7, <2>12, ZenonT(30), SMTT(30) DEF ReceiverInv
    <3>2. \A u \in Tasks : u \in Range(q_receivers) <=>
            u \in Unanswered' \/ (u = waking' /\ handing' = "EAGAIN")
      BY <2>2, <2>8, <2>9, <2>12, <3>1
    <3>3. \A u \in Range(q_receivers) : Matching(filter[u])' = {}
      BY <2>1, <2>2, <2>7, <2>12, ZenonT(30), SMTT(30) DEF ReceiverInv, Matching
    <3> QED BY <2>1, <2>2, <2>3, <2>7, <2>10, <2>12, <3>2, <3>3, ZenonT(30), SMTT(30) DEF ReceiverInv
  <2> QED BY <2>11, <2>12
<1>18. ASSUME NEW t \in Tasks, IpcRmid(t) \/ \E b \in QBytes, p \in Modes : IpcSet(t, b, p)
       PROVE  ReceiverInv'
  <2>1. /\ pc[t] = "idle" /\ lock = NoTask /\ ~deleted /\ cursor' = 1
        /\ pc' = [pc EXCEPT ![t] = "freeque"] \/ pc' = [pc EXCEPT ![t] = "ipc_set"]
        /\ UNCHANGED <<q_receivers, r_msg, filter, q_messages, waking, handing, deleted>>
    BY <1>18 DEF IpcRmid, IpcSet, CtlEnter, Goto, qvars, lists, callvars
  <2>2. cursor = 0
    BY <2>1, SMTT(30) DEF LockInv, CtlLocked
  <2>3. IsInjective(q_receivers) /\ Range(q_receivers) = Unanswered
        /\ \A u \in Unanswered : Matching(filter[u]) = {}
    BY <2>1, <2>2, ListFact, ZenonT(30), SMTT(30)
  <2>4. handing # "EAGAIN"
    BY <2>2, NoWalk
  <2>5. Unanswered' = Unanswered
    BY <2>1 DEF Unanswered
  <2>6. \A i \in 1..Len(q_receivers) : q_receivers[i] \in Unanswered
    BY <2>3, SMTT(30) DEF Range
  <2>7. \A u \in Unanswered : \E i \in 1..Len(q_receivers) : q_receivers[i] = u /\ i >= 1
    BY <2>3, SMTT(30) DEF Range
  <2>8. \A u \in Range(q_receivers) : Matching(filter[u])' = {}
    BY <2>1, <2>3 DEF Matching
  <2> QED BY <2>1, <2>3, <2>4, <2>5, <2>6, <2>7, <2>8, ZenonT(30), SMTT(30) DEF ReceiverInv
<1>19. ASSUME NEW t \in Tasks, IpcSetDone(t) PROVE ReceiverInv'
  <2>1. /\ pc[t] = "ipc_set" /\ lock = t /\ ~deleted /\ cursor' = 0
        /\ pc' = [pc EXCEPT ![t] = "idle"]
        /\ UNCHANGED <<q_receivers, r_msg, filter, q_messages, waking, handing, deleted>>
    BY <1>19, CtlLocks DEF IpcSetDone, Return, Goto, qvars, callvars
  <2>2. \A u \in Tasks : pc[u] \in Owner => u = t
    BY <2>1 DEF LockInv
  <2>3. \A u \in Tasks : pc[u] \notin Answers /\ pc[u] # "freeque"
    BY <2>1, <2>2 DEF Answers, Owner
  <2>4. handing = "NULL" /\ ~Freeing /\ ~Freeing'
    BY <2>1, <2>3 DEF AnswerInv, Freeing, Answers
  <2>5. Unanswered' = Unanswered /\ Range(q_receivers) = Unanswered
    BY <1>2, <2>1, <2>4 DEF ReceiverInv, Unanswered
  <2>6. \A u \in Range(q_receivers) : Matching(filter[u])' = {}
    BY <2>1, <2>4 DEF ReceiverInv, Matching
  <2>7. IsInjective(q_receivers)
    BY <2>1 DEF ReceiverInv
  <2> QED BY <1>3, <2>1, <2>4, <2>5, <2>6, <2>7
<1>20. ASSUME NEW t \in Tasks, FreequeUnlock(t) PROVE ReceiverInv'
  <2>1. /\ pc[t] = "freeque" /\ ~deleted /\ cursor > Len(q_receivers) /\ deleted' /\ UNCHANGED r_msg
    BY <1>20, CtlLocks DEF FreequeUnlock, callvars
  <2>2. \A u \in Unanswered : FALSE
    <3>1. Freeing
      BY <2>1 DEF Freeing
    <3>2. \A u \in Unanswered : \E i \in 1..Len(q_receivers) : q_receivers[i] = u /\ i >= cursor
      BY <2>1, <3>1 DEF ReceiverInv
    <3> QED BY <2>1, <3>2, SMTT(30)
  <2> QED BY <2>1, <2>2 DEF ReceiverInv, Unanswered
<1>21. ASSUME NEW t \in Tasks, FreequeMsg(t) \/ FreequeLoad(t) \/ FreequePutref(t) PROVE ReceiverInv'
  <2>1. pc[t] \in {"free_msgs", "putref"} /\ UNCHANGED <<deleted, r_msg>>
    BY <1>21 DEF FreequeMsg, FreequeLoad, FreequePutref, callvars, ctlvars
  <2> QED BY <1>6, <2>1 DEF LockInv
<1>22. ASSUME NEW t \in Tasks, WakeUp(t) \/ MsgrcvWake(t) PROVE ReceiverInv'
  <2>1. /\ UNCHANGED <<q_receivers, r_msg, filter, q_messages, waking, handing, cursor, deleted>>
        /\ \/ pc[t] = "wake_up" /\ pc' = [pc EXCEPT ![t] = "store"]
           \/ pc[t] = "rcv_sleep" /\ pc' = [pc EXCEPT ![t] = "rcv_rcu"]
    BY <1>22 DEF WakeUp, MsgrcvWake, Goto, qvars, lists, callvars, hvars, ctlvars
  <2> QED BY <1>4, <1>5, <2>1 DEF Labels, Answers, Waiting
<1>23. ASSUME (\E t \in Tasks : Signal(t)) \/ GracePeriod \/ UNCHANGED vars PROVE ReceiverInv'
  <2>1. UNCHANGED <<q_receivers, r_msg, filter, q_messages, waking, handing, cursor, deleted, pc>>
    BY <1>23, ZenonT(30), SMTT(30) DEF Signal, GracePeriod, vars, qvars, lists, callvars, hvars, ctlvars
  <2> QED BY <1>4, <2>1 DEF Freeing
<1> QED BY <1>7, <1>8, <1>9, <1>10, <1>11, <1>13, <1>15, <1>16, <1>17, <1>18, <1>19, <1>20, <1>21, <1>22, <1>23
     DEF Next, Inside, Call

=============================================================================
