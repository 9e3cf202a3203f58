--------------------------- MODULE SysvMsgProofs ----------------------------
(***************************************************************************)
(* Theorems about SysvMsg, for any set of tasks and messages, with proofs. *)
(***************************************************************************)
EXTENDS SysvMsgSteps

\* the provers tried, in this order, on a step that names none
USE ZenonT(30), SMTT(30)

-----------------------------------------------------------------------------
(* What every step preserves: the holders of the messages and the counters *)

\* Each step moves a message from one holder to the next, or in or out of the
\* kernel: HoldInv is preserved.
LEMMA HoldStep == ASSUME IInv, [Next]_vars PROVE HoldInv'
<1> DEFINE hold == <<smsg, r_msg, q_messages, fate>>
<1>0. /\ smsg \in [Tasks -> Messages \cup {"NULL"}] /\ r_msg \in [Tasks -> Messages \cup Codes]
      /\ q_messages \in Seq(Messages) /\ pc \in [Tasks -> Labels]
      /\ fate \in [Messages -> {"unsent", "kernel", "received", "destroyed"}]
  BY DEF IInv, Accounting, TypeOK
<1>1. "NULL" \notin Messages /\ "EAGAIN" \notin Messages /\ "EIDRM" \notin Messages
      /\ "E2BIG" \notin Messages
  BY ConstantsAssumption DEF Codes
<1>2. Range(q_messages) \subseteq Messages
  BY <1>0, SMTT(30) DEF Range
<1>3. CASE UNCHANGED hold
  BY <1>3 DEF IInv, HoldInv, Apart
<1>4. ASSUME NEW t \in Tasks, NEW m \in Messages, MsgsndCall(t, m) PROVE HoldInv'
  <2>1. /\ smsg[t] = "NULL" /\ fate[m] # "kernel"
        /\ smsg' = [smsg EXCEPT ![t] = m] /\ fate' = [fate EXCEPT ![m] = "kernel"]
        /\ UNCHANGED <<r_msg, q_messages>>
    BY <1>4 DEF MsgsndCall, SendBegin, SendSleep, qvars, IInv, CallInv
  <2>2. smsg'[t] = m /\ \A u \in Tasks : u # t => smsg'[u] = smsg[u]
    BY <1>0, <2>1
  <2>3. m \notin Range(q_messages) /\ \A u \in Tasks : smsg[u] # m /\ r_msg[u] # m
    BY <2>1 DEF IInv, HoldInv
  <2>4. Apart'
    BY <1>0, <1>1, <2>1, <2>2, <2>3, SMTT(30) DEF IInv, HoldInv, Apart
  <2>5. \A u \in Tasks : smsg'[u] \notin Range(q_messages)
    BY <2>2, <2>3 DEF IInv, HoldInv
  <2>6. ASSUME NEW x \in Messages
        PROVE  fate'[x] = "kernel" <=>
                 x \in Range(q_messages) \/ \E u \in Tasks : smsg'[u] = x \/ r_msg[u] = x
    <3>1. CASE x = m
      BY <1>0, <2>1, <2>2, <3>1
    <3>2. CASE x # m
      <4>1. fate'[x] = fate[x] /\ \A u \in Tasks : smsg'[u] = x <=> smsg[u] = x
        BY <1>0, <1>1, <2>1, <2>2, <3>2
      <4> QED BY <4>1 DEF IInv, HoldInv
    <3> QED BY <3>1, <3>2
  <2> QED BY <2>1, <2>4, <2>5, <2>6 DEF IInv, HoldInv
<1>5. ASSUME NEW t \in Tasks, MsgsndWake(t) PROVE HoldInv'
  <2>1. smsg[t] \in Messages /\ fate[smsg[t]] = "kernel" /\ UNCHANGED <<r_msg, q_messages>>
    BY <1>5, <1>0 DEF MsgsndWake, qvars, IInv, CallInv, HoldInv
  <2>2. \/ smsg' = [smsg EXCEPT ![t] = "NULL"] /\ fate' = [fate EXCEPT ![smsg[t]] = "unsent"]
        \/ UNCHANGED hold
    BY <1>5, <1>0, <2>1, SMTT(30) DEF MsgsndWake, Refuse, SendNoPerm, SendBegin, SendSleep
  <2>3. CASE smsg' = [smsg EXCEPT ![t] = "NULL"] /\ fate' = [fate EXCEPT ![smsg[t]] = "unsent"]
    <3>1. smsg[t]' = "NULL" /\ \A u \in Tasks : u # t => smsg'[u] = smsg[u]
      BY <1>0, <2>3
    <3>2. Apart'
      BY <1>0, <1>1, <2>1, <3>1, SMTT(30) DEF IInv, HoldInv, Apart
    <3>4. \A u \in Tasks : smsg'[u] \notin Range(q_messages)
      BY <1>1, <1>2, <3>1 DEF IInv, HoldInv
    <3>3. ASSUME NEW x \in Messages
          PROVE  fate'[x] = "kernel" <=>
                   x \in Range(q_messages) \/ \E u \in Tasks : smsg'[u] = x \/ r_msg[u] = x
      <4>1. CASE x = smsg[t]
        BY <1>0, <1>1, <2>1, <2>3, <3>1, <4>1, SMTT(30) DEF IInv, HoldInv, Apart
      <4>2. CASE x # smsg[t]
        BY <1>0, <1>1, <2>1, <2>3, <3>1, <4>2, SMTT(30) DEF IInv, HoldInv
      <4> QED BY <4>1, <4>2
    <3> QED BY <2>1, <3>2, <3>3, <3>4 DEF IInv, HoldInv
  <2> QED BY <1>3, <2>2, <2>3
<1>6. ASSUME NEW w \in Tasks, r_msg[w] \notin Messages, NEW x \in Codes,
             r_msg' = [r_msg EXCEPT ![w] = x], UNCHANGED <<smsg, q_messages, fate>>
      PROVE  HoldInv'
  <2>1. r_msg'[w] \notin Messages /\ \A u \in Tasks : u # w => r_msg'[u] = r_msg[u]
    BY <1>0, <1>1, <1>6 DEF Codes
  <2>2. Apart'
    BY <1>0, <1>6, <2>1, SMTT(30) DEF IInv, HoldInv, Apart
  <2>3. \A u \in Tasks : r_msg'[u] \notin Range(q_messages)
    BY <1>2, <2>1 DEF IInv, HoldInv
  <2>4. \A m \in Messages, u \in Tasks : r_msg'[u] = m <=> r_msg[u] = m
    BY <1>6, <2>1
  <2> QED BY <1>6, <2>2, <2>3, <2>4 DEF IInv, HoldInv
<1>7. ASSUME NEW t \in Tasks, PipelinedSelect(t) PROVE HoldInv'
  <2>1. PICK i \in 1..Len(q_receivers) :
          r_msg' = [r_msg EXCEPT ![q_receivers[i]] = "NULL"]
    BY <1>7, TakerFact, ZenonT(30), SMTT(30) DEF PipelinedSelect, Answering, IInv, Accounting
  <2>2. ~deleted /\ cursor = 0 /\ q_receivers \in Seq(Tasks)
    BY <1>7, SenderLocks DEF PipelinedSelect, IInv, Accounting, TypeOK
  <2>3. r_msg[q_receivers[i]] = "EAGAIN" /\ q_receivers[i] \in Tasks
    BY <2>2, ListFact, SMTT(30) DEF Range, Unanswered
  <2>4. UNCHANGED <<smsg, q_messages, fate>>
    BY <1>7 DEF PipelinedSelect, qvars
  <2> QED BY <2>1, <2>3, <2>4, <1>1, <1>6, ZenonT(30), SMTT(30) DEF Codes
<1>8. ASSUME NEW t \in Tasks, Enqueue(t) PROVE HoldInv'
  <2>1. /\ smsg[t] \in Messages
        /\ smsg' = [smsg EXCEPT ![t] = "NULL"] /\ q_messages' = Append(q_messages, smsg[t])
        /\ UNCHANGED <<r_msg, fate>>
    BY <1>8, <1>0 DEF Enqueue, Enlist, IInv, CallInv
  <2>2. smsg[t] \notin Range(q_messages)
    BY DEF IInv, HoldInv
  <2>3. Range(q_messages') = Range(q_messages) \cup {smsg[t]} /\ IsInjective(q_messages')
    BY <1>0, <2>1, <2>2, AppendKeeps, SMTT(30) DEF IInv, HoldInv
  <2>4. smsg'[t] = "NULL" /\ \A u \in Tasks : u # t => smsg'[u] = smsg[u]
    BY <1>0, <2>1
  <2>5. /\ Apart'
        /\ \A u \in Tasks : smsg'[u] \notin Range(q_messages') /\ r_msg[u] \notin Range(q_messages')
    BY <1>0, <1>1, <1>2, <2>1, <2>3, <2>4, SMTT(30) DEF IInv, HoldInv, Apart
  <2>6. ASSUME NEW x \in Messages
        PROVE  fate[x] = "kernel" <=>
                 x \in Range(q_messages') \/ \E u \in Tasks : smsg'[u] = x \/ r_msg[u] = x
    BY <1>0, <1>1, <2>1, <2>3, <2>4, SMTT(30) DEF IInv, HoldInv
  <2> QED BY <2>1, <2>3, <2>5, <2>6 DEF HoldInv
<1>9. ASSUME NEW t \in Tasks, Store(t) PROVE HoldInv'
  <2>1. /\ waking \in Tasks /\ r_msg[waking] = "NULL" /\ r_msg' = [r_msg EXCEPT ![waking] = handing]
        /\ UNCHANGED <<q_messages, fate>>
    BY <1>9 DEF Store, qvars, IInv, AnswerInv, Answers
  <2>2. CASE handing \in Messages
    <3>1. smsg[t] = handing /\ smsg' = [smsg EXCEPT ![t] = "NULL"]
      BY <1>9, <1>1, <2>2 DEF Store, IInv, AnswerInv, Answers
    <3>2. /\ smsg'[t] = "NULL" /\ \A u \in Tasks : u # t => smsg'[u] = smsg[u]
          /\ r_msg'[waking] = smsg[t] /\ \A u \in Tasks : u # waking => r_msg'[u] = r_msg[u]
      BY <1>0, <2>1, <3>1
    <3>3. /\ Apart'
          /\ \A u \in Tasks : smsg'[u] \notin Range(q_messages) /\ r_msg'[u] \notin Range(q_messages)
      BY <1>0, <1>1, <1>2, <2>1, <2>2, <3>1, <3>2, SMTT(30) DEF IInv, HoldInv, Apart
    <3>4. ASSUME NEW x \in Messages
          PROVE  fate[x] = "kernel" <=>
                   x \in Range(q_messages) \/ \E u \in Tasks : smsg'[u] = x \/ r_msg'[u] = x
      <4>1. (\E u \in Tasks : smsg[u] = x \/ r_msg[u] = x) <=>
            (\E u \in Tasks : smsg'[u] = x \/ r_msg'[u] = x)
        <5>1. CASE x = smsg[t]
          BY <2>1, <3>2, <5>1
        <5>2. CASE x # smsg[t]
          BY <1>1, <2>1, <3>2, <5>2
        <5> QED BY <5>1, <5>2
      <4> QED BY <4>1 DEF IInv, HoldInv
    <3> QED BY <2>1, <3>3, <3>4 DEF IInv, HoldInv
  <2>3. CASE handing \notin Messages
    <3>1. handing \in Codes /\ UNCHANGED smsg
      BY <1>9, <2>3 DEF Store, IInv, Accounting, TypeOK
    <3> QED BY <1>1, <1>6, <2>1, <3>1, ZenonT(30), SMTT(30)
  <2> QED BY <2>2, <2>3
<1>10. ASSUME NEW m \in Messages, fate' = [fate EXCEPT ![m] = "received"]
              \/ fate' = [fate EXCEPT ![m] = "destroyed"],
              Range(q_messages') = Range(q_messages) \ {m}, IsInjective(q_messages'),
              m \in Range(q_messages), UNCHANGED smsg,
              \A u \in Tasks : r_msg'[u] \in {r_msg[u], "NULL"}
                            /\ (r_msg[u] \in Messages => r_msg'[u] = r_msg[u])
       PROVE  HoldInv'
  <2>1. Apart'
    BY <1>0, <1>1, <1>10, SMTT(30) DEF IInv, HoldInv, Apart
  <2>4. \A u \in Tasks : smsg[u] \notin Range(q_messages') /\ r_msg'[u] \notin Range(q_messages')
    BY <1>1, <1>2, <1>10 DEF IInv, HoldInv
  <2>2. \A u \in Tasks : smsg[u] # m /\ r_msg[u] # m /\ r_msg'[u] # m
    BY <1>1, <1>10, SMTT(30) DEF IInv, HoldInv
  <2>3. ASSUME NEW x \in Messages
        PROVE  fate'[x] = "kernel" <=>
                 x \in Range(q_messages') \/ \E u \in Tasks : smsg[u] = x \/ r_msg'[u] = x
    <3>1. CASE x = m
      BY <1>0, <1>10, <2>2, <3>1
    <3>2. CASE x # m
      <4>1. fate'[x] = fate[x] /\ (x \in Range(q_messages') <=> x \in Range(q_messages))
        BY <1>0, <1>10, <3>2
      <4>2. \A u \in Tasks : r_msg'[u] = x <=> r_msg[u] = x
        BY <1>1, <1>10
      <4> QED BY <4>1, <4>2 DEF IInv, HoldInv
    <3> QED BY <3>1, <3>2
  <2> QED BY <1>10, <2>1, <2>3, <2>4 DEF HoldInv
<1>11. ASSUME NEW t \in Tasks, NEW f, ReceiveQueued(t, f), UNCHANGED smsg,
             r_msg[t] \notin Messages
      PROVE  HoldInv'
  <2>1. Walk(f) \in 1..Len(q_messages)
    BY <1>11, WalkFact DEF ReceiveQueued, IInv, Accounting
  <2>2. /\ q_messages' = RemoveAt(q_messages, Walk(f))
        /\ fate' = [fate EXCEPT ![q_messages[Walk(f)]] = "received"]
        /\ r_msg' = [r_msg EXCEPT ![t] = "NULL"]
    BY <1>11 DEF ReceiveQueued, Delist, RcvReturn
  <2>3. q_messages[Walk(f)] \in Range(q_messages) /\ q_messages[Walk(f)] \in Messages
    BY <1>0, <2>1, SMTT(30) DEF Range
  <2>4. Range(q_messages') = Range(q_messages) \ {q_messages[Walk(f)]} /\ IsInjective(q_messages')
    BY <1>0, <2>1, <2>2, RemoveAtRange DEF IInv, HoldInv
  <2>5. \A u \in Tasks : r_msg'[u] \in {r_msg[u], "NULL"}
                      /\ (r_msg[u] \in Messages => r_msg'[u] = r_msg[u])
    BY <1>0, <1>11, <2>2
  <2> QED BY <1>11, <1>10, <2>2, <2>3, <2>4, <2>5, ZenonT(30), SMTT(30)
<1>12. ASSUME NEW t \in Tasks, Accept(t), UNCHANGED <<smsg, q_messages>> PROVE HoldInv'
  <2>1. /\ r_msg'[t] = "NULL" /\ \A u \in Tasks : u # t => r_msg'[u] = r_msg[u]
        /\ fate' = IF r_msg[t] \in Messages
                   THEN [fate EXCEPT ![r_msg[t]] = "received"] ELSE fate
    BY <1>0, <1>12 DEF Accept, RcvReturn
  <2>2. Apart'
    BY <1>0, <1>1, <1>12, <2>1, SMTT(30) DEF IInv, HoldInv, Apart
  <2>4. \A u \in Tasks : r_msg'[u] \notin Range(q_messages)
    BY <1>1, <1>2, <2>1 DEF IInv, HoldInv
  <2>3. ASSUME NEW x \in Messages
        PROVE  fate'[x] = "kernel" <=>
                 x \in Range(q_messages) \/ \E u \in Tasks : smsg[u] = x \/ r_msg'[u] = x
    <3>1. CASE x = r_msg[t]
      BY <1>0, <1>1, <2>1, <3>1, SMTT(30) DEF IInv, HoldInv, Apart
    <3>2. CASE x # r_msg[t]
      <4>1. fate'[x] = fate[x] /\ \A u \in Tasks : r_msg'[u] = x <=> r_msg[u] = x
        BY <1>0, <1>1, <2>1, <3>2
      <4> QED BY <4>1 DEF IInv, HoldInv
    <3> QED BY <3>1, <3>2
  <2> QED BY <1>12, <2>2, <2>3, <2>4 DEF IInv, HoldInv
<1>13. ASSUME NEW t \in Tasks, NEW a \in RcvArgs, MsgrcvCall(t, a) PROVE HoldInv'
  <2>1. r_msg[t] \notin Messages /\ UNCHANGED smsg
    BY <1>1, <1>13 DEF MsgrcvCall, IInv, CallInv, Waiting
  <2>2. CASE ReceiveQueued(t, FilterOf(a))
    BY <1>11, <2>1, <2>2
  <2>3. CASE ReceiveSleep(t, FilterOf(a))
    <3>1. r_msg' = [r_msg EXCEPT ![t] = "EAGAIN"] /\ UNCHANGED <<q_messages, fate>>
      BY <2>3 DEF ReceiveSleep, qvars
    <3> QED BY <1>6, <2>1, <3>1, ZenonT(30), SMTT(30) DEF Codes
  <2> QED BY <1>13, <2>2, <2>3 DEF MsgrcvCall
<1>14. ASSUME NEW t \in Tasks, MsgrcvLockless(t) PROVE HoldInv'
  BY <1>3, <1>12, <1>14 DEF MsgrcvLockless, qvars
<1>15. ASSUME NEW t \in Tasks, MsgrcvRelock(t) PROVE HoldInv'
  <2>1. UNCHANGED smsg
    BY <1>15 DEF MsgrcvRelock
  <2>2. CASE Accept(t) /\ UNCHANGED qvars
    BY <1>12, <2>1, <2>2 DEF qvars
  <2>3. CASE r_msg[t] = "EAGAIN" /\ ReceiveQueued(t, filter[t])
    BY <1>1, <1>11, <2>1, <2>3
  <2>4. CASE r_msg[t] = "EAGAIN" /\ UNCHANGED <<qvars, fate>>
             /\ (RcvReturn(t) \/ ReceiveSleep(t, filter[t]))
    <3>1. PICK x \in Codes : r_msg' = [r_msg EXCEPT ![t] = x]
      BY <2>4 DEF RcvReturn, ReceiveSleep, Codes
    <3> QED BY <1>1, <1>6, <2>1, <2>4, <3>1, ZenonT(30), SMTT(30) DEF qvars
  <2> QED BY <1>15, <2>2, <2>3, <2>4 DEF MsgrcvRelock, ReceiveError, ReceiveSleep
<1>16. ASSUME NEW t \in Tasks, expunge_all(t) PROVE HoldInv'
  <2>1. ~deleted /\ cursor \in 1..Len(q_receivers) /\ q_receivers \in Seq(Tasks)
    BY <1>16, CtlLocks, SMTT(30) DEF expunge_all, IInv, Accounting, TypeOK
  <2>2. r_msg[q_receivers[cursor]] = "EAGAIN" /\ q_receivers[cursor] \in Tasks
    BY <2>1, SMTT(30) DEF IInv, ReceiverInv, Unanswered
  <2>3. r_msg' = [r_msg EXCEPT ![q_receivers[cursor]] = "NULL"] /\ UNCHANGED <<smsg, q_messages, fate>>
    BY <1>16 DEF expunge_all, Answering, qvars
  <2> QED BY <1>1, <1>6, <2>2, <2>3, ZenonT(30), SMTT(30) DEF Codes
<1>17. ASSUME NEW t \in Tasks, FreequeMsg(t) PROVE HoldInv'
  <2>1. /\ q_messages # <<>> /\ q_messages' = Tail(q_messages)
        /\ fate' = [fate EXCEPT ![Head(q_messages)] = "destroyed"] /\ UNCHANGED <<smsg, r_msg>>
    BY <1>17 DEF FreequeMsg, callvars
  <2>2. /\ Head(q_messages) \in Range(q_messages)
        /\ Range(q_messages') = Range(q_messages) \ {Head(q_messages)} /\ IsInjective(q_messages')
    BY <1>0, <2>1, TailRange DEF IInv, HoldInv
  <2> QED BY <1>2, <1>10, <2>1, <2>2, ZenonT(30), SMTT(30)
<1>18. ASSUME NEW t \in Tasks,
              \/ WakeUp(t) \/ MsgrcvWake(t) \/ IpcSetDone(t) \/ FreequeUnlock(t)
              \/ FreequeLoad(t) \/ FreequePutref(t) \/ IpcRmid(t) \/ Signal(t)
              \/ \E b \in QBytes, p \in Modes : IpcSet(t, b, p)
       PROVE  HoldInv'
  BY <1>3, <1>18, ZenonT(30), SMTT(30) DEF WakeUp, MsgrcvWake, IpcSetDone, FreequeUnlock, FreequeLoad, FreequePutref,
       IpcRmid, Signal, IpcSet, qvars, callvars
<1>19. CASE GracePeriod
  BY <1>3, <1>19 DEF GracePeriod, qvars, callvars
<1>20. CASE UNCHANGED vars
  BY <1>3, <1>20 DEF vars, qvars, callvars
<1> QED BY <1>4, <1>5, <1>7, <1>8, <1>9, <1>13, <1>14, <1>15, <1>16, <1>17, <1>18, <1>19, <1>20
     DEF Next, Inside, Call

\* Every action that changes the list changes the counters with it.
LEMMA AccountingStep == ASSUME IInv, [Next]_vars, TypeOK' PROVE Accounting'
<1> DEFINE Emptying == \E u \in Tasks : pc[u] = "free_msgs"
<1>1. /\ pc \in [Tasks -> Labels] /\ q_messages \in Seq(Messages) /\ q_cbytes \in Nat
      /\ \A m \in Messages : MSize[m] \in Nat
  BY ConstantsAssumption, ZenonT(30), SMTT(30) DEF IInv, Accounting, TypeOK
<1>2. /\ msg_hdrs = Len(q_messages)
      /\ ~deleted => q_qnum = Len(q_messages) /\ Totals(q_messages, q_cbytes)
      /\ deleted /\ ~Emptying => msg_bytes = 0
      /\ ~deleted \/ Emptying => msg_bytes = q_cbytes
  BY DEF IInv, Accounting
<1>3. ASSUME msg_hdrs' = Len(q_messages'),
             ~deleted' => q_qnum' = Len(q_messages') /\ Totals(q_messages', q_cbytes'),
             deleted' /\ ~Emptying' => msg_bytes' = 0,
             ~deleted' \/ Emptying' => msg_bytes' = q_cbytes'
      PROVE  Accounting'
  BY <1>3 DEF Accounting
<1>4. CASE UNCHANGED <<qvars, deleted>> /\ (Emptying' <=> Emptying)
  BY <1>2, <1>3, <1>4 DEF qvars
<1>5. ASSUME NEW t \in Tasks, NEW l \in Labels, pc' = [pc EXCEPT ![t] = l], UNCHANGED <<qvars, deleted>>,
             pc[t] # "free_msgs", l # "free_msgs"
      PROVE  Accounting'
  <2>1. Emptying' <=> Emptying
    BY <1>1, <1>5
  <2> QED BY <1>4, <1>5, <2>1
<1>6. ASSUME NEW t \in Tasks, Enqueue(t) PROVE Accounting'
  <2>1. smsg[t] \in Messages /\ ~deleted /\ UNCHANGED deleted
    BY <1>6, SenderLocks DEF Enqueue, IInv, Accounting, TypeOK, ctlvars
  <2>2. /\ q_messages' = Append(q_messages, smsg[t]) /\ q_qnum' = q_qnum + 1
        /\ q_cbytes' = q_cbytes + MSize[smsg[t]]
        /\ msg_hdrs' = msg_hdrs + 1 /\ msg_bytes' = msg_bytes + MSize[smsg[t]]
    BY <1>6 DEF Enqueue, Enlist
  <2>3. Len(q_messages') = Len(q_messages) + 1
    BY <1>1, <2>1, <2>2, AppendProperties
  <2>4. Totals(q_messages', q_cbytes')
    BY <1>1, <1>2, <2>1, <2>2, TotalsAppend
  <2> QED BY <1>2, <1>3, <2>1, <2>2, <2>3, <2>4
<1>7. ASSUME NEW f, ~deleted, Matching(f) # {}, Delist(Walk(f)), UNCHANGED deleted PROVE Accounting'
  BY <1>3, <1>7, ReceiveCounts
<1>8. ASSUME NEW t \in Tasks, NEW a \in RcvArgs, MsgrcvCall(t, a) PROVE Accounting'
  <2>1. ~deleted /\ UNCHANGED deleted /\ pc[t] = "idle"
    BY <1>8 DEF MsgrcvCall, ctlvars
  <2>2. CASE ReceiveQueued(t, FilterOf(a))
    BY <1>7, <2>1, <2>2 DEF ReceiveQueued
  <2>3. CASE ReceiveSleep(t, FilterOf(a))
    <3>1. pc' = [pc EXCEPT ![t] = "rcv_sleep"] /\ UNCHANGED qvars
      BY <2>3 DEF ReceiveSleep, Goto
    <3> QED BY <1>5, <2>1, <3>1, ZenonT(30), SMTT(30) DEF Labels, Waiting
  <2> QED BY <1>8, <2>2, <2>3 DEF MsgrcvCall
<1>9. ASSUME NEW t \in Tasks, MsgrcvRelock(t) PROVE Accounting'
  <2>1. UNCHANGED deleted /\ pc[t] = "rcv_lock"
    BY <1>9 DEF MsgrcvRelock, ctlvars
  <2>2. CASE r_msg[t] = "EAGAIN" /\ ReceiveQueued(t, filter[t])
    <3>1. ~deleted
      BY <2>2 DEF IInv, ReceiverInv, Unanswered
    <3> QED BY <1>7, <2>1, <2>2, <3>1 DEF ReceiveQueued
  <2>3. CASE UNCHANGED qvars /\ (RcvReturn(t) \/ ReceiveSleep(t, filter[t]))
    <3>1. pc' = [pc EXCEPT ![t] = "rcv_sleep"] \/ pc' = [pc EXCEPT ![t] = "idle"]
      BY <2>3 DEF ReceiveSleep, RcvReturn, Return, Goto
    <3> QED BY <1>5, <2>1, <2>3, <3>1 DEF Labels, Waiting
  <2> QED BY <1>9, <2>2, <2>3 DEF MsgrcvRelock, Accept, ReceiveError, ReceiveSleep
<1>10. ASSUME NEW t \in Tasks, FreequeUnlock(t) PROVE Accounting'
  <2>1. /\ pc[t] = "freeque" /\ deleted' = TRUE /\ UNCHANGED qvars
        /\ pc' = [pc EXCEPT ![t] = "free_msgs"]
    BY <1>10 DEF FreequeUnlock, Goto
  <2>2. ~deleted /\ Emptying'
    BY <1>1, <2>1, CtlLocks DEF IInv, Accounting
  <2> QED BY <1>2, <1>3, <2>1, <2>2 DEF qvars
<1>11. ASSUME NEW t \in Tasks, FreequeMsg(t) PROVE Accounting'
  <2>1. /\ pc[t] = "free_msgs" /\ q_messages # <<>> /\ msg_hdrs' = msg_hdrs - 1
        /\ q_messages' = Tail(q_messages) /\ UNCHANGED <<deleted, q_cbytes, msg_bytes, pc>>
    BY <1>11 DEF FreequeMsg, ctlvars
  <2>2. deleted /\ Emptying /\ Emptying'
    BY <2>1 DEF IInv, LockInv
  <2>3. Len(q_messages') = Len(q_messages) - 1
    BY <1>1, <2>1, HeadTailProperties
  <2> QED BY <1>2, <1>3, <2>1, <2>2, <2>3
<1>12. ASSUME NEW t \in Tasks, FreequeLoad(t) PROVE Accounting'
  <2>1. /\ pc[t] = "free_msgs" /\ pc' = [pc EXCEPT ![t] = "putref"]
        /\ msg_bytes' = msg_bytes - q_cbytes /\ UNCHANGED <<deleted, msg_hdrs, q_messages>>
    BY <1>12 DEF FreequeLoad, Goto, ctlvars
  <2>2. deleted /\ Emptying /\ rw_mutex = t
    BY <2>1 DEF IInv, LockInv, InCtl
  <2>3. ~Emptying'
    BY <1>1, <2>1, <2>2 DEF IInv, LockInv, InCtl
  <2> QED BY <1>1, <1>2, <1>3, <2>1, <2>2, <2>3, SMTT(30)
<1>13. ASSUME NEW t \in Tasks, NEW m \in Messages, MsgsndCall(t, m) PROVE Accounting'
  <2>1. /\ pc[t] = "idle" /\ UNCHANGED <<qvars, deleted>>
        /\ pc' = [pc EXCEPT ![t] = "pipelined_send"] \/ pc' = [pc EXCEPT ![t] = "snd_sleep"]
    BY <1>13 DEF MsgsndCall, SendBegin, SendSleep, Goto, ctlvars
  <2> QED BY <1>5, <2>1 DEF Labels
<1>14. ASSUME NEW t \in Tasks, MsgsndWake(t) PROVE Accounting'
  <2>1. /\ pc[t] = "snd_sleep" /\ UNCHANGED <<qvars, deleted>>
        /\ \/ pc' = [pc EXCEPT ![t] = "pipelined_send"] \/ pc' = [pc EXCEPT ![t] = "snd_sleep"]
           \/ pc' = [pc EXCEPT ![t] = "idle"]
    BY <1>14 DEF MsgsndWake, SendNoPerm, SendBegin, SendSleep, Return, Goto, ctlvars
  <2> QED BY <1>5, <2>1 DEF Labels
<1>15. ASSUME NEW t \in Tasks, Store(t) PROVE Accounting'
  <2>1. /\ pc[t] = "store" /\ UNCHANGED <<qvars, deleted>>
        /\ \E l \in {"idle", "pipelined_send", "freeque", "ipc_set"} : pc' = [pc EXCEPT ![t] = l]
    BY <1>15, StoreEffect DEF Store, ctlvars
  <2> QED BY <1>5, <2>1, ZenonT(30), SMTT(30) DEF Labels
<1>16. ASSUME NEW t \in Tasks, PipelinedSelect(t) \/ WakeUp(t) \/ MsgrcvWake(t) \/ MsgrcvLockless(t)
       PROVE  Accounting'
  <2>1. /\ pc[t] # "free_msgs" /\ UNCHANGED <<qvars, deleted>>
        /\ \E l \in {"wake_up", "store", "rcv_rcu", "idle", "rcv_lock"} : pc' = [pc EXCEPT ![t] = l]
    BY <1>16 DEF PipelinedSelect, WakeUp, MsgrcvWake, MsgrcvLockless, Accept, RcvReturn, Return, Goto, ctlvars
  <2> QED BY <1>5, <2>1, ZenonT(30), SMTT(30) DEF Labels, Waiting
<1>17. ASSUME NEW t \in Tasks,
              \/ expunge_all(t) \/ IpcSetDone(t) \/ FreequePutref(t) \/ IpcRmid(t)
              \/ \E b \in QBytes, p \in Modes : IpcSet(t, b, p)
       PROVE  Accounting'
  <2>1. /\ pc[t] # "free_msgs" /\ UNCHANGED <<qvars, deleted>>
        /\ \E l \in {"wake_up", "idle", "freeque", "ipc_set"} : pc' = [pc EXCEPT ![t] = l]
    BY <1>17, ZenonT(30), SMTT(30) DEF expunge_all, IpcSetDone, FreequePutref, IpcRmid, IpcSet, CtlEnter, Return, Goto, ctlvars
  <2> QED BY <1>5, <2>1, ZenonT(30), SMTT(30) DEF Labels
<1>18. ASSUME (\E t \in Tasks : Signal(t)) \/ GracePeriod \/ UNCHANGED vars PROVE Accounting'
  <2>1. UNCHANGED <<qvars, deleted, pc>>
    BY <1>18 DEF Signal, GracePeriod, vars, ctlvars
  <2> QED BY <1>4, <2>1
<1> QED BY <1>6, <1>8, <1>9, <1>10, <1>11, <1>12, <1>13, <1>14, <1>15, <1>16, <1>17, <1>18 DEF Next, Inside, Call

-----------------------------------------------------------------------------
(* The theorems *)

\* A queue just created satisfies the invariant.
LEMMA InitInv == ASSUME Init PROVE IInv
<1> USE ConstantsAssumption DEF Init
<1>1. LockInv /\ CallInv
  BY SMTT(30) DEF LockInv, CallInv, Owner, InCtl, Answers, CtlLocked, Waiting
<1>2. AnswerInv /\ SleepInv
  BY DEF AnswerInv, SleepInv, Answers
<1>3. Range(q_receivers) = {} /\ Range(q_messages) = {} /\ IsInjective(q_receivers) /\ IsInjective(q_messages)
  BY SMTT(30) DEF Range, IsInjective
<1>4. ReceiverInv
  <2>1. ~Freeing /\ Unanswered = {}
    BY DEF Freeing, Answers, Unanswered
  <2> QED BY <1>3, <2>1, SMTT(30) DEF ReceiverInv
<1>5. MemInv
  <2>1. Refs = {}
    BY DEF Refs
  <2> QED BY <2>1, FS_EmptySet, SMTT(30) DEF MemInv, Unreleased
<1>6. HoldInv
  BY <1>3 DEF HoldInv, Apart, Codes
<1>7. TypeOK
  <2>1. NoFilter \in Filters
    BY SMTT(30) DEF NoFilter, Filters, SearchModes
  <2>2. q_messages \in Seq(Messages) /\ q_receivers \in Seq(Tasks) /\ q_senders \in SUBSET Tasks
    BY SMTT(30)
  <2>3. q_mode \in SUBSET {"r", "w"} /\ q_qbytes \in Nat
    OBVIOUS
  <2>4. pc \in [Tasks -> Labels] /\ sig \in [Tasks -> BOOLEAN] /\ filter \in [Tasks -> Filters]
    BY <2>1 DEF Labels
  <2>5. r_msg \in [Tasks -> Messages \cup Codes] /\ handing \in Messages \cup Codes
    BY DEF Codes
  <2> QED BY <2>2, <2>3, <2>4, <2>5, ZenonT(30), SMTT(30) DEF TypeOK
<1>8. Totals(q_messages, q_cbytes)
  <2> DEFINE c == [i \in 0..0 |-> 0]
  <2>1. Len(q_messages) = 0 /\ q_cbytes = 0
    OBVIOUS
  <2>2. c \in [0..0 -> 0..0] /\ c[0] = 0 /\ 1..0 = {}
    BY SMTT(30)
  <2> HIDE DEF c
  <2> QED BY <2>1, <2>2 DEF Totals
<1>9. Accounting
  BY <1>7, <1>8 DEF Accounting
<1> QED BY <1>1, <1>2, <1>4, <1>5, <1>6, <1>9 DEF IInv

\* The invariant is inductive.
LEMMA Inductive == Spec => []IInv
<1>1. Init => IInv
  BY InitInv
<1>2. IInv /\ [Next]_vars => IInv'
  <2> SUFFICES ASSUME IInv, [Next]_vars PROVE IInv'
    OBVIOUS
  <2>1. LockInv' /\ CallInv' /\ AnswerInv' /\ SleepInv'
    BY LockStep, CallStep, AnswerStep, SleepStep
  <2>2. ReceiverInv' /\ MemInv' /\ HoldInv'
    BY ReceiverStep, MemStep, HoldStep
  <2>3. Accounting'
    BY TypeStep, AccountingStep
  <2> QED BY <2>1, <2>2, <2>3 DEF IInv
<1> QED BY <1>1, <1>2, PTL DEF Spec

\* msgsnd, msgrcv, IPC_RMID, signals and the lockless hand-off neither lose a
\* message nor give it to two holders, whatever the tasks and the messages.
THEOREM MessagesConserved == Spec => []Conservation
<1>1. IInv => Conservation
  <2> SUFFICES ASSUME IInv, NEW m \in Messages
               PROVE  /\ fate[m] = "kernel" <=> HeldBy(m) # {}
                      /\ \A x, y \in HeldBy(m) : x = y
    BY DEF Conservation
  <2>1. /\ HoldInv /\ q_messages \in Seq(Messages) /\ m # "NULL"
    BY ConstantsAssumption DEF IInv, Accounting, TypeOK, Codes
  <2>2. m \in Range(q_messages) <=> \E j \in 1..Len(q_messages) : q_messages[j] = m
    BY <2>1, SMTT(30) DEF Range
  <2>3. fate[m] = "kernel" <=> HeldBy(m) # {}
    <3>1. fate[m] = "kernel" <=>
            m \in Range(q_messages) \/ \E t \in Tasks : smsg[t] = m \/ r_msg[t] = m
      BY <2>1 DEF HoldInv
    <3>2. HeldBy(m) # {} <=>
            \/ \E t \in Tasks : smsg[t] = m
            \/ \E j \in 1..Len(q_messages) : q_messages[j] = m
            \/ \E t \in Tasks : r_msg[t] = m
      BY ZenonT(30), SMTT(30) DEF HeldBy
    <3> QED BY <2>2, <3>1, <3>2
  <2>4. \A t, u \in Tasks : smsg[t] = m /\ smsg[u] = m => t = u
    BY <2>1 DEF HoldInv, Apart
  <2>5. \A t, u \in Tasks : r_msg[t] = m /\ r_msg[u] = m => t = u
    BY <2>1, SMTT(30) DEF HoldInv, Apart
  <2>6. \A t, u \in Tasks : ~(smsg[t] = m /\ r_msg[u] = m)
    BY <2>1, SMTT(30) DEF HoldInv, Apart
  <2>7. \A i, j \in 1..Len(q_messages) : q_messages[i] = m /\ q_messages[j] = m => i = j
    BY <2>1, SMTT(30) DEF HoldInv, IsInjective
  <2>8. \A j \in 1..Len(q_messages), t \in Tasks : q_messages[j] = m => smsg[t] # m /\ r_msg[t] # m
    BY <2>1, <2>2 DEF HoldInv
  <2>9. ASSUME NEW x \in HeldBy(m), NEW y \in HeldBy(m) PROVE x = y
    <3>1. \/ \E t \in Tasks : x = <<"smsg", t>> /\ smsg[t] = m
          \/ \E i \in 1..Len(q_messages) : x = <<"queue", i>> /\ q_messages[i] = m
          \/ \E t \in Tasks : x = <<"r_msg", t>> /\ r_msg[t] = m
      BY DEF HeldBy
    <3>2. \/ \E t \in Tasks : y = <<"smsg", t>> /\ smsg[t] = m
          \/ \E i \in 1..Len(q_messages) : y = <<"queue", i>> /\ q_messages[i] = m
          \/ \E t \in Tasks : y = <<"r_msg", t>> /\ r_msg[t] = m
      BY DEF HeldBy
    <3>3. CASE \E t \in Tasks : x = <<"smsg", t>> /\ smsg[t] = m
      BY <2>4, <2>6, <2>8, <3>2, <3>3
    <3>4. CASE \E i \in 1..Len(q_messages) : x = <<"queue", i>> /\ q_messages[i] = m
      BY <2>7, <2>8, <3>2, <3>4
    <3>5. CASE \E t \in Tasks : x = <<"r_msg", t>> /\ r_msg[t] = m
      BY <2>5, <2>6, <2>8, <3>2, <3>5
    <3> QED BY <3>1, <3>3, <3>4, <3>5
  <2> QED BY <2>3, <2>9
<1> QED BY <1>1, Inductive, PTL

\* The counters of the queue and of the namespace agree with the message list
\* at every step, and none is ever decremented below zero.
THEOREM CountersExact == Spec => []Accounting
<1>1. IInv => Accounting
  BY DEF IInv
<1> QED BY <1>1, Inductive, PTL

\* Neither ss_wakeup, expunge_all nor pipelined_send forgets a sleeper.
THEOREM WakeupsComplete == Spec => []NoLostWakeup
<1>1. IInv => NoLostWakeup
  <2> SUFFICES ASSUME IInv, lock = NoTask PROVE NoLostWakeup
    BY ZenonT(30), SMTT(30) DEF NoLostWakeup
  <2>1. cursor = 0 /\ ~CtlLocked /\ \A u \in Tasks : pc[u] # "wake_up"
    BY ConstantsAssumption, SMTT(30) DEF IInv, LockInv, CtlLocked, Owner, Accounting, TypeOK
  <2>2. q_receivers \in Seq(Tasks) /\ SleepInv /\ CallInv
    BY DEF IInv, Accounting, TypeOK
  <2>3. ASSUME NEW t \in Tasks, tstate[t] = "sleeping", pc[t] = "rcv_sleep"
        PROVE  ~deleted /\ r_msg[t] = "EAGAIN" /\ Contains(q_receivers, t)
    <3>1. r_msg[t] = "EAGAIN"
      BY <2>1, <2>2, <2>3 DEF SleepInv
    <3>2. ~deleted
      BY <3>1 DEF IInv, ReceiverInv, Unanswered
    <3>3. t \in Range(q_receivers)
      BY <2>1, <3>1, <3>2, ListFact DEF Unanswered
    <3> QED BY <2>2, <3>1, <3>2, <3>3, SMTT(30) DEF Range, Contains
  <2>4. ASSUME NEW t \in Tasks, tstate[t] = "sleeping", pc[t] = "snd_sleep"
        PROVE  ~deleted /\ t \in q_senders /\ ~Fits(smsg[t])
    BY <2>1, <2>2, <2>4 DEF SleepInv
  <2>5. ASSUME ~deleted, NEW i \in 1..Len(q_receivers) PROVE Matching(filter[q_receivers[i]]) = {}
    <3>1. q_receivers[i] \in Unanswered
      BY <2>1, <2>2, <2>5, ListFact, SMTT(30) DEF Range
    <3> QED BY <2>1, <2>5, <3>1, ListFact
  <2>6. \A t \in Tasks : tstate[t] = "sleeping" => pc[t] \in {"rcv_sleep", "snd_sleep"}
    BY <2>2 DEF CallInv
  <2> QED BY <2>3, <2>4, <2>5, <2>6, ZenonT(30), SMTT(30) DEF NoLostWakeup
<1> QED BY <1>1, Inductive, PTL

\* No hand-off, list walk, late sender or late receiver touches a receiver
\* that has left msgrcv or a queue that RCU has freed.
THEOREM NothingFreedIsUsed == Spec => []NoUseAfterFree
<1>1. IInv => NoUseAfterFree
  <2> SUFFICES ASSUME IInv PROVE NoUseAfterFree
    OBVIOUS
  <2>1. ASSUME NEW t \in Tasks, pc[t] \in {"wake_up", "store"}
        PROVE  lock = t /\ waking \in Tasks /\ pc[waking] \in Waiting
    BY <2>1 DEF IInv, LockInv, AnswerInv, Owner, Answers
  <2>2. q_receivers \in Seq(Tasks) /\ cursor \in Nat
    BY DEF IInv, Accounting, TypeOK
  <2>3. ASSUME ~deleted, NEW i \in 1..Len(q_receivers), i >= cursor PROVE pc[q_receivers[i]] \in Waiting
    <3>1. q_receivers[i] \in Unanswered
      <4>1. CASE cursor = 0
        BY <2>2, <2>3, <4>1, ListFact, SMTT(30) DEF Range
      <4>2. CASE cursor > 0
        BY <2>3, <4>2 DEF IInv, ReceiverInv
      <4> QED BY <2>2, <4>1, <4>2, SMTT(30)
    <3> QED BY <3>1 DEF IInv, CallInv, Unanswered
  <2>4. ASSUME ~deleted, lock = NoTask, NEW t \in Tasks
        PROVE  Contains(q_receivers, t) <=> pc[t] \in Waiting /\ r_msg[t] = "EAGAIN"
    <3>1. cursor = 0
      BY <2>2, <2>4, SMTT(30) DEF IInv, LockInv, CtlLocked
    <3>2. Contains(q_receivers, t) <=> t \in Range(q_receivers)
      BY <2>2, SMTT(30) DEF Contains, Range
    <3> QED BY <2>4, <3>1, <3>2, ListFact DEF Unanswered
  <2>5. ~deleted => IsInjective(q_receivers)
    BY DEF IInv, ReceiverInv
  <2>6. ASSUME mem = "freed"
        PROVE  /\ lock = NoTask
               /\ \A t \in Tasks : pc[t] \in {"idle", "rcv_sleep", "rcv_rcu"} /\ r_msg[t] # "EAGAIN"
    <3>1. ~Unreleased /\ Refs = {} /\ \A u \in Tasks : pc[u] # "rcv_lock"
      BY <2>6 DEF IInv, MemInv
    <3>2. deleted /\ \A u \in Tasks : pc[u] \notin {"free_msgs", "putref", "snd_sleep"}
      BY <3>1 DEF Unreleased, Refs
    <3>3. lock = NoTask /\ \A u \in Tasks : pc[u] \notin Owner
      BY <3>2, ConstantsAssumption DEF IInv, LockInv
    <3>4. \A u \in Tasks : r_msg[u] # "EAGAIN"
      BY <3>2 DEF IInv, ReceiverInv, Unanswered
    <3>5. \A u \in Tasks : pc[u] \in Labels
      BY DEF IInv, Accounting, TypeOK
    <3> QED BY <3>1, <3>2, <3>3, <3>4, <3>5 DEF Labels, Waiting, Owner
  <2> QED BY <2>1, <2>3, <2>4, <2>5, <2>6 DEF NoUseAfterFree
<1> QED BY <1>1, Inductive, PTL

\* A message that list_add_tail adds goes behind all others.
LEMMA AheadAppend ==
  ASSUME NEW s \in Seq(Messages), NEW x \in Messages, NEW m \in Messages, Contains(s, m)
  PROVE  Ahead(m, Append(s, x)) \subseteq Ahead(m, s)
<1> DEFINE a == Append(s, x)
<1>1. Len(a) = Len(s) + 1 /\ \A i \in 1..Len(s) : a[i] = s[i]
  BY AppendProperties, SMTT(30)
<1> HIDE DEF a
<1>2. PICK p \in 1..Len(s) : s[p] = m
  BY DEF Contains
<1>3. ASSUME NEW j \in 1..Len(a), MType[a[j]] = MType[m], \A k \in 1..j : a[k] # m
      PROVE  /\ j \in 1..Len(s) /\ a[j] = s[j] /\ MType[s[j]] = MType[m]
             /\ \A k \in 1..j : s[k] # m
  <2>1. j < p
    BY <1>1, <1>2, <1>3, SMTT(30)
  <2>2. j \in 1..Len(s)
    BY <2>1, SMTT(30)
  <2>3. \A k \in 1..j : k \in 1..Len(s)
    BY <2>2, SMTT(30)
  <2> QED BY <1>1, <1>3, <2>2, <2>3
<1> QED BY <1>3 DEF Ahead, a

\* list_del lets nobody ahead of a message that stays.
LEMMA AheadRemove ==
  ASSUME NEW s \in Seq(Messages), NEW w \in 1..Len(s), NEW m \in Messages, s[w] # m
  PROVE  Ahead(m, RemoveAt(s, w)) \subseteq Ahead(m, s)
<1> DEFINE r == RemoveAt(s, w)
<1>1. Len(r) = Len(s) - 1 /\ \A j \in 1..Len(s) - 1 : r[j] = IF j < w THEN s[j] ELSE s[j + 1]
  BY RemoveAtProperties, ZenonT(30), SMTT(30)
<1> HIDE DEF r
<1>2. ASSUME NEW j \in 1..Len(r), MType[r[j]] = MType[m], \A k \in 1..j : r[k] # m
      PROVE  \E i \in 1..Len(s) : /\ r[j] = s[i] /\ MType[s[i]] = MType[m]
                                  /\ \A k \in 1..i : s[k] # m
  <2>1. CASE j < w
    <3>1. j \in 1..Len(s) /\ r[j] = s[j]
      BY <1>1, <2>1, SMTT(30)
    <3>2. ASSUME NEW k \in 1..j PROVE s[k] # m
      <4>1. r[k] = s[k]
        BY <1>1, <2>1, SMTT(30)
      <4> QED BY <1>2, <4>1
    <3> QED BY <1>2, <3>1, <3>2
  <2>2. CASE j >= w
    <3>1. j + 1 \in 1..Len(s) /\ r[j] = s[j + 1]
      BY <1>1, <2>2, SMTT(30)
    <3>2. ASSUME NEW k \in 1..j + 1 PROVE s[k] # m
      <4>1. CASE k < w
        <5>1. r[k] = s[k] /\ k \in 1..j
          BY <1>1, <2>2, <4>1, SMTT(30)
        <5> QED BY <1>2, <5>1
      <4>2. CASE k > w
        <5>1. k - 1 \in 1..j /\ (k - 1) + 1 = k
          BY <4>2, SMTT(30)
        <5>2. r[k - 1] = s[k]
          BY <1>1, <4>2, <5>1, SMTT(30)
        <5> QED BY <1>2, <5>1, <5>2
      <4> QED BY <4>1, <4>2, SMTT(30)
    <3> QED BY <1>2, <3>1, <3>2
  <2> QED BY <2>1, <2>2, SMTT(30)
<1> QED BY <1>2, SMTT(30) DEF Ahead, r

\* Messages of one type leave the queue in the order they were sent: the walk
\* of do_msgrcv takes the oldest, and pipelined_send passes a message to a
\* receiver only when nothing that receiver wants is queued.
THEOREM FifoPerType == Spec => OrderPerType
<1>1. IInv /\ [Next]_vars => [KeepsOrder]_vars
  <2> SUFFICES ASSUME IInv, Next, ~deleted, NEW m \in Messages
               PROVE  /\ Delivered(m) => Ahead(m, q_messages) = {}
                      /\ Contains(q_messages, m) /\ Contains(q_messages', m) =>
                           Ahead(m, q_messages') \subseteq Ahead(m, q_messages)
    BY DEF KeepsOrder
  <2>0. /\ TypeOK /\ q_messages \in Seq(Messages) /\ r_msg \in [Tasks -> Messages \cup Codes]
        /\ fate \in [Messages -> {"unsent", "kernel", "received", "destroyed"}]
        /\ smsg \in [Tasks -> Messages \cup {"NULL"}]
    BY DEF IInv, Accounting, TypeOK
  <2>1. m \notin Codes
    BY ConstantsAssumption
  <2>2. Contains(q_messages, m) => fate[m] = "kernel" /\ \A t \in Tasks : r_msg[t] # m
    BY <2>0, SMTT(30) DEF IInv, HoldInv, Contains, Range
  <2>3. CASE \E t \in Tasks : \E f : ReceiveQueued(t, f)
    <3>0. PICK t \in Tasks : \E f : ReceiveQueued(t, f)
      BY <2>3
    <3>1. PICK f : ReceiveQueued(t, f)
      BY <3>0
    <3>2. /\ q_messages' = RemoveAt(q_messages, Walk(f)) /\ Matching(f) # {}
          /\ fate' = [fate EXCEPT ![q_messages[Walk(f)]] = "received"]
          /\ r_msg' = [r_msg EXCEPT ![t] = "NULL"]
      BY <3>1 DEF ReceiveQueued, Delist, RcvReturn
    <3>3. /\ Walk(f) \in 1..Len(q_messages)
          /\ \A j \in 1..Len(q_messages) :
               MType[q_messages[j]] = MType[q_messages[Walk(f)]] => Walk(f) <= j
      BY <2>0, <3>2, WalkFact
    <3>4. ASSUME Delivered(m) PROVE q_messages[Walk(f)] = m
      BY <2>0, <2>1, <2>2, <3>2, <3>4 DEF Delivered, Codes
    <3>5. q_messages[Walk(f)] = m => Ahead(m, q_messages) = {}
      BY <3>3, SMTT(30) DEF Ahead
    <3>6. ASSUME Contains(q_messages', m) PROVE q_messages[Walk(f)] # m
      <4>1. Range(q_messages') = Range(q_messages) \ {q_messages[Walk(f)]}
        BY <2>0, <3>2, <3>3, RemoveAtRange DEF IInv, HoldInv
      <4>2. q_messages' \in Seq(Messages)
        BY <2>0, <3>2, <3>3, RemoveAtProperties
      <4>3. m \in Range(q_messages')
        BY <3>6, <4>2, SMTT(30) DEF Contains, Range
      <4> QED BY <4>1, <4>3
    <3> QED BY <2>0, <3>2, <3>3, <3>4, <3>5, <3>6, AheadRemove
  <2>4. ASSUME UNCHANGED q_messages,
               \A t \in Tasks : r_msg[t] # m => r_msg'[t] # m,
               \A x \in Messages : fate[x] # "received" /\ fate'[x] = "received" =>
                  \E t \in Tasks : r_msg[t] = x
        PROVE  /\ Delivered(m) => Ahead(m, q_messages) = {}
               /\ Ahead(m, q_messages') \subseteq Ahead(m, q_messages)
    BY <2>2, <2>4, ZenonT(30), SMTT(30) DEF Delivered
  <2>5. CASE \E t \in Tasks : Store(t)
    <3>1. PICK t \in Tasks : Store(t)
      BY <2>5
    <3>2. /\ waking \in Tasks /\ r_msg' = [r_msg EXCEPT ![waking] = handing]
          /\ UNCHANGED <<q_messages, fate>> /\ pc[t] = "store"
      BY <3>1, StoreEffect DEF Store, qvars
    <3>3. handing = m => testmsg(m, filter[waking]) /\ Matching(filter[waking]) = {}
      BY <3>2, ZenonT(30), SMTT(30) DEF IInv, AnswerInv, Answers
    <3>4. handing = m => Ahead(m, q_messages) = {}
      BY <3>3, ZenonT(30), SMTT(30) DEF Ahead, Matching, testmsg
    <3>5. CASE handing = m
      BY <3>2, <3>4, <3>5
    <3>6. CASE handing # m
      BY <2>0, <2>4, <3>2, <3>6
    <3> QED BY <3>5, <3>6
  <2>6. CASE \E t \in Tasks : Enqueue(t)
    <3>1. PICK t \in Tasks : Enqueue(t)
      BY <2>6
    <3>2. /\ smsg[t] \in Messages /\ q_messages' = Append(q_messages, smsg[t])
          /\ UNCHANGED <<r_msg, fate>>
      BY <2>0, <3>1 DEF Enqueue, Enlist, IInv, CallInv
    <3>3. ~Delivered(m)
      BY <2>2, <3>2 DEF Delivered
    <3> QED BY <2>0, <3>2, <3>3, AheadAppend
  <2>7. CASE \E t \in Tasks : Accept(t) /\ UNCHANGED q_messages
    <3>1. PICK t \in Tasks : Accept(t) /\ UNCHANGED q_messages
      BY <2>7
    <3>2. /\ r_msg' = [r_msg EXCEPT ![t] = "NULL"]
          /\ fate' = IF r_msg[t] \in Messages THEN [fate EXCEPT ![r_msg[t]] = "received"] ELSE fate
      BY <3>1 DEF Accept, RcvReturn
    <3>3. \A u \in Tasks : r_msg[u] # m => r_msg'[u] # m
      BY <2>0, <2>1, <3>2 DEF Codes
    <3>4. \A x \in Messages : fate[x] # "received" /\ fate'[x] = "received" =>
             \E u \in Tasks : r_msg[u] = x
      BY <2>0, <3>2
    <3> QED BY <2>4, <3>1, <3>3, <3>4
  <2>8. ASSUME NEW t \in Tasks,
               \/ \E k \in Messages : MsgsndCall(t, k)
               \/ MsgsndWake(t) \/ IpcRmid(t) \/ IpcSetDone(t) \/ FreequeUnlock(t)
               \/ WakeUp(t) \/ MsgrcvWake(t) \/ Signal(t) \/ FreequeLoad(t) \/ FreequePutref(t)
               \/ \E b \in QBytes, p \in Modes : IpcSet(t, b, p)
        PROVE  UNCHANGED <<q_messages, r_msg>>
               /\ \A x \in Messages : fate'[x] = "received" => fate[x] = "received"
    BY <2>0, <2>8, ZenonT(30), SMTT(30) DEF MsgsndCall, MsgsndWake, Refuse, SendNoPerm, SendBegin, SendSleep, IpcRmid, IpcSetDone,
         FreequeUnlock, WakeUp, MsgrcvWake, Signal, FreequeLoad, FreequePutref, IpcSet, qvars, callvars
  <2>9. ASSUME NEW u \in Tasks, NEW x \in Codes, r_msg' = [r_msg EXCEPT ![u] = x],
               UNCHANGED <<q_messages, fate>>
        PROVE  /\ Delivered(m) => Ahead(m, q_messages) = {}
               /\ Ahead(m, q_messages') \subseteq Ahead(m, q_messages)
    BY <2>0, <2>1, <2>4, <2>9, ZenonT(30), SMTT(30)
  <2>10. CASE \E t \in Tasks : PipelinedSelect(t)
    <3>1. PICK t \in Tasks : PipelinedSelect(t)
      BY <2>10
    <3>2. Min(Takers(smsg[t])) \in 1..Len(q_receivers) /\ q_receivers \in Seq(Tasks)
      BY <2>0, <3>1, TakerFact DEF PipelinedSelect, TypeOK
    <3>3. q_receivers[Min(Takers(smsg[t]))] \in Tasks
      BY <3>2, SMTT(30)
    <3>4. UNCHANGED <<q_messages, fate>> /\ "NULL" \in Codes
      BY <3>1 DEF PipelinedSelect, qvars, Codes
    <3>5. r_msg' = [r_msg EXCEPT ![q_receivers[Min(Takers(smsg[t]))]] = "NULL"]
      BY <3>1 DEF PipelinedSelect, Answering
    <3> QED BY <2>9, <3>3, <3>4, <3>5
  <2>11. CASE \E t \in Tasks : expunge_all(t)
    <3>1. PICK t \in Tasks : expunge_all(t)
      BY <2>11
    <3>2. cursor \in 1..Len(q_receivers) /\ q_receivers \in Seq(Tasks)
      BY <2>0, <3>1, CtlLocks, SMTT(30) DEF expunge_all, TypeOK, IInv
    <3>3. q_receivers[cursor] \in Tasks
      BY <3>2, SMTT(30)
    <3>4. UNCHANGED <<q_messages, fate>> /\ "NULL" \in Codes
      BY <3>1 DEF expunge_all, qvars, Codes
    <3>5. r_msg' = [r_msg EXCEPT ![q_receivers[cursor]] = "NULL"]
      BY <3>1 DEF expunge_all, Answering
    <3> QED BY <2>9, <3>3, <3>4, <3>5
  <2>12. CASE \E t \in Tasks : \/ \E f : ReceiveSleep(t, f) \/ ReceiveError(t, f)
                               \/ RcvReturn(t) /\ UNCHANGED <<qvars, fate>>
    <3>1. PICK t \in Tasks : \E x \in Codes : r_msg' = [r_msg EXCEPT ![t] = x] /\ UNCHANGED <<q_messages, fate>>
      BY <2>12, ZenonT(30), SMTT(30) DEF ReceiveSleep, ReceiveError, RcvReturn, qvars, Codes
    <3> QED BY <2>9, <3>1, ZenonT(30), SMTT(30)
  <2>13. CASE GracePeriod
    BY <2>4, <2>13 DEF GracePeriod, qvars, callvars
  <2>14. ASSUME NEW t \in Tasks, MsgrcvLockless(t) PROVE UNCHANGED q_messages /\ (Accept(t) \/ UNCHANGED <<r_msg, fate>>)
    BY <2>14, ZenonT(30), SMTT(30) DEF MsgrcvLockless, qvars
  <2>15. ASSUME NEW t \in Tasks, FreequeMsg(t) PROVE FALSE
    BY <2>15 DEF FreequeMsg, IInv, LockInv
  <2>16. ASSUME NEW t \in Tasks, Inside(t) \/ Call(t) \/ Signal(t)
         PROVE  /\ Delivered(m) => Ahead(m, q_messages) = {}
                /\ Contains(q_messages, m) /\ Contains(q_messages', m) =>
                     Ahead(m, q_messages') \subseteq Ahead(m, q_messages)
    <3>1. CASE MsgrcvRelock(t)
      BY <2>3, <2>7, <2>12, <3>1, ZenonT(30), SMTT(30) DEF MsgrcvRelock, qvars
    <3>2. CASE \E a \in RcvArgs : MsgrcvCall(t, a)
      BY <2>3, <2>12, <3>2 DEF MsgrcvCall
    <3>3. CASE MsgrcvLockless(t)
      BY <2>4, <2>7, <2>14, <3>3, ZenonT(30), SMTT(30)
    <3>4. CASE UNCHANGED <<q_messages, r_msg>> /\ \A x \in Messages : fate'[x] = "received" => fate[x] = "received"
      BY <2>4, <3>4, ZenonT(30), SMTT(30)
    <3> QED BY <2>5, <2>6, <2>8, <2>10, <2>11, <2>15, <2>16, <3>1, <3>2, <3>3, <3>4, ZenonT(30), SMTT(30) DEF Inside, Call
  <2> QED BY <2>13, <2>16 DEF Next
<1> QED BY <1>1, Inductive, PTL DEF Spec, OrderPerType

=============================================================================
