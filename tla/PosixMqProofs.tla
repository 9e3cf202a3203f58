--------------------------- MODULE PosixMqProofs ----------------------------
(***************************************************************************)
(* Theorems about PosixMq, for any set of tasks and messages and any       *)
(* capacity, with proofs; the last one is that it implements PrioQueue.    *)
(***************************************************************************)
EXTENDS PosixMqRefines, SeqFacts

\* the provers tried, in this order, on a step that names none
USE SMTT(8), ZenonT(20), SMTT(60)

-----------------------------------------------------------------------------
(* The inductive invariant *)

\* the waiters nobody has served yet
Unserved(sr) == {t \in Tasks : role[t] = sr /\ state[t] = "NONE"}

\* the spinlock, the waiter its owner serves, and what a call owns
LockInv ==
  /\ \A t \in Tasks :
       /\ pc[t] \in {"wake", "ready"} <=> lock = t
       /\ state[t] = "PENDING" => waking = t
       /\ pc[t] \notin Asleep => role[t] = None /\ state[t] = "NONE"
       /\ pc[t] \in Asleep => role[t] \in SR
       /\ pc[t] # "idle" => t \in opened
  /\ lock = None => waking = None
  /\ lock # None => waking \in Tasks /\ pc[waking] \in Asleep /\ state[waking] = "PENDING"

\* the least important waiter first
WaitSorted(q) == \A i, j \in 1..Len(q) : i < j => StaticPrio[q[i]] >= StaticPrio[q[j]]

WaitInv ==
  /\ \A sr \in SR : /\ IsInjective(e_wait_q[sr]) /\ WaitSorted(e_wait_q[sr])
                    /\ Range(e_wait_q[sr]) = Unserved(sr)
  /\ e_wait_q["RECV"] # <<>> => messages = <<>>
  /\ e_wait_q["SEND"] # <<>> => Len(messages) = MaxMsg

\* the least important message first
MsgSorted(q) == \A i, j \in 1..Len(q) : i < j => Prio[q[i]] <= Prio[q[j]]

\* the tasks that own their msg: a sender not served, a receiver that is
Holding(t) == \/ role[t] = "SEND" /\ state[t] = "NONE"
              \/ role[t] = "RECV" /\ state[t] # "NONE"

MsgInv ==
  /\ IsInjective(messages) /\ MsgSorted(messages)
  /\ \A m \in Range(messages) : fate[m] = "kernel"
  /\ \A t \in Tasks :
       /\ role[t] = "SEND" => msg[t] \in Messages
       /\ role[t] = "RECV" /\ state[t] = "NONE" => msg[t] = None
       /\ Holding(t) => msg[t] \in Messages /\ fate[msg[t]] = "kernel" /\ msg[t] \notin Range(messages)
  /\ \A t, u \in Tasks : Holding(t) /\ Holding(u) /\ msg[t] = msg[u] => t = u

IInv == MqTypeOK /\ LockInv /\ WaitInv /\ MsgInv /\ NotifyNotMissed

-----------------------------------------------------------------------------
(* Facts about the operators of the model *)

\* msg_insert puts the message right above the last one of smaller m_type.
LEMMA InsertPlace ==
  ASSUME NEW q \in Seq(Messages), NEW m \in Messages
  PROVE  \E k \in 0..Len(q) :
           /\ Inserted(q, m) = InsertAt(q, k + 1, m)
           /\ \A i \in 1..Len(q) : k < i => Prio[q[i]] >= Prio[m]
           /\ k > 0 => Prio[q[k]] < Prio[m]
<1> DEFINE T == {0} \cup {i \in 1..Len(q) : Prio[q[i]] < Prio[m]}
           k == Max(T)
<1>1. T \in SUBSET (0..Len(q)) /\ T # {} /\ Len(q) \in Nat
  OBVIOUS
<1>2. k \in T /\ \A i \in T : i <= k
  <2> HIDE DEF T
  <2> QED BY <1>1, MaxIsGreatest, ZenonT(30), SMTT(30)
<1>3. Inserted(q, m) = InsertAt(q, k + 1, m)
  BY DEF Inserted
<1>4. k \in 0..Len(q)
  BY <1>1, <1>2
<1>5. \A i \in 1..Len(q) : k < i => Prio[q[i]] >= Prio[m]
  BY <1>2, <1>4, MqAssumption
<1>6. k > 0 => Prio[q[k]] < Prio[m]
  BY <1>2, <1>4
<1> HIDE DEF k, T
<1> QED BY <1>3, <1>4, <1>5, <1>6

\* It does not disturb the order.
LEMMA InsertedFact ==
  ASSUME NEW q \in Seq(Messages), NEW m \in Messages
  PROVE  /\ Inserted(q, m) \in Seq(Messages) /\ Len(Inserted(q, m)) = Len(q) + 1
         /\ Inserted(q, m) # <<>>
         /\ Range(Inserted(q, m)) = Range(q) \cup {m}
         /\ IsInjective(q) /\ m \notin Range(q) => IsInjective(Inserted(q, m))
         /\ MsgSorted(q) => MsgSorted(Inserted(q, m))
<1>4. PICK k \in 0..Len(q) :
        /\ Inserted(q, m) = InsertAt(q, k + 1, m)
        /\ \A i \in 1..Len(q) : k < i => Prio[q[i]] >= Prio[m]
        /\ k > 0 => Prio[q[k]] < Prio[m]
  BY InsertPlace
<1> DEFINE p == k + 1
           r == InsertAt(q, p, m)
<1>3. Inserted(q, m) = r
  BY <1>4
<1>7. p \in 1..Len(q) + 1
  BY <1>4
<1> HIDE DEF p
<1>8. /\ r \in Seq(Messages) /\ Len(r) = Len(q) + 1
      /\ \A j \in 1..Len(q) + 1 : r[j] = IF j < p THEN q[j] ELSE IF j = p THEN m ELSE q[j - 1]
  BY <1>7, InsertAtProperties
<1>9. /\ Range(r) = Range(q) \cup {m}
      /\ IsInjective(q) /\ m \notin Range(q) => IsInjective(r)
  BY <1>7, InsertAtRange
<1> HIDE DEF r
<1>11. p = k + 1
  BY DEF p
<1>10. ASSUME MsgSorted(q) PROVE MsgSorted(r)
  <2>1. \A i \in 1..Len(q) : Prio[q[i]] \in Nat
    BY MqAssumption
  <2>2. ASSUME NEW i \in 1..Len(q), i <= k PROVE Prio[q[i]] <= Prio[m]
    <3>1. CASE i = k
      BY <1>4, <2>1, <3>1, MqAssumption
    <3>2. CASE i < k
      <4>1. k \in 1..Len(q) /\ Prio[q[i]] <= Prio[q[k]]
        BY <1>4, <1>10, <3>2 DEF MsgSorted
      <4> QED BY <1>4, <2>1, <4>1, MqAssumption
    <3> QED BY <1>4, <2>2, <3>1, <3>2
  <2> SUFFICES ASSUME NEW x \in 1..Len(q) + 1, NEW y \in 1..Len(q) + 1, x < y
               PROVE  Prio[r[x]] <= Prio[r[y]]
    BY <1>8 DEF MsgSorted
  <2>3. CASE y < k + 1
    <3>1. r[x] = q[x] /\ r[y] = q[y] /\ x \in 1..Len(q) /\ y \in 1..Len(q)
      BY <1>8, <1>11, <2>3
    <3> QED BY <1>10, <3>1 DEF MsgSorted
  <2>4. CASE y = k + 1
    <3>1. r[x] = q[x] /\ r[y] = m /\ x \in 1..Len(q) /\ x <= k
      BY <1>8, <1>11, <2>4
    <3> QED BY <2>2, <3>1
  <2>5. CASE y > k + 1 /\ x = k + 1
    <3>1. r[x] = m /\ r[y] = q[y - 1] /\ y - 1 \in 1..Len(q) /\ k < y - 1
      BY <1>8, <1>11, <2>5
    <3>2. Prio[q[y - 1]] >= Prio[m]
      BY <1>4, <3>1
    <3> QED BY <2>1, <3>1, <3>2, MqAssumption
  <2>6. CASE y > k + 1 /\ x < k + 1
    <3>1. r[x] = q[x] /\ r[y] = q[y - 1] /\ x \in 1..Len(q) /\ y - 1 \in 1..Len(q) /\ x < y - 1
      BY <1>8, <1>11, <2>6
    <3> QED BY <1>10, <3>1 DEF MsgSorted
  <2>7. CASE x > k + 1
    <3>1. r[x] = q[x - 1] /\ r[y] = q[y - 1] /\ x - 1 \in 1..Len(q) /\ y - 1 \in 1..Len(q) /\ x - 1 < y - 1
      BY <1>8, <1>11, <2>7
    <3> QED BY <1>10, <3>1 DEF MsgSorted
  <2> QED BY <2>3, <2>4, <2>5, <2>6, <2>7
<1> QED BY <1>3, <1>8, <1>9, <1>10, EmptySeq

\* wq_add puts the waiter on the list, without disturbing the order.
LEMMA WqAddFact ==
  ASSUME NEW q \in Seq(Tasks), NEW t \in Tasks
  PROVE  /\ wq_add(q, t) \in Seq(Tasks) /\ Range(wq_add(q, t)) = Range(q) \cup {t}
         /\ IsInjective(q) /\ t \notin Range(q) => IsInjective(wq_add(q, t))
         /\ WaitSorted(q) => WaitSorted(wq_add(q, t))
<1> DEFINE eq == {i \in 1..Len(q) : StaticPrio[q[i]] <= StaticPrio[t]}
           r == wq_add(q, t)
<1>0. \A i \in 1..Len(q) : StaticPrio[q[i]] \in Nat
  BY MqAssumption
<1>1. \E k \in 1..Len(q) + 1 :
        /\ r \in Seq(Tasks) /\ Len(r) = Len(q) + 1
        /\ Range(r) = Range(q) \cup {t}
        /\ IsInjective(q) /\ t \notin Range(q) => IsInjective(r)
        /\ \A j \in 1..Len(q) + 1 : r[j] = IF j < k THEN q[j] ELSE IF j = k THEN t ELSE q[j - 1]
        /\ \A i \in 1..Len(q) : i < k => StaticPrio[q[i]] > StaticPrio[t]
        /\ k <= Len(q) => StaticPrio[q[k]] <= StaticPrio[t]
  <2>1. CASE eq = {}
    <3>1. r = Append(q, t)
      BY <2>1 DEF wq_add
    <3>2. /\ r \in Seq(Tasks) /\ Range(r) = Range(q) \cup {t}
          /\ IsInjective(q) /\ t \notin Range(q) => IsInjective(r)
      BY <3>1, AppendKeeps
    <3>3. Len(r) = Len(q) + 1 /\ (\A i \in 1..Len(q) : r[i] = q[i]) /\ r[Len(q) + 1] = t
      BY <3>1, AppendProperties
    <3>4. \A i \in 1..Len(q) : StaticPrio[q[i]] > StaticPrio[t]
      BY <1>0, <2>1, MqAssumption
    <3> HIDE DEF r
    <3>5. \A j \in 1..Len(q) + 1 :
            r[j] = IF j < Len(q) + 1 THEN q[j] ELSE IF j = Len(q) + 1 THEN t ELSE q[j - 1]
      BY <3>3
    <3>6. Len(q) + 1 \in 1..Len(q) + 1 /\ ~(Len(q) + 1 <= Len(q))
      OBVIOUS
    <3> QED BY <3>2, <3>3, <3>4, <3>5, <3>6
  <2>2. CASE eq # {}
    <3>0. eq \in SUBSET Nat
      OBVIOUS
    <3>1. Min(eq) \in eq /\ \A i \in eq : Min(eq) <= i
      <4> HIDE DEF eq
      <4> QED BY <2>2, <3>0, MinIsLeast
    <3>2. Min(eq) \in 1..Len(q) /\ StaticPrio[q[Min(eq)]] <= StaticPrio[t]
      BY <3>1
    <3>3. r = InsertAt(q, Min(eq), t)
      BY <2>2 DEF wq_add
    <3>4. \A i \in 1..Len(q) : i < Min(eq) => StaticPrio[q[i]] > StaticPrio[t]
      BY <1>0, <3>1, <3>2, MqAssumption
    <3> DEFINE k == Min(eq)
    <3>5. k \in 1..Len(q) + 1
      BY <3>2
    <3> HIDE DEF k, eq
    <3>6. /\ r \in Seq(Tasks) /\ Len(r) = Len(q) + 1
          /\ \A j \in 1..Len(q) + 1 : r[j] = IF j < k THEN q[j] ELSE IF j = k THEN t ELSE q[j - 1]
      <4>1. r = InsertAt(q, k, t)
        BY <3>3 DEF k
      <4> HIDE DEF r
      <4>2. /\ InsertAt(q, k, t) \in Seq(Tasks) /\ Len(InsertAt(q, k, t)) = Len(q) + 1
            /\ \A j \in 1..Len(q) + 1 :
                 InsertAt(q, k, t)[j] = IF j < k THEN q[j] ELSE IF j = k THEN t ELSE q[j - 1]
        BY <3>5, InsertAtProperties, SMTT(30)
      <4> QED BY <4>1, <4>2, ZenonT(30), SMTT(30)
    <3>7. /\ Range(r) = Range(q) \cup {t}
          /\ IsInjective(q) /\ t \notin Range(q) => IsInjective(r)
      BY <3>3, <3>5, InsertAtRange DEF k
    <3>8. /\ \A i \in 1..Len(q) : i < k => StaticPrio[q[i]] > StaticPrio[t]
          /\ StaticPrio[q[k]] <= StaticPrio[t]
      BY <3>2, <3>4 DEF k
    <3> HIDE DEF r
    <3> QED BY <3>5, <3>6, <3>7, <3>8
  <2> QED BY <2>1, <2>2, ZenonT(30), SMTT(30)
<1>2. PICK k \in 1..Len(q) + 1 :
        /\ r \in Seq(Tasks) /\ Len(r) = Len(q) + 1
        /\ Range(r) = Range(q) \cup {t}
        /\ IsInjective(q) /\ t \notin Range(q) => IsInjective(r)
        /\ \A j \in 1..Len(q) + 1 : r[j] = IF j < k THEN q[j] ELSE IF j = k THEN t ELSE q[j - 1]
        /\ \A i \in 1..Len(q) : i < k => StaticPrio[q[i]] > StaticPrio[t]
        /\ k <= Len(q) => StaticPrio[q[k]] <= StaticPrio[t]
  BY <1>1, ZenonT(30), SMTT(30)
<1> HIDE DEF r, eq
<1>3. ASSUME WaitSorted(q) PROVE WaitSorted(r)
  <2>1. ASSUME NEW i \in 1..Len(q), k <= i PROVE StaticPrio[q[i]] <= StaticPrio[t]
    <3>1. CASE i = k
      BY <1>2, <3>1
    <3>2. CASE k < i
      <4>1. k \in 1..Len(q) /\ StaticPrio[q[k]] >= StaticPrio[q[i]]
        BY <1>3, <3>2 DEF WaitSorted
      <4>2. StaticPrio[q[k]] \in Nat /\ StaticPrio[q[i]] \in Nat /\ StaticPrio[t] \in Nat
        BY <1>0, <4>1, MqAssumption
      <4>3. StaticPrio[q[k]] <= StaticPrio[t]
        BY <1>2, <4>1, SMTT(30)
      <4> QED BY <4>1, <4>2, <4>3
    <3> QED BY <2>1, <3>1, <3>2
  <2> SUFFICES ASSUME NEW x \in 1..Len(q) + 1, NEW y \in 1..Len(q) + 1, x < y
               PROVE  StaticPrio[r[x]] >= StaticPrio[r[y]]
    BY <1>2 DEF WaitSorted
  <2>2. CASE y < k
    <3>1. r[x] = q[x] /\ r[y] = q[y] /\ x \in 1..Len(q) /\ y \in 1..Len(q)
      BY <1>2, <2>2
    <3> QED BY <1>3, <3>1 DEF WaitSorted
  <2>3. CASE y = k
    <3>1. r[x] = q[x] /\ r[y] = t /\ x \in 1..Len(q) /\ x < k
      BY <1>2, <2>3
    <3>2. StaticPrio[q[x]] > StaticPrio[t]
      BY <1>2, <3>1
    <3> QED BY <1>0, <3>1, <3>2, MqAssumption
  <2>4. CASE y > k /\ x = k
    <3>1. r[x] = t /\ r[y] = q[y - 1] /\ y - 1 \in 1..Len(q) /\ k <= y - 1
      BY <1>2, <2>4
    <3>2. StaticPrio[q[y - 1]] <= StaticPrio[t]
      BY <2>1, <3>1
    <3> QED BY <1>0, <3>1, <3>2, MqAssumption
  <2>5. CASE y > k /\ x < k
    <3>1. r[x] = q[x] /\ r[y] = q[y - 1] /\ x \in 1..Len(q) /\ y - 1 \in 1..Len(q) /\ x <= y - 1
      BY <1>2, <2>5
    <3>2. CASE x < y - 1
      BY <1>3, <3>1, <3>2 DEF WaitSorted
    <3>3. CASE x = y - 1
      BY <1>0, <3>1, <3>3
    <3> QED BY <3>1, <3>2, <3>3
  <2>6. CASE x > k
    <3>1. r[x] = q[x - 1] /\ r[y] = q[y - 1] /\ x - 1 \in 1..Len(q) /\ y - 1 \in 1..Len(q) /\ x - 1 < y - 1
      BY <1>2, <2>6
    <3> QED BY <1>3, <3>1 DEF WaitSorted
  <2> QED BY <2>2, <2>3, <2>4, <2>5, <2>6
<1> QED BY <1>2, <1>3 DEF r

\* list_del takes just the waiter off the list.
LEMMA DelistedFact ==
  ASSUME NEW q \in Seq(Tasks), IsInjective(q), NEW w \in Range(q)
  PROVE  /\ Delisted(q, w) \in Seq(Tasks) /\ Range(Delisted(q, w)) = Range(q) \ {w}
         /\ IsInjective(Delisted(q, w))
         /\ WaitSorted(q) => WaitSorted(Delisted(q, w))
<1> DEFINE at == {i \in 1..Len(q) : q[i] = w}
           k == Min(at)
           r == RemoveAt(q, k)
<1>1. at # {} /\ at \in SUBSET Nat
  BY DEF Range
<1>2. k \in 1..Len(q) /\ q[k] = w
  <2>1. k \in at
    <3> HIDE DEF at
    <3> QED BY <1>1, MinIsLeast
  <2> QED BY <2>1
<1>3. Delisted(q, w) = r
  BY <1>1 DEF Delisted
<1> HIDE DEF k, at
<1>4. r \in Seq(Tasks) /\ Len(r) = Len(q) - 1
      /\ \A j \in 1..Len(q) - 1 : r[j] = IF j < k THEN q[j] ELSE q[j + 1]
  BY <1>2, RemoveAtProperties
<1>5. Range(r) = Range(q) \ {w} /\ IsInjective(r)
  BY <1>2, RemoveAtRange
<1> HIDE DEF r
<1>6. ASSUME WaitSorted(q) PROVE WaitSorted(r)
  <2> SUFFICES ASSUME NEW x \in 1..Len(q) - 1, NEW y \in 1..Len(q) - 1, x < y
               PROVE  StaticPrio[r[x]] >= StaticPrio[r[y]]
    BY <1>4 DEF WaitSorted
  <2> DEFINE px == IF x < k THEN x ELSE x + 1
             py == IF y < k THEN y ELSE y + 1
  <2>1. r[x] = q[px] /\ r[y] = q[py] /\ px \in 1..Len(q) /\ py \in 1..Len(q) /\ px < py
    BY <1>2, <1>4
  <2> QED BY <1>6, <2>1 DEF WaitSorted
<1> QED BY <1>3, <1>4, <1>5, <1>6

\* msg_get leaves the order of the others alone.
LEMMA FrontSorted ==
  ASSUME NEW q \in Seq(Messages), q # <<>>, MsgSorted(q)
  PROVE  MsgSorted(Front(q))
<1>1. /\ Len(Front(q)) = Len(q) - 1 /\ \A i \in 1..Len(q) - 1 : Front(q)[i] = q[i]
  BY FrontProperties
<1> QED BY <1>1 DEF MsgSorted

\* the waiter wq_get_first_waiter finds is a task nobody has served
LEMMA FirstWaiter ==
  ASSUME IInv, NEW sr \in SR, e_wait_q[sr] # <<>>
  PROVE  LET w == wq_get_first_waiter(sr) IN
         /\ w \in Tasks /\ w \in Range(e_wait_q[sr])
         /\ role[w] = sr /\ state[w] = "NONE" /\ pc[w] \in Asleep
<1> DEFINE q == e_wait_q[sr]
<1>1. q \in Seq(Tasks) /\ IsInjective(q) /\ Range(q) = Unserved(sr)
  BY DEF IInv, MqTypeOK, WaitInv
<1>2. Last(q) \in Range(q)
  BY <1>1, FrontRange
<1>3. Last(q) \in Tasks /\ role[Last(q)] = sr /\ state[Last(q)] = "NONE"
  BY <1>1, <1>2 DEF Unserved
<1>4. pc[Last(q)] \in Asleep
  BY <1>3, MqAssumption DEF IInv, LockInv, SR
<1> QED BY <1>2, <1>3, <1>4 DEF wq_get_first_waiter

-----------------------------------------------------------------------------
(* What the longer actions do, in the terms of the invariant *)

\* wq_sleep puts a task that was on no list on one of them.
LEMMA SleepEffect ==
  ASSUME IInv, NEW t \in Tasks, pc[t] = "idle", NEW sr \in SR, NEW m, Sleep(t, sr, m)
  PROVE  /\ e_wait_q' \in [SR -> Seq(Tasks)]
         /\ \A s \in SR : /\ IsInjective(e_wait_q'[s]) /\ WaitSorted(e_wait_q'[s])
                          /\ Range(e_wait_q'[s]) = Unserved(s)'
         /\ \A s \in SR : s # sr => e_wait_q'[s] = e_wait_q[s]
<1>1. /\ e_wait_q \in [SR -> Seq(Tasks)]
      /\ role \in [Tasks -> SR \cup {None}] /\ state \in [Tasks -> {"NONE", "PENDING", "READY"}]
  BY DEF IInv, MqTypeOK
<1>2. /\ e_wait_q' = [e_wait_q EXCEPT ![sr] = wq_add(e_wait_q[sr], t)]
      /\ role' = [role EXCEPT ![t] = sr] /\ state' = [state EXCEPT ![t] = "NONE"]
  BY DEF Sleep
<1>3. role[t] = None /\ state[t] = "NONE" /\ None \notin SR
  BY MqAssumption DEF IInv, LockInv, Asleep
<1>4. \A s \in SR : /\ IsInjective(e_wait_q[s]) /\ WaitSorted(e_wait_q[s])
                    /\ Range(e_wait_q[s]) = Unserved(s)
  BY DEF IInv, WaitInv
<1>5. t \notin Range(e_wait_q[sr])
  BY <1>3, <1>4 DEF Unserved
<1> DEFINE q == wq_add(e_wait_q[sr], t)
<1>6. /\ q \in Seq(Tasks) /\ Range(q) = Unserved(sr) \cup {t}
      /\ IsInjective(q) /\ WaitSorted(q)
  BY <1>1, <1>4, <1>5, WqAddFact
<1>7. e_wait_q'[sr] = q /\ \A s \in SR : s # sr => e_wait_q'[s] = e_wait_q[s]
  BY <1>1, <1>2
<1>8. Unserved(sr)' = Unserved(sr) \cup {t}
  BY <1>1, <1>2 DEF Unserved
<1>9. \A s \in SR : s # sr => Unserved(s)' = Unserved(s)
  BY <1>1, <1>2, <1>3 DEF Unserved
<1>10. e_wait_q' \in [SR -> Seq(Tasks)]
  BY <1>1, <1>2, <1>6
<1> HIDE DEF q
<1> QED BY <1>4, <1>6, <1>7, <1>8, <1>9, <1>10, ZenonT(30), SMTT(30)

\* pipelined_send, pipelined_receive and a failing wq_sleep take one waiter
\* off its list.
LEMMA DelistEffect ==
  ASSUME IInv, NEW w \in Tasks, role[w] \in SR, state[w] = "NONE",
         e_wait_q' = [e_wait_q EXCEPT ![role[w]] = Delisted(@, w)],
         \A u \in Tasks : u # w => role'[u] = role[u] /\ state'[u] = state[u],
         role'[w] = role[w] => state'[w] # "NONE",
         role'[w] = role[w] \/ role'[w] = None
  PROVE  /\ e_wait_q' \in [SR -> Seq(Tasks)]
         /\ \A s \in SR : /\ IsInjective(e_wait_q'[s]) /\ WaitSorted(e_wait_q'[s])
                          /\ Range(e_wait_q'[s]) = Unserved(s)'
         /\ \A s \in SR : s # role[w] => e_wait_q'[s] = e_wait_q[s]
         /\ \A s \in SR : e_wait_q'[s] # <<>> => e_wait_q[s] # <<>>
<1>9. PICK sr \in SR : sr = role[w]
  OBVIOUS
<1> DEFINE q == Delisted(e_wait_q[sr], w)
<1>1. e_wait_q \in [SR -> Seq(Tasks)]
  BY DEF IInv, MqTypeOK
<1>2. \A s \in SR : /\ IsInjective(e_wait_q[s]) /\ WaitSorted(e_wait_q[s])
                    /\ Range(e_wait_q[s]) = Unserved(s)
  BY DEF IInv, WaitInv
<1>3. w \in Range(e_wait_q[sr])
  BY <1>2, <1>9 DEF Unserved
<1>4. /\ q \in Seq(Tasks) /\ Range(q) = Unserved(sr) \ {w}
      /\ IsInjective(q) /\ WaitSorted(q)
  BY <1>1, <1>2, <1>3, DelistedFact
<1>5. e_wait_q'[sr] = q /\ \A s \in SR : s # sr => e_wait_q'[s] = e_wait_q[s]
  BY <1>1, <1>9
<1>6. e_wait_q' \in [SR -> Seq(Tasks)]
  BY <1>1, <1>4, <1>9
<1>7. Unserved(sr)' = Unserved(sr) \ {w} /\ \A s \in SR : s # sr => Unserved(s)' = Unserved(s)
  BY <1>9, MqAssumption DEF Unserved
<1>8. e_wait_q[sr] # <<>>
  BY <1>3 DEF Range
<1> HIDE DEF q
<1>10. ASSUME NEW s \in SR
       PROVE  /\ IsInjective(e_wait_q'[s]) /\ WaitSorted(e_wait_q'[s])
              /\ Range(e_wait_q'[s]) = Unserved(s)'
              /\ e_wait_q'[s] # <<>> => e_wait_q[s] # <<>>
  <2>1. CASE s = sr
    BY <1>4, <1>5, <1>7, <1>8, <2>1, ZenonT(30), SMTT(30)
  <2>2. CASE s # sr
    BY <1>2, <1>5, <1>7, <2>2
  <2> QED BY <2>1, <2>2
<1> QED BY <1>5, <1>6, <1>9, <1>10

\* The lists as the invariant has them, when no waiter comes, goes or is served.
LEMMA WaitFrame ==
  ASSUME IInv, UNCHANGED e_wait_q, \A s \in SR : Unserved(s)' = Unserved(s)
  PROVE  \A s \in SR : /\ IsInjective(e_wait_q'[s]) /\ WaitSorted(e_wait_q'[s])
                       /\ Range(e_wait_q'[s]) = Unserved(s)'
<1>1. \A s \in SR : /\ IsInjective(e_wait_q[s]) /\ WaitSorted(e_wait_q[s])
                    /\ Range(e_wait_q[s]) = Unserved(s)
  BY DEF IInv, WaitInv
<1> QED BY <1>1

\* what is left of the state of waiter w of list sr once it was served with m
Served(t, w, sr, m) ==
  /\ role[w] = sr /\ state[w] = "NONE" /\ pc[w] \in Asleep /\ w # t
  /\ w = wq_get_first_waiter(sr) /\ waking' = w /\ lock' = t
  /\ pc' = [pc EXCEPT ![t] = "wake"]
  /\ state' = [state EXCEPT ![w] = "PENDING"] /\ msg' = [msg EXCEPT ![w] = m]
  /\ e_wait_q' \in [SR -> Seq(Tasks)]
  /\ \A s \in SR : /\ IsInjective(e_wait_q'[s]) /\ WaitSorted(e_wait_q'[s])
                   /\ Range(e_wait_q'[s]) = Unserved(s)'
  /\ \A s \in SR : e_wait_q'[s] # <<>> => e_wait_q[s] # <<>>
  /\ UNCHANGED <<role, tstate, sig, expired>>

\* What pipelined_send and pipelined_receive do to the waiter.
LEMMA ServeEffect ==
  ASSUME IInv, NEW t \in Tasks, pc[t] = "idle", lock = None, NEW sr \in SR, e_wait_q[sr] # <<>>,
         NEW m \in Messages, Serve(t, wq_get_first_waiter(sr), m)
  PROVE  \E w \in Tasks : Served(t, w, sr, m)
<1> DEFINE w == wq_get_first_waiter(sr)
<1>1. w \in Tasks /\ role[w] = sr /\ state[w] = "NONE" /\ pc[w] \in Asleep
  BY FirstWaiter
<1>2. w # t
  BY <1>1 DEF Asleep
<1>3. /\ lock' = t /\ waking' = w /\ pc' = [pc EXCEPT ![t] = "wake"]
      /\ e_wait_q' = [e_wait_q EXCEPT ![role[w]] = Delisted(@, w)]
      /\ state' = [state EXCEPT ![w] = "PENDING"] /\ msg' = [msg EXCEPT ![w] = m]
      /\ UNCHANGED <<role, tstate, sig, expired>>
  BY DEF Serve, Goto
<1> HIDE DEF w
<1>4. state \in [Tasks -> {"NONE", "PENDING", "READY"}]
  BY DEF IInv, MqTypeOK
<1>5. state'[w] # "NONE" /\ \A u \in Tasks : u # w => role'[u] = role[u] /\ state'[u] = state[u]
  BY <1>1, <1>3, <1>4
<1>6. /\ e_wait_q' \in [SR -> Seq(Tasks)]
      /\ \A s \in SR : /\ IsInjective(e_wait_q'[s]) /\ WaitSorted(e_wait_q'[s])
                       /\ Range(e_wait_q'[s]) = Unserved(s)'
      /\ \A s \in SR : e_wait_q'[s] # <<>> => e_wait_q[s] # <<>>
  BY <1>1, <1>3, <1>5, DelistEffect, ZenonT(30), SMTT(30)
<1>7. Served(t, w, sr, m)
  BY <1>1, <1>2, <1>3, <1>6, ZenonT(30), SMTT(30) DEF w, Served
<1> QED BY <1>1, <1>7

\* What a receiver that finds a message does to the array.
LEMMA ReceiveEffect ==
  ASSUME IInv, NEW t \in Tasks, ReceiveQueued(t)
  PROVE  /\ messages # <<>> /\ Last(messages) \in Messages /\ Last(messages) \in Range(messages)
         /\ fate' = [fate EXCEPT ![Last(messages)] = "received"]
         /\ messages' \in Seq(Messages) /\ Len(messages') <= MaxMsg
         /\ IsInjective(messages') /\ MsgSorted(messages')
         /\ e_wait_q["RECV"] = <<>>
         /\ \/ /\ e_wait_q["SEND"] = <<>>
               /\ Range(messages') = Range(messages) \ {Last(messages)}
            \/ e_wait_q["SEND"] # <<>> /\ \E w \in Tasks :
                 /\ w = wq_get_first_waiter("SEND") /\ role[w] = "SEND" /\ state[w] = "NONE"
                 /\ msg[w] \in Messages /\ msg[w] \notin Range(messages)
                 /\ Range(messages') = (Range(messages) \ {Last(messages)}) \cup {msg[w]}
                 /\ Len(messages) = MaxMsg /\ Len(messages') = MaxMsg
<1>1. /\ messages # <<>> /\ fate' = [fate EXCEPT ![Last(messages)] = "received"]
  BY DEF ReceiveQueued
<1>2. /\ messages \in Seq(Messages) /\ Len(messages) <= MaxMsg /\ Len(messages) \in Nat
      /\ MaxMsg \in Nat /\ IsInjective(messages) /\ MsgSorted(messages)
  BY MqAssumption DEF IInv, MqTypeOK, MsgInv
<1>3. e_wait_q["RECV"] = <<>>
  BY <1>1 DEF IInv, WaitInv
<1> DEFINE f == Front(messages)
<1>4. f \in Seq(Messages) /\ Len(f) = Len(messages) - 1 /\ Last(messages) \in Messages
  BY <1>1, <1>2, FrontProperties
<1>5. /\ Last(messages) \in Range(messages)
      /\ Range(f) = Range(messages) \ {Last(messages)} /\ IsInjective(f)
  BY <1>1, <1>2, FrontRange
<1>6. MsgSorted(f)
  BY <1>1, <1>2, FrontSorted
<1>7. CASE e_wait_q["SEND"] = <<>>
  <2>1. messages' = f
    BY <1>7 DEF ReceiveQueued
  <2> HIDE DEF f
  <2>2. Len(f) <= MaxMsg
    BY <1>2, <1>4
  <2> QED BY <1>1, <1>3, <1>4, <1>5, <1>6, <1>7, <2>1, <2>2
<1>8. CASE e_wait_q["SEND"] # <<>>
  <2> DEFINE w == wq_get_first_waiter("SEND")
  <2>1. w \in Tasks /\ role[w] = "SEND" /\ state[w] = "NONE"
    BY <1>8, FirstWaiter DEF SR
  <2>2. messages' = Inserted(f, msg[w])
    BY <1>8 DEF ReceiveQueued
  <2> HIDE DEF w, f
  <2>3. msg[w] \in Messages /\ msg[w] \notin Range(messages)
    BY <2>1 DEF IInv, MsgInv, Holding
  <2>4. Len(messages) = MaxMsg
    BY <1>8 DEF IInv, WaitInv
  <2>5. msg[w] \notin Range(f)
    BY <1>5, <2>3
  <2>6. /\ messages' \in Seq(Messages) /\ Len(messages') = Len(f) + 1
        /\ Range(messages') = Range(f) \cup {msg[w]} /\ IsInjective(messages') /\ MsgSorted(messages')
    BY <1>4, <1>5, <1>6, <2>2, <2>3, <2>5, InsertedFact, ZenonT(30), SMTT(30)
  <2>7. Len(messages') = MaxMsg
    BY <1>2, <1>4, <2>4, <2>6
  <2> QED BY <1>1, <1>2, <1>3, <1>4, <1>5, <1>8, <2>1, <2>3, <2>4, <2>6, <2>7, ZenonT(40), SMTT(30) DEF w
<1> QED BY <1>7, <1>8

\* The lock, the waiter being served and the state of each wq_sleep agree.
LEMMA LockStep == ASSUME IInv, [Next]_vars PROVE LockInv'
<1> USE MqAssumption
<1> USE DEF tvars, wvars, fvars, nvars, Enter, Asleep, IInv, MqTypeOK, LockInv, SR
<1>1. CASE UNCHANGED vars
  BY <1>1 DEF vars
<1>2. ASSUME NEW t \in Tasks, NEW m \in Messages, SendFull(t, m) PROVE LockInv'
  BY <1>2 DEF SendFull, Sleep, Goto
<1>3. ASSUME NEW t \in Tasks, NEW m \in Messages, SendHandOver(t, m) PROVE LockInv'
  <2>1. pc[t] = "idle" /\ t \in opened /\ lock = None /\ UNCHANGED opened
    BY <1>3 DEF SendHandOver
  <2>2. PICK w \in Tasks :
          /\ role[w] = "RECV" /\ state[w] = "NONE" /\ pc[w] \in Asleep /\ w # t
          /\ waking' = w /\ lock' = t /\ pc' = [pc EXCEPT ![t] = "wake"]
          /\ state' = [state EXCEPT ![w] = "PENDING"] /\ UNCHANGED role
    <3>1. "RECV" \in SR /\ e_wait_q["RECV"] # <<>> /\ Serve(t, wq_get_first_waiter("RECV"), m)
      BY <1>3 DEF SendHandOver, SR
    <3>2. PICK v \in Tasks : Served(t, v, "RECV", m)
      BY <2>1, <3>1, ServeEffect
    <3> QED BY <3>2, ZenonT(30), SMTT(30) DEF Served
  <2> QED BY <2>1, <2>2
<1>4. ASSUME NEW t \in Tasks, NEW m \in Messages, SendInsert(t, m) PROVE LockInv'
  BY <1>4 DEF SendInsert, Noted, NotifiedOwner
<1>5. ASSUME NEW t \in Tasks, ReceiveEmpty(t) PROVE LockInv'
  BY <1>5 DEF ReceiveEmpty, Sleep, Goto
<1>6. ASSUME NEW t \in Tasks, ReceiveQueued(t) PROVE LockInv'
  <2>1. pc[t] = "idle" /\ t \in opened /\ lock = None /\ UNCHANGED opened
    BY <1>6 DEF ReceiveQueued
  <2>2. CASE e_wait_q["SEND"] = <<>>
    BY <1>6, <2>1, <2>2 DEF ReceiveQueued
  <2>3. CASE e_wait_q["SEND"] # <<>>
    <3>1. Serve(t, wq_get_first_waiter("SEND"), msg[wq_get_first_waiter("SEND")])
      BY <1>6, <2>3 DEF ReceiveQueued
    <3>2. msg[wq_get_first_waiter("SEND")] \in Messages
      BY <1>6, <2>3, ReceiveEffect
    <3>3. PICK w \in Tasks :
            /\ role[w] = "SEND" /\ state[w] = "NONE" /\ pc[w] \in Asleep /\ w # t
            /\ waking' = w /\ lock' = t /\ pc' = [pc EXCEPT ![t] = "wake"]
            /\ state' = [state EXCEPT ![w] = "PENDING"] /\ UNCHANGED role
      <4>1. "SEND" \in SR
        BY DEF SR
      <4>2. PICK v \in Tasks : Served(t, v, "SEND", msg[wq_get_first_waiter("SEND")])
        BY <2>1, <2>3, <3>1, <3>2, <4>1, ServeEffect
      <4> QED BY <4>2, ZenonT(30), SMTT(30) DEF Served
    <3> QED BY <2>1, <3>3
  <2> QED BY <2>2, <2>3
<1>7. ASSUME NEW t \in Tasks, WakeUp(t) PROVE LockInv'
  BY <1>7 DEF WakeUp, Goto
<1>8. ASSUME NEW t \in Tasks, Ready(t) PROVE LockInv'
  BY <1>8 DEF Ready, Return, Goto
<1>9. ASSUME NEW t \in Tasks, Scheduled(t) PROVE LockInv'
  BY <1>9 DEF Scheduled, Goto
<1>10. ASSUME NEW t \in Tasks, CheckLockless(t) PROVE LockInv'
  BY <1>10 DEF CheckLockless, Success, Return, Forget, Goto
<1>11. ASSUME NEW t \in Tasks, Relock(t) PROVE LockInv'
  BY <1>11 DEF Relock, Success, Fail, Return, Forget, Goto
<1>12. ASSUME NEW t \in Tasks, NotifyRegister(t) PROVE LockInv'
  BY <1>12 DEF NotifyRegister, Noted
<1>13. ASSUME NEW t \in Tasks, NotifyRemove(t) PROVE LockInv'
  BY <1>13 DEF NotifyRemove, Noted
<1>14. ASSUME NEW t \in Tasks, Open(t) PROVE LockInv'
  BY <1>14 DEF Open
<1>15. ASSUME NEW t \in Tasks, Close(t) PROVE LockInv'
  BY <1>15 DEF Close, PutInode, Noted
<1>16. ASSUME NEW t \in Tasks, Unlink(t) PROVE LockInv'
  BY <1>16 DEF Unlink, PutInode
<1>17. ASSUME NEW t \in Tasks, Signal(t) PROVE LockInv'
  BY <1>17 DEF Signal
<1>18. ASSUME NEW t \in Tasks, Timeout(t) PROVE LockInv'
  BY <1>18 DEF Timeout
<1> QED BY <1>1, <1>2, <1>3, <1>4, <1>5, <1>6, <1>7, <1>8, <1>9, <1>10, <1>11, <1>12, <1>13, <1>14, <1>15, <1>16, <1>17, <1>18, ZenonT(30), SMTT(30) DEF Next, Inside, Call

\* Every variable keeps its type and the message array its bound.
LEMMA TypeStep == ASSUME IInv, [Next]_vars PROVE MqTypeOK'
<1> USE MqAssumption
<1> USE DEF tvars, wvars, fvars, nvars, Enter, Asleep, MqTypeOK
<1>0. MqTypeOK /\ LockInv /\ (None \in Tasks \cup {None})
  BY DEF IInv
<1>1. CASE UNCHANGED vars
  BY <1>0, <1>1 DEF vars
<1>2. ASSUME NEW t \in Tasks, NEW m \in Messages, SendFull(t, m) PROVE MqTypeOK'
  <2>1. e_wait_q' \in [SR -> Seq(Tasks)]
    BY <1>2, SleepEffect DEF SendFull, SR
  <2>2. "SEND" \in SR
    BY DEF SR
  <2> QED BY <1>0, <1>2, <2>1, <2>2 DEF SendFull, Sleep, Goto
<1>3. ASSUME NEW t \in Tasks, NEW m \in Messages, SendHandOver(t, m) PROVE MqTypeOK'
  <2>1. pc[t] = "idle" /\ lock = None /\ UNCHANGED <<messages, nvars, fvars>>
        /\ fate' = [fate EXCEPT ![m] = "kernel"]
    BY <1>3 DEF SendHandOver
  <2>2. PICK w \in Tasks :
          /\ waking' = w /\ lock' = t /\ pc' = [pc EXCEPT ![t] = "wake"]
          /\ state' = [state EXCEPT ![w] = "PENDING"] /\ msg' = [msg EXCEPT ![w] = m]
          /\ e_wait_q' \in [SR -> Seq(Tasks)] /\ UNCHANGED <<role, tstate, sig, expired>>
    <3>1. "RECV" \in SR /\ e_wait_q["RECV"] # <<>> /\ Serve(t, wq_get_first_waiter("RECV"), m)
      BY <1>3 DEF SendHandOver, SR
    <3>2. PICK v \in Tasks : Served(t, v, "RECV", m)
      BY <2>1, <3>1, ServeEffect
    <3> QED BY <3>2, ZenonT(30), SMTT(30) DEF Served
  <2> QED BY <1>0, <2>1, <2>2, ZenonT(40), SMTT(30)
<1>4. ASSUME NEW t \in Tasks, NEW m \in Messages, SendInsert(t, m) PROVE MqTypeOK'
  <2>1. messages' = Inserted(messages, m) /\ ~Full
    BY <1>4, ZenonT(30), SMTT(30) DEF SendInsert
  <2>2. messages' \in Seq(Messages) /\ Len(messages') = Len(messages) + 1
    BY <1>0, <2>1, InsertedFact
  <2>3. Len(messages') <= MaxMsg
    BY <1>0, <2>1, <2>2 DEF Full
  <2>4. notify_owner' \in Tasks \cup {None} /\ nonempty' \in BOOLEAN
    BY <1>0, <1>4 DEF SendInsert, Noted, NotifiedOwner
  <2>5. fate' = [fate EXCEPT ![m] = "kernel"] /\ UNCHANGED <<lock, wvars, fvars, tvars, waking>>
    BY <1>4, ZenonT(30), SMTT(30) DEF SendInsert
  <2> QED BY <1>0, <2>2, <2>3, <2>4, <2>5
<1>5. ASSUME NEW t \in Tasks, ReceiveEmpty(t) PROVE MqTypeOK'
  <2>1. e_wait_q' \in [SR -> Seq(Tasks)]
    BY <1>5, SleepEffect DEF ReceiveEmpty, SR
  <2>2. "RECV" \in SR
    BY DEF SR
  <2> QED BY <1>0, <1>5, <2>1, <2>2 DEF ReceiveEmpty, Sleep, Goto
<1>6. ASSUME NEW t \in Tasks, ReceiveQueued(t) PROVE MqTypeOK'
  <2>1. pc[t] = "idle" /\ lock = None /\ UNCHANGED fvars
        /\ Noted(notify_owner, messages') /\ messages' \in Seq(Messages) /\ Len(messages') <= MaxMsg
        /\ fate' = [fate EXCEPT ![Last(messages)] = "received"]
    BY <1>6, ReceiveEffect DEF ReceiveQueued
  <2>4. notify_owner' \in Tasks \cup {None} /\ nonempty' \in BOOLEAN
    BY <1>0, <2>1 DEF Noted
  <2>2. CASE e_wait_q["SEND"] = <<>>
    BY <1>0, <1>6, <2>1, <2>2, <2>4, ZenonT(30), SMTT(30) DEF ReceiveQueued
  <2>3. CASE e_wait_q["SEND"] # <<>>
    <3>1. Serve(t, wq_get_first_waiter("SEND"), msg[wq_get_first_waiter("SEND")])
      BY <1>6, <2>3, ZenonT(30), SMTT(30) DEF ReceiveQueued
    <3>2. msg[wq_get_first_waiter("SEND")] \in Messages
      BY <1>6, <2>3, ReceiveEffect
    <3>3. PICK w \in Tasks :
            /\ waking' = w /\ lock' = t /\ pc' = [pc EXCEPT ![t] = "wake"]
            /\ state' = [state EXCEPT ![w] = "PENDING"]
            /\ msg' = [msg EXCEPT ![w] = msg[wq_get_first_waiter("SEND")]]
            /\ e_wait_q' \in [SR -> Seq(Tasks)] /\ UNCHANGED <<role, tstate, sig, expired>>
      <4>1. "SEND" \in SR
        BY DEF SR
      <4>2. PICK v \in Tasks : Served(t, v, "SEND", msg[wq_get_first_waiter("SEND")])
        BY <2>1, <2>3, <3>1, <3>2, <4>1, ServeEffect
      <4> QED BY <4>2, ZenonT(30), SMTT(30) DEF Served
    <3> QED BY <1>0, <2>1, <2>4, <3>2, <3>3, ZenonT(30), SMTT(30)
  <2> QED BY <2>2, <2>3, ZenonT(40), SMTT(30)
<1>7. ASSUME NEW t \in Tasks, WakeUp(t) PROVE MqTypeOK'
  <2>1. waking \in Tasks
    BY <1>0, <1>7 DEF WakeUp, LockInv
  <2> QED BY <1>0, <1>7, <2>1 DEF WakeUp, Goto
<1>8. ASSUME NEW t \in Tasks, Ready(t) PROVE MqTypeOK'
  <2>1. waking \in Tasks
    BY <1>0, <1>8 DEF Ready, LockInv
  <2> QED BY <1>0, <1>8, <2>1 DEF Ready, Return, Goto
<1>9. ASSUME NEW t \in Tasks, Scheduled(t) PROVE MqTypeOK'
  BY <1>0, <1>9 DEF Scheduled, Goto
<1>10. ASSUME NEW t \in Tasks, CheckLockless(t) PROVE MqTypeOK'
  BY <1>0, <1>10, ZenonT(30), SMTT(30) DEF CheckLockless, Success, Return, Forget, Goto
<1>11. ASSUME NEW t \in Tasks, Relock(t) PROVE MqTypeOK'
  <2>1. CASE Success(t) /\ UNCHANGED <<e_wait_q, tstate>>
    BY <1>0, <1>11, <2>1, ZenonT(30), SMTT(30) DEF Relock, Success, Return, Forget, Goto
  <2>2. CASE Fail(t) /\ state[t] # "READY" /\ UNCHANGED tstate
    <3>1. role[t] \in SR /\ state[t] = "NONE"
      BY <1>0, <1>11, <2>2 DEF Relock, LockInv
    <3>2. /\ role' = [role EXCEPT ![t] = None] /\ state' = [state EXCEPT ![t] = "NONE"]
          /\ e_wait_q' = [e_wait_q EXCEPT ![role[t]] = Delisted(e_wait_q[role[t]], t)]
      BY <2>2 DEF Fail, Forget
    <3>4. role'[t] = None /\ role[t] # None /\ \A u \in Tasks : u # t => role'[u] = role[u] /\ state'[u] = state[u]
      BY <1>0, <3>1, <3>2 DEF SR
    <3>3. e_wait_q' \in [SR -> Seq(Tasks)]
      BY <3>1, <3>2, <3>4, DelistEffect, ZenonT(30), SMTT(30)
    <3> QED BY <1>0, <1>11, <2>2, <3>3, ZenonT(30), SMTT(30) DEF Relock, Fail, Return, Forget, Goto
  <2>3. CASE Goto(t, "sleep") /\ tstate' = [tstate EXCEPT ![t] = "sleeping"] /\ UNCHANGED <<wvars, sig, expired, fate>>
    BY <1>0, <1>11, <2>3 DEF Relock, Goto
  <2> QED BY <1>11, <2>1, <2>2, <2>3 DEF Relock
<1>12. ASSUME NEW t \in Tasks, NotifyRegister(t) PROVE MqTypeOK'
  BY <1>0, <1>12 DEF NotifyRegister, Noted
<1>13. ASSUME NEW t \in Tasks, NotifyRemove(t) PROVE MqTypeOK'
  BY <1>0, <1>13 DEF NotifyRemove, Noted
<1>14. ASSUME NEW t \in Tasks, Open(t) PROVE MqTypeOK'
  BY <1>0, <1>14 DEF Open
<1>15. ASSUME NEW t \in Tasks, Close(t) PROVE MqTypeOK'
  <2>1. /\ opened' \in SUBSET Tasks /\ UNCHANGED <<lock, wvars, tvars, waking>>
        /\ linked' \in BOOLEAN /\ evicted' \in BOOLEAN
    BY <1>0, <1>15 DEF Close, PutInode
  <2>2. messages' \in Seq(Messages) /\ Len(messages') <= MaxMsg
    <3>1. messages' = messages \/ messages' = <<>>
      BY <1>15 DEF Close, PutInode
    <3>2. /\ messages \in Seq(Messages) /\ Len(messages) <= MaxMsg
          /\ <<>> \in Seq(Messages) /\ Len(<<>>) <= MaxMsg
      BY <1>0, EmptySeq
    <3>3. CASE messages' = messages
      BY <3>2, <3>3
    <3>4. CASE messages' = <<>>
      BY <3>2, <3>4
    <3> QED BY <3>1, <3>3, <3>4
  <2>3. fate' \in [Messages -> {"unsent", "kernel", "received", "destroyed"}]
    BY <1>0, <1>15 DEF Close, PutInode
  <2>4. notify_owner' \in Tasks \cup {None} /\ nonempty' \in BOOLEAN
    BY <1>0, <1>15 DEF Close, Noted
  <2> QED BY <1>0, <2>1, <2>2, <2>3, <2>4
<1>16. ASSUME NEW t \in Tasks, Unlink(t) PROVE MqTypeOK'
  <2>1. /\ opened' \in SUBSET Tasks /\ UNCHANGED <<lock, wvars, tvars, waking>>
        /\ linked' \in BOOLEAN /\ evicted' \in BOOLEAN
    BY <1>0, <1>16, ZenonT(30), SMTT(30) DEF Unlink, PutInode
  <2>2. messages' \in Seq(Messages) /\ Len(messages') <= MaxMsg
    <3>1. messages' = messages \/ messages' = <<>>
      BY <1>16, ZenonT(40), SMTT(30) DEF Unlink, PutInode
    <3>2. /\ messages \in Seq(Messages) /\ Len(messages) <= MaxMsg
          /\ <<>> \in Seq(Messages) /\ Len(<<>>) <= MaxMsg
      BY <1>0, EmptySeq
    <3>3. CASE messages' = messages
      BY <3>2, <3>3
    <3>4. CASE messages' = <<>>
      BY <3>2, <3>4
    <3> QED BY <3>1, <3>3, <3>4
  <2>3. fate' \in [Messages -> {"unsent", "kernel", "received", "destroyed"}]
    BY <1>0, <1>16 DEF Unlink, PutInode
  <2>4. notify_owner' \in Tasks \cup {None} /\ nonempty' \in BOOLEAN
    BY <1>0, <1>16 DEF Unlink, Noted
  <2> QED BY <1>0, <2>1, <2>2, <2>3, <2>4
<1>17. ASSUME NEW t \in Tasks, Signal(t) PROVE MqTypeOK'
  BY <1>0, <1>17 DEF Signal
<1>18. ASSUME NEW t \in Tasks, Timeout(t) PROVE MqTypeOK'
  BY <1>0, <1>18 DEF Timeout
<1> QED BY <1>1, <1>2, <1>3, <1>4, <1>5, <1>6, <1>7, <1>8, <1>9, <1>10, <1>11, <1>12, <1>13, <1>14, <1>15, <1>16, <1>17, <1>18, ZenonT(30), SMTT(30) DEF Next, Inside, Call

\* The lists hold the waiters nobody has served, in order; receivers wait for
\* an empty queue and senders for a full one.
LEMMA WaitStep == ASSUME IInv, [Next]_vars PROVE WaitInv'
<1>0. /\ role \in [Tasks -> SR \cup {None}] /\ state \in [Tasks -> {"NONE", "PENDING", "READY"}]
      /\ None \notin SR /\ "SEND" \in SR /\ "RECV" \in SR /\ SR = {"SEND", "RECV"}
      /\ MaxMsg # 0
  BY MqAssumption DEF IInv, MqTypeOK, SR
<1>1. ASSUME UNCHANGED <<e_wait_q, messages>>, \A s \in SR : Unserved(s)' = Unserved(s)
      PROVE  WaitInv'
  <2>1. \A s \in SR : /\ IsInjective(e_wait_q'[s]) /\ WaitSorted(e_wait_q'[s])
                      /\ Range(e_wait_q'[s]) = Unserved(s)'
    BY <1>1, WaitFrame
  <2> QED BY <1>1, <2>1 DEF IInv, WaitInv
<1>2. ASSUME UNCHANGED <<e_wait_q, messages, role, state>> PROVE WaitInv'
  BY <1>1, <1>2 DEF Unserved
<1>3. ASSUME NEW t \in Tasks, NEW m \in Messages, SendFull(t, m) PROVE WaitInv'
  <2>1. /\ pc[t] = "idle" /\ Len(messages) = MaxMsg /\ UNCHANGED messages /\ Sleep(t, "SEND", m)
    BY <1>3 DEF SendFull, Enter, Full, Sleep
  <2>2. /\ \A s \in SR : /\ IsInjective(e_wait_q'[s]) /\ WaitSorted(e_wait_q'[s])
                         /\ Range(e_wait_q'[s]) = Unserved(s)'
        /\ e_wait_q'["RECV"] = e_wait_q["RECV"]
    BY <1>0, <2>1, SleepEffect
  <2> QED BY <2>1, <2>2 DEF IInv, WaitInv
<1>4. ASSUME NEW t \in Tasks, ReceiveEmpty(t) PROVE WaitInv'
  <2>1. /\ pc[t] = "idle" /\ messages = <<>> /\ UNCHANGED messages /\ Sleep(t, "RECV", None)
    BY <1>4 DEF ReceiveEmpty, Enter, Sleep
  <2>2. /\ \A s \in SR : /\ IsInjective(e_wait_q'[s]) /\ WaitSorted(e_wait_q'[s])
                         /\ Range(e_wait_q'[s]) = Unserved(s)'
        /\ e_wait_q'["SEND"] = e_wait_q["SEND"]
    BY <1>0, <2>1, SleepEffect
  <2> QED BY <2>1, <2>2 DEF IInv, WaitInv
<1>5. ASSUME NEW t \in Tasks, NEW m \in Messages, SendHandOver(t, m) PROVE WaitInv'
  <2>1. /\ pc[t] = "idle" /\ lock = None /\ e_wait_q["RECV"] # <<>> /\ UNCHANGED messages
        /\ Serve(t, wq_get_first_waiter("RECV"), m)
    BY <1>5 DEF SendHandOver, Enter
  <2>2. /\ \A s \in SR : /\ IsInjective(e_wait_q'[s]) /\ WaitSorted(e_wait_q'[s])
                         /\ Range(e_wait_q'[s]) = Unserved(s)'
        /\ \A s \in SR : e_wait_q'[s] # <<>> => e_wait_q[s] # <<>>
    <3>1. "RECV" \in SR
      BY DEF SR
    <3>2. PICK v \in Tasks : Served(t, v, "RECV", m)
      BY <2>1, <3>1, ServeEffect
    <3> QED BY <3>2, ZenonT(30), SMTT(30) DEF Served
  <2> QED BY <1>0, <2>1, <2>2 DEF IInv, WaitInv
<1>6. ASSUME NEW t \in Tasks, NEW m \in Messages, SendInsert(t, m) PROVE WaitInv'
  <2>1. e_wait_q["RECV"] = <<>> /\ UNCHANGED <<e_wait_q, role, state>> /\ Len(messages) # MaxMsg
    BY <1>6 DEF SendInsert, Full, wvars
  <2>2. e_wait_q["SEND"] = <<>>
    BY <2>1 DEF IInv, WaitInv
  <2>3. \A s \in SR : /\ IsInjective(e_wait_q'[s]) /\ WaitSorted(e_wait_q'[s])
                      /\ Range(e_wait_q'[s]) = Unserved(s)'
    BY <2>1, WaitFrame DEF Unserved
  <2> QED BY <2>1, <2>2, <2>3 DEF WaitInv
<1>7. ASSUME NEW t \in Tasks, ReceiveQueued(t) PROVE WaitInv'
  <2>1. e_wait_q["RECV"] = <<>>
    BY <1>7, ReceiveEffect
  <2>2. CASE e_wait_q["SEND"] = <<>>
    <3>1. UNCHANGED <<e_wait_q, role, state>>
      BY <1>7, <2>2 DEF ReceiveQueued, wvars
    <3>2. \A s \in SR : /\ IsInjective(e_wait_q'[s]) /\ WaitSorted(e_wait_q'[s])
                        /\ Range(e_wait_q'[s]) = Unserved(s)'
      BY <3>1, WaitFrame DEF Unserved
    <3> QED BY <2>1, <2>2, <3>1, <3>2 DEF WaitInv
  <2>3. CASE e_wait_q["SEND"] # <<>>
    <3> DEFINE w == wq_get_first_waiter("SEND")
    <3>1. pc[t] = "idle" /\ lock = None /\ Serve(t, w, msg[w])
      BY <1>7, <2>3 DEF ReceiveQueued, Enter
    <3>2. msg[w] \in Messages /\ Len(messages') = MaxMsg
      BY <1>7, <2>3, ReceiveEffect
    <3>3. /\ \A s \in SR : /\ IsInjective(e_wait_q'[s]) /\ WaitSorted(e_wait_q'[s])
                           /\ Range(e_wait_q'[s]) = Unserved(s)'
          /\ \A s \in SR : e_wait_q'[s] # <<>> => e_wait_q[s] # <<>>
      <4>1. "SEND" \in SR
        BY DEF SR
      <4>2. PICK v \in Tasks : Served(t, v, "SEND", msg[w])
        BY <2>3, <3>1, <3>2, <4>1, ServeEffect
      <4> QED BY <4>2, ZenonT(30), SMTT(30) DEF Served
    <3> QED BY <1>0, <2>1, <3>2, <3>3 DEF WaitInv
  <2> QED BY <2>2, <2>3
<1>8. ASSUME NEW t \in Tasks, Ready(t) PROVE WaitInv'
  <2>1. /\ waking \in Tasks /\ state[waking] = "PENDING" /\ UNCHANGED <<e_wait_q, role, messages>>
        /\ state' = [state EXCEPT ![waking] = "READY"]
    BY <1>8, MqAssumption DEF Ready, IInv, LockInv
  <2>2. \A s \in SR : Unserved(s)' = Unserved(s)
    BY <1>0, <2>1 DEF Unserved
  <2> QED BY <1>1, <2>1, <2>2
<1>9. ASSUME NEW t \in Tasks, state[t] = "READY", Success(t), UNCHANGED <<e_wait_q, messages>>
      PROVE  WaitInv'
  <2>1. role' = [role EXCEPT ![t] = None] /\ state' = [state EXCEPT ![t] = "NONE"]
    BY <1>9 DEF Success, Forget
  <2>2. \A s \in SR : Unserved(s)' = Unserved(s)
    BY <1>0, <1>9, <2>1 DEF Unserved
  <2> QED BY <1>1, <1>9, <2>2
<1>10. ASSUME NEW t \in Tasks, CheckLockless(t) PROVE WaitInv'
  BY <1>2, <1>9, <1>10 DEF CheckLockless
<1>11. ASSUME NEW t \in Tasks, Relock(t) PROVE WaitInv'
  <2>1. CASE state[t] # "READY" /\ Fail(t)
    <3>1. role[t] \in SR /\ state[t] = "NONE" /\ UNCHANGED messages
      BY <1>0, <1>11, <2>1, MqAssumption DEF Relock, IInv, LockInv, Asleep
    <3>2. /\ role' = [role EXCEPT ![t] = None] /\ state' = [state EXCEPT ![t] = "NONE"]
          /\ e_wait_q' = [e_wait_q EXCEPT ![role[t]] = Delisted(@, t)]
      BY <2>1 DEF Fail, Forget
    <3>3. role'[t] = None /\ role[t] # None
          /\ \A u \in Tasks : u # t => role'[u] = role[u] /\ state'[u] = state[u]
      BY <1>0, <3>1, <3>2
    <3>4. /\ \A s \in SR : /\ IsInjective(e_wait_q'[s]) /\ WaitSorted(e_wait_q'[s])
                           /\ Range(e_wait_q'[s]) = Unserved(s)'
          /\ \A s \in SR : e_wait_q'[s] # <<>> => e_wait_q[s] # <<>>
      BY <3>1, <3>2, <3>3, DelistEffect, ZenonT(30), SMTT(30)
    <3> QED BY <1>0, <3>1, <3>4 DEF IInv, WaitInv
  <2>2. CASE state[t] # "READY" /\ UNCHANGED wvars
    BY <1>2, <1>11, <2>2, ZenonT(30), SMTT(30) DEF Relock, wvars
  <2> QED BY <1>9, <1>11, <2>1, <2>2 DEF Relock
<1>12. ASSUME NEW t \in Tasks, Close(t) \/ Unlink(t) PROVE WaitInv'
  <2>1. UNCHANGED <<e_wait_q, role, state>> /\ (UNCHANGED messages \/ (opened' = {} /\ messages' = <<>>))
    BY <1>12, ZenonT(30), SMTT(30) DEF Close, Unlink, PutInode, wvars
  <2>2. ASSUME opened' = {}, NEW s \in SR PROVE e_wait_q[s] = <<>>
    <3> SUFFICES ASSUME e_wait_q[s] # <<>> PROVE FALSE
      OBVIOUS
    <3>1. PICK w \in Tasks : pc[w] \in Asleep
      BY FirstWaiter
    <3>2. w \in opened /\ pc[w] # "idle"
      BY <3>1 DEF IInv, LockInv, Asleep
    <3> QED BY <1>12, <2>2, <3>2, ZenonT(40), SMTT(30) DEF Close, Unlink, Enter
  <2>3. \A s \in SR : /\ IsInjective(e_wait_q'[s]) /\ WaitSorted(e_wait_q'[s])
                      /\ Range(e_wait_q'[s]) = Unserved(s)'
    BY <2>1, WaitFrame DEF Unserved
  <2>4. CASE UNCHANGED messages
    BY <1>2, <2>1, <2>4
  <2>5. CASE opened' = {}
    BY <1>0, <2>1, <2>2, <2>3, <2>5, ZenonT(40), SMTT(30) DEF WaitInv
  <2> QED BY <2>1, <2>4, <2>5
<1>13. ASSUME NEW t \in Tasks, \/ WakeUp(t) \/ Scheduled(t) \/ NotifyRegister(t) \/ NotifyRemove(t)
                               \/ Open(t) \/ Signal(t) \/ Timeout(t)
       PROVE  WaitInv'
  BY <1>2, <1>13 DEF WakeUp, Scheduled, NotifyRegister, NotifyRemove, Open, Signal, Timeout, wvars
<1>14. CASE UNCHANGED vars
  BY <1>2, <1>14 DEF vars, wvars
<1> QED BY <1>3, <1>4, <1>5, <1>6, <1>7, <1>8, <1>10, <1>11, <1>12, <1>13, <1>14 DEF Next, Inside, Call

\* Each message inside the kernel has at most one owner, and the array is in
\* order.
LEMMA MsgStep == ASSUME IInv, [Next]_vars PROVE MsgInv'
<1>0. /\ role \in [Tasks -> SR \cup {None}] /\ state \in [Tasks -> {"NONE", "PENDING", "READY"}]
      /\ msg \in [Tasks -> Messages \cup {None}] /\ None \notin Messages
      /\ fate \in [Messages -> {"unsent", "kernel", "received", "destroyed"}]
      /\ messages \in Seq(Messages) /\ Range(messages) \subseteq Messages
      /\ None \notin SR /\ SR = {"SEND", "RECV"}
  BY MqAssumption DEF IInv, MqTypeOK, SR, Range
<1>1. MsgInv
  BY DEF IInv
<1>2. ASSUME UNCHANGED <<messages, fate, msg>>,
             \A t \in Tasks : role'[t] = role[t] /\ (state'[t] = "NONE" <=> state[t] = "NONE")
      PROVE  MsgInv'
  BY <1>1, <1>2 DEF MsgInv, Holding
\* a task outside a call gets a new role, and a message nobody has
<1>3. ASSUME NEW t \in Tasks, NEW m \in Messages, SendFull(t, m) PROVE MsgInv'
  <2>1. /\ role' = [role EXCEPT ![t] = "SEND"] /\ state' = [state EXCEPT ![t] = "NONE"]
        /\ msg' = [msg EXCEPT ![t] = m] /\ fate' = [fate EXCEPT ![m] = "kernel"]
        /\ UNCHANGED messages /\ fate[m] = "unsent"
    BY <1>3 DEF SendFull, Sleep
  <2>2. m \notin Range(messages) /\ \A u \in Tasks : Holding(u) => msg[u] # m
    BY <1>1, <2>1 DEF MsgInv
  <2>3. \A u \in Tasks : u # t => /\ role'[u] = role[u] /\ state'[u] = state[u] /\ msg'[u] = msg[u]
                                  /\ (Holding(u)' <=> Holding(u))
    BY <1>0, <2>1 DEF Holding
  <2>4. role'[t] = "SEND" /\ state'[t] = "NONE" /\ msg'[t] = m
    BY <1>0, <2>1
  <2>5. fate'[m] = "kernel" /\ \A x \in Messages : fate[x] = "kernel" => fate'[x] = "kernel"
    BY <1>0, <2>1, ZenonT(40), SMTT(30)
  <2> QED BY <1>0, <1>1, <2>1, <2>2, <2>3, <2>4, <2>5 DEF MsgInv
<1>4. ASSUME NEW t \in Tasks, ReceiveEmpty(t) PROVE MsgInv'
  <2>1. /\ role' = [role EXCEPT ![t] = "RECV"] /\ state' = [state EXCEPT ![t] = "NONE"]
        /\ msg' = [msg EXCEPT ![t] = None] /\ UNCHANGED <<messages, fate>>
    BY <1>4 DEF ReceiveEmpty, Sleep
  <2>2. \A u \in Tasks : u # t => /\ role'[u] = role[u] /\ state'[u] = state[u] /\ msg'[u] = msg[u]
                                  /\ (Holding(u)' <=> Holding(u))
    BY <1>0, <2>1 DEF Holding
  <2>3. role'[t] = "RECV" /\ state'[t] = "NONE" /\ msg'[t] = None /\ ~Holding(t)'
    BY <1>0, <2>1, ZenonT(40), SMTT(30) DEF Holding
  <2> QED BY <1>1, <2>1, <2>2, <2>3 DEF MsgInv
<1>5. ASSUME NEW t \in Tasks, NEW m \in Messages, SendHandOver(t, m) PROVE MsgInv'
  <2>1. /\ pc[t] = "idle" /\ lock = None /\ e_wait_q["RECV"] # <<>> /\ UNCHANGED messages
        /\ Serve(t, wq_get_first_waiter("RECV"), m) /\ fate[m] = "unsent"
        /\ fate' = [fate EXCEPT ![m] = "kernel"]
    BY <1>5 DEF SendHandOver, Enter
  <2>2. PICK w \in Tasks :
          /\ role[w] = "RECV" /\ state[w] = "NONE" /\ UNCHANGED role
          /\ state' = [state EXCEPT ![w] = "PENDING"] /\ msg' = [msg EXCEPT ![w] = m]
    <3>1. "RECV" \in SR
      BY <1>0
    <3>2. PICK v \in Tasks : Served(t, v, "RECV", m)
      BY <2>1, <3>1, ServeEffect
    <3> QED BY <3>2, ZenonT(30), SMTT(30) DEF Served
  <2>3. m \notin Range(messages) /\ \A u \in Tasks : Holding(u) => msg[u] # m
    BY <1>1, <2>1, ZenonT(30), SMTT(30) DEF MsgInv
  <2>4. \A u \in Tasks : u # w => /\ role'[u] = role[u] /\ state'[u] = state[u] /\ msg'[u] = msg[u]
                                  /\ (Holding(u)' <=> Holding(u))
    BY <1>0, <2>2 DEF Holding
  <2>5. role'[w] = "RECV" /\ state'[w] = "PENDING" /\ msg'[w] = m
    BY <1>0, <2>2
  <2>6. fate'[m] = "kernel" /\ \A x \in Messages : fate[x] = "kernel" => fate'[x] = "kernel"
    BY <1>0, <2>1, ZenonT(40), SMTT(30)
  <2>7. ASSUME NEW u \in Tasks
        PROVE  /\ role'[u] = "SEND" => msg'[u] \in Messages
               /\ role'[u] = "RECV" /\ state'[u] = "NONE" => msg'[u] = None
               /\ Holding(u)' => msg'[u] \in Messages /\ fate'[msg'[u]] = "kernel" /\ msg'[u] \notin Range(messages)
    <3>1. CASE u = w
      BY <2>3, <2>5, <2>6, <3>1
    <3>2. CASE u # w
      BY <1>1, <2>4, <2>6, <3>2 DEF MsgInv
    <3> QED BY <3>1, <3>2
  <2>8. ASSUME NEW u \in Tasks, NEW v \in Tasks, Holding(u)', Holding(v)', msg'[u] = msg'[v]
        PROVE  u = v
    BY <1>1, <2>3, <2>4, <2>5, <2>8, ZenonT(40), SMTT(30) DEF MsgInv
  <2>9. \A x \in Range(messages) : fate'[x] = "kernel"
    BY <1>0, <1>1, <2>6 DEF MsgInv
  <2> QED BY <1>1, <2>1, <2>7, <2>8, <2>9, ZenonT(40), SMTT(30) DEF MsgInv
<1>6. ASSUME NEW t \in Tasks, NEW m \in Messages, SendInsert(t, m) PROVE MsgInv'
  <2>1. /\ messages' = Inserted(messages, m) /\ UNCHANGED <<role, state, msg>>
        /\ fate[m] = "unsent" /\ fate' = [fate EXCEPT ![m] = "kernel"]
    BY <1>6, ZenonT(30), SMTT(30) DEF SendInsert, wvars
  <2>2. m \notin Range(messages) /\ \A u \in Tasks : Holding(u) => msg[u] # m
    BY <1>1, <2>1, ZenonT(40), SMTT(30) DEF MsgInv
  <2>3. Range(messages') = Range(messages) \cup {m} /\ IsInjective(messages') /\ MsgSorted(messages')
    BY <1>0, <1>1, <2>1, <2>2, InsertedFact, ZenonT(30), SMTT(30) DEF MsgInv
  <2>4. fate'[m] = "kernel" /\ \A x \in Messages : fate[x] = "kernel" => fate'[x] = "kernel"
    BY <1>0, <2>1
  <2>5. \A u \in Tasks : Holding(u)' <=> Holding(u)
    BY <2>1 DEF Holding
  <2> QED BY <1>0, <1>1, <2>1, <2>2, <2>3, <2>4, <2>5 DEF MsgInv
<1>7. ASSUME NEW t \in Tasks, ReceiveQueued(t) PROVE MsgInv'
  <2> DEFINE l == Last(messages)
  <2>1. /\ l \in Messages /\ l \in Range(messages) /\ fate' = [fate EXCEPT ![l] = "received"]
        /\ IsInjective(messages') /\ MsgSorted(messages')
    BY <1>7, ReceiveEffect
  <2>2. \A x \in Messages : x # l => fate'[x] = fate[x]
    BY <1>0, <2>1, ZenonT(40), SMTT(30)
  <2>3. \A u \in Tasks : Holding(u) => msg[u] # l
    BY <1>1, <2>1 DEF MsgInv
  <2>4. CASE e_wait_q["SEND"] = <<>>
    <3>1. UNCHANGED <<role, state, msg>>
      BY <1>7, <2>4, ZenonT(30), SMTT(30) DEF ReceiveQueued, wvars
    <3>2. Range(messages') = Range(messages) \ {l}
      BY <1>7, <2>4, ReceiveEffect, ZenonT(30), SMTT(30)
    <3>3. \A u \in Tasks : Holding(u)' <=> Holding(u)
      BY <3>1, ZenonT(40), SMTT(30) DEF Holding
    <3> HIDE DEF l
    <3> QED BY <1>0, <1>1, <2>1, <2>2, <2>3, <3>1, <3>2, <3>3 DEF MsgInv
  <2>5. CASE e_wait_q["SEND"] # <<>>
    <3> DEFINE w == wq_get_first_waiter("SEND")
    <3>1. pc[t] = "idle" /\ lock = None /\ Serve(t, w, msg[w])
      BY <1>7, <2>5 DEF ReceiveQueued, Enter
    <3>2. /\ w \in Tasks /\ role[w] = "SEND" /\ state[w] = "NONE" /\ msg[w] \in Messages
          /\ Range(messages') = (Range(messages) \ {l}) \cup {msg[w]}
      BY <1>7, <2>5, ReceiveEffect
    <3>3. state' = [state EXCEPT ![w] = "PENDING"] /\ msg' = [msg EXCEPT ![w] = msg[w]] /\ UNCHANGED role
      BY <3>1 DEF Serve
    <3> HIDE DEF l, w
    <3>4. msg' = msg
      BY <1>0, <3>2, <3>3
    <3>5. \A u \in Tasks : Holding(u)' <=> Holding(u) /\ u # w
      BY <1>0, <3>2, <3>3 DEF Holding
    <3>6. Holding(w) /\ fate[msg[w]] = "kernel" /\ \A u \in Tasks : Holding(u) /\ u # w => msg[u] # msg[w]
      BY <1>1, <3>2 DEF MsgInv, Holding
    <3>7. \A m \in Range(messages') : fate'[m] = "kernel"
      BY <1>0, <1>1, <2>2, <2>3, <3>2, <3>6 DEF MsgInv
    <3>8. \A u \in Tasks : /\ role'[u] = "SEND" => msg'[u] \in Messages
                           /\ role'[u] = "RECV" /\ state'[u] = "NONE" => msg'[u] = None
      BY <1>0, <1>1, <3>2, <3>3, <3>4, ZenonT(40), SMTT(30) DEF MsgInv
    <3>9. \A u \in Tasks : Holding(u)' =>
            /\ msg'[u] \in Messages /\ fate'[msg'[u]] = "kernel" /\ msg'[u] \notin Range(messages')
      BY <1>1, <2>2, <2>3, <3>2, <3>4, <3>5, <3>6, ZenonT(40), SMTT(30) DEF MsgInv
    <3>10. \A u, v \in Tasks : Holding(u)' /\ Holding(v)' /\ msg'[u] = msg'[v] => u = v
      BY <1>1, <3>4, <3>5 DEF MsgInv
    <3> QED BY <2>1, <3>7, <3>8, <3>9, <3>10, ZenonT(40), SMTT(30) DEF MsgInv
  <2> QED BY <2>4, <2>5
<1>8. ASSUME NEW t \in Tasks, Ready(t) PROVE MsgInv'
  <2>1. /\ waking \in Tasks /\ state[waking] = "PENDING" /\ UNCHANGED <<messages, role, msg, fate>>
        /\ state' = [state EXCEPT ![waking] = "READY"]
    BY <1>8, MqAssumption DEF Ready, IInv, LockInv
  <2>2. \A u \in Tasks : role'[u] = role[u] /\ (state'[u] = "NONE" <=> state[u] = "NONE")
    BY <1>0, <2>1, ZenonT(40), SMTT(30)
  <2> QED BY <1>2, <2>1, <2>2
\* wq_sleep is left, and the message of an owner is gone with it
<1>9. ASSUME NEW t \in Tasks, Forget(t), UNCHANGED messages,
             \/ UNCHANGED fate
             \/ Holding(t) /\ \E f \in {"unsent", "received"} : fate' = [fate EXCEPT ![msg[t]] = f]
      PROVE  MsgInv'
  <2>1. /\ role' = [role EXCEPT ![t] = None] /\ state' = [state EXCEPT ![t] = "NONE"]
        /\ msg' = [msg EXCEPT ![t] = None]
    BY <1>9 DEF Forget
  <2>2. \A u \in Tasks : u # t => /\ role'[u] = role[u] /\ state'[u] = state[u] /\ msg'[u] = msg[u]
                                  /\ (Holding(u)' <=> Holding(u))
    BY <1>0, <2>1 DEF Holding
  <2>3. role'[t] = None /\ ~Holding(t)'
    BY <1>0, <2>1 DEF Holding
  <2>4. \A x \in Messages : fate'[x] # fate[x] => Holding(t) /\ x = msg[t]
    BY <1>0, <1>9
  <2>5. \A m \in Range(messages) : fate'[m] = "kernel"
    BY <1>0, <1>1, <2>4, ZenonT(40), SMTT(30) DEF MsgInv
  <2>6. \A u \in Tasks : Holding(u) /\ u # t => fate'[msg[u]] = "kernel"
    BY <1>1, <2>4 DEF MsgInv
  <2>7. role'[t] # "SEND" /\ role'[t] # "RECV"
    BY <1>0, <2>3, ZenonT(40), SMTT(30)
  <2>8. ASSUME NEW u \in Tasks
        PROVE  /\ role'[u] = "SEND" => msg'[u] \in Messages
               /\ role'[u] = "RECV" /\ state'[u] = "NONE" => msg'[u] = None
               /\ Holding(u)' => msg'[u] \in Messages /\ fate'[msg'[u]] = "kernel" /\ msg'[u] \notin Range(messages)
    BY <1>1, <2>2, <2>3, <2>6, <2>7 DEF MsgInv
  <2>9. ASSUME NEW u \in Tasks, NEW v \in Tasks, Holding(u)', Holding(v)', msg'[u] = msg'[v]
        PROVE  u = v
    BY <1>1, <2>2, <2>3, <2>9 DEF MsgInv
  <2> QED BY <1>1, <1>9, <2>5, <2>8, <2>9, ZenonT(40), SMTT(30) DEF MsgInv
<1>10. ASSUME NEW t \in Tasks, Success(t), state[t] = "READY", UNCHANGED messages PROVE MsgInv'
  <2>1. Forget(t) /\ fate' = IF role[t] = "RECV" THEN [fate EXCEPT ![msg[t]] = "received"] ELSE fate
    BY <1>10 DEF Success
  <2>2. role[t] = "RECV" => Holding(t)
    BY <1>10 DEF Holding
  <2> QED BY <1>9, <1>10, <2>1, <2>2, ZenonT(30), SMTT(30)
<1>11. ASSUME NEW t \in Tasks, Fail(t), state[t] = "NONE", UNCHANGED messages PROVE MsgInv'
  <2>1. Forget(t) /\ fate' = IF role[t] = "SEND" THEN [fate EXCEPT ![msg[t]] = "unsent"] ELSE fate
    BY <1>11 DEF Fail
  <2>2. role[t] = "SEND" => Holding(t)
    BY <1>11, ZenonT(40), SMTT(30) DEF Holding
  <2> QED BY <1>9, <1>11, <2>1, <2>2, ZenonT(30), SMTT(30)
<1>12. ASSUME NEW t \in Tasks, CheckLockless(t) PROVE MsgInv'
  BY <1>2, <1>10, <1>12, ZenonT(40), SMTT(30) DEF CheckLockless
<1>13. ASSUME NEW t \in Tasks, Relock(t) PROVE MsgInv'
  <2>1. state[t] # "PENDING" /\ UNCHANGED messages
    BY <1>13, MqAssumption, ZenonT(30), SMTT(30) DEF Relock, IInv, LockInv
  <2> QED BY <1>0, <1>2, <1>10, <1>11, <1>13, <2>1, ZenonT(40), SMTT(30) DEF Relock, wvars
<1>14. ASSUME NEW t \in Tasks, Close(t) \/ Unlink(t) PROVE MsgInv'
  <2>1. /\ UNCHANGED <<role, state, msg>>
        /\ \/ UNCHANGED <<messages, fate>>
           \/ /\ messages' = <<>>
              /\ fate' = [m \in Messages |-> IF Contains(messages, m) THEN "destroyed" ELSE fate[m]]
    BY <1>14 DEF Close, Unlink, PutInode, wvars
  <2>2. CASE UNCHANGED <<messages, fate>>
    BY <1>2, <2>1, <2>2, ZenonT(40), SMTT(30)
  <2>3. CASE /\ messages' = <<>>
             /\ fate' = [m \in Messages |-> IF Contains(messages, m) THEN "destroyed" ELSE fate[m]]
    <3>1. Range(messages') = {} /\ IsInjective(messages') /\ MsgSorted(messages')
      BY <2>3 DEF Range, IsInjective, MsgSorted
    <3>2. \A m \in Messages : m \notin Range(messages) => fate'[m] = fate[m]
      <4>1. \A m \in Messages : Contains(messages, m) => m \in Range(messages)
        BY <1>0 DEF Range, Contains
      <4> QED BY <2>3, <4>1
    <3>3. \A u \in Tasks : Holding(u)' <=> Holding(u)
      <4>1. UNCHANGED <<role, state>>
        BY <2>1, ZenonT(30), SMTT(30)
      <4> QED BY <4>1 DEF Holding
    <3> QED BY <1>0, <1>1, <2>1, <3>1, <3>2, <3>3 DEF MsgInv
  <2> QED BY <2>1, <2>2, <2>3
<1>15. ASSUME NEW t \in Tasks, \/ WakeUp(t) \/ Scheduled(t) \/ NotifyRegister(t) \/ NotifyRemove(t)
                               \/ Open(t) \/ Signal(t) \/ Timeout(t)
       PROVE  MsgInv'
  BY <1>2, <1>15, ZenonT(30), SMTT(30) DEF WakeUp, Scheduled, NotifyRegister, NotifyRemove, Open, Signal, Timeout, wvars
<1>16. CASE UNCHANGED vars
  BY <1>2, <1>16 DEF vars, wvars
<1> QED BY <1>3, <1>4, <1>5, <1>6, <1>7, <1>8, <1>12, <1>13, <1>14, <1>15, <1>16 DEF Next, Inside, Call

\* __do_notify and mq_notify: the registration does not outlive the arrival
\* of a message in the empty queue.
LEMMA NotifyStep == ASSUME IInv, [Next]_vars PROVE NotifyNotMissed'
<1>0. NotifyNotMissed /\ messages \in Seq(Messages) /\ nonempty \in BOOLEAN
  BY DEF IInv, MqTypeOK
<1>1. ASSUME NEW t \in Tasks, NEW m \in Messages, SendInsert(t, m) PROVE NotifyNotMissed'
  <2>1. Len(messages') = Len(messages) + 1
    BY <1>0, <1>1, InsertedFact DEF SendInsert
  <2>2. CASE messages = <<>>
    <3>1. Len(messages') = 1
      BY <2>1, <2>2
    <3> QED BY <1>1, <3>1 DEF SendInsert, Noted, NotifiedOwner, NotifyNotMissed
  <2>3. CASE messages # <<>>
    BY <1>0, <1>1, <2>3 DEF SendInsert, Noted, NotifiedOwner, NotifyNotMissed
  <2> QED BY <2>2, <2>3
<1>2. ASSUME NEW t \in Tasks, ReceiveQueued(t) PROVE NotifyNotMissed'
  BY <1>0, <1>2, ZenonT(30), SMTT(30) DEF ReceiveQueued, Noted, NotifyNotMissed
<1>3. ASSUME NEW t \in Tasks, NotifyRegister(t) \/ NotifyRemove(t) PROVE NotifyNotMissed'
  BY <1>3, ZenonT(30), SMTT(30) DEF NotifyRegister, NotifyRemove, Noted, NotifyNotMissed
<1>4. ASSUME NEW t \in Tasks, Close(t) PROVE NotifyNotMissed'
  <2>1. messages' # <<>> => messages' = messages
    BY <1>4 DEF Close, PutInode
  <2> QED BY <1>0, <1>4, <2>1 DEF Close, Noted, NotifyNotMissed
<1>5. ASSUME NEW t \in Tasks, Unlink(t) PROVE NotifyNotMissed'
  <2>1. messages' # <<>> => messages' = messages
    BY <1>5 DEF Unlink, PutInode
  <2> QED BY <1>0, <1>5, <2>1 DEF Unlink, nvars, NotifyNotMissed
<1>6. ASSUME UNCHANGED <<messages, nvars>> PROVE NotifyNotMissed'
  BY <1>0, <1>6 DEF nvars, NotifyNotMissed
<1>7. ASSUME NEW t \in Tasks, \/ \E m \in Messages : SendFull(t, m) \/ SendHandOver(t, m)
                              \/ ReceiveEmpty(t) \/ Inside(t) \/ Open(t) \/ Signal(t) \/ Timeout(t)
      PROVE  UNCHANGED <<messages, nvars>>
  BY <1>7, ZenonT(30), SMTT(30) DEF SendFull, SendHandOver, ReceiveEmpty, Sleep, Inside, WakeUp, Ready, Scheduled, CheckLockless, Relock,
       Open, Signal, Timeout
<1>8. CASE UNCHANGED vars
  BY <1>6, <1>8 DEF vars
<1> QED BY <1>1, <1>2, <1>3, <1>4, <1>5, <1>6, <1>7, <1>8, ZenonT(40), SMTT(30) DEF Next, Call

-----------------------------------------------------------------------------
(* The theorems *)

\* A queue just created satisfies the invariant.
LEMMA InitInv == ASSUME Init PROVE IInv
<1> USE MqAssumption DEF Init
<1>1. MqTypeOK
  <2>1. e_wait_q \in [SR -> Seq(Tasks)] /\ messages \in Seq(Messages) /\ Len(messages) <= MaxMsg
    OBVIOUS
  <2> QED BY <2>1, ZenonT(30), SMTT(30) DEF MqTypeOK
<1>2. LockInv
  BY DEF LockInv, Asleep
<1>3. \A sr \in SR : e_wait_q[sr] = <<>>
  OBVIOUS
<1>4. Range(<<>>) = {} /\ IsInjective(<<>>) /\ WaitSorted(<<>>) /\ MsgSorted(<<>>)
  BY DEF Range, IsInjective, WaitSorted, MsgSorted
<1>5. \A sr \in SR : Unserved(sr) = {}
  BY DEF Unserved
<1>6. WaitInv
  BY <1>3, <1>4, <1>5, ZenonT(30), SMTT(30) DEF WaitInv, SR
<1>7. \A t \in Tasks : role[t] = None /\ ~Holding(t)
  BY DEF Holding, SR
<1>8. MsgInv
  BY <1>4, <1>7 DEF MsgInv, SR
<1>9. NotifyNotMissed
  BY DEF NotifyNotMissed
<1> QED BY <1>1, <1>2, <1>6, <1>8, <1>9 DEF IInv

\* The invariant is inductive.
LEMMA Inductive == Spec => []IInv
<1>1. Init => IInv
  BY InitInv
<1>2. IInv /\ [Next]_vars => IInv'
  BY TypeStep, LockStep, WaitStep, MsgStep, NotifyStep DEF IInv
<1> QED BY <1>1, <1>2, PTL DEF Spec

\* No waiter of wq_sleep is forgotten, served twice or touched after it left,
\* and the array of messages never overflows, whatever the number of tasks.
THEOREM WaitersServed == Spec => []MqWaiters
<1>1. IInv => MqWaiters
  <2> SUFFICES ASSUME IInv PROVE MqWaiters
    OBVIOUS
  <2>1. MqTypeOK
    BY DEF IInv
  <2>2. ASSUME NEW t \in Tasks, pc[t] \in {"wake", "ready"}
        PROVE  lock = t /\ pc[waking] \in Asleep /\ state[waking] = "PENDING"
    BY <2>2, MqAssumption DEF IInv, LockInv
  <2>3. /\ e_wait_q["RECV"] # <<>> => messages = <<>>
        /\ e_wait_q["SEND"] # <<>> => Len(messages) = MaxMsg
    BY ZenonT(30), SMTT(30) DEF IInv, WaitInv
  <2>4. ASSUME NEW sr \in SR
        PROVE  /\ IsInjective(e_wait_q[sr])
               /\ \A i, j \in 1..Len(e_wait_q[sr]) : i < j =>
                    StaticPrio[e_wait_q[sr][i]] >= StaticPrio[e_wait_q[sr][j]]
    BY ZenonT(40), SMTT(30) DEF IInv, WaitInv, WaitSorted
  <2>5. ASSUME NEW sr \in SR, NEW t \in Tasks
        PROVE  Contains(e_wait_q[sr], t) <=> pc[t] \in Asleep /\ role[t] = sr /\ state[t] = "NONE"
    <3>1. e_wait_q[sr] \in Seq(Tasks)
      BY <2>1, ZenonT(40), SMTT(30) DEF MqTypeOK
    <3>2. Contains(e_wait_q[sr], t) <=> t \in Range(e_wait_q[sr])
      BY <3>1 DEF Contains, Range
    <3>3. t \in Range(e_wait_q[sr]) <=> role[t] = sr /\ state[t] = "NONE"
      BY DEF IInv, WaitInv, Unserved
    <3>4. role[t] = sr => pc[t] \in Asleep
      BY MqAssumption DEF IInv, LockInv, SR
    <3> QED BY <3>2, <3>3, <3>4
  <2> QED BY <2>1, <2>2, <2>3, <2>4, <2>5 DEF MqWaiters
<1> QED BY <1>1, Inductive, PTL

\* A task registered with mq_notify hears of the first message that comes
\* into the empty queue.
THEOREM NotificationNotMissed == Spec => []NotifyNotMissed
<1>1. IInv => NotifyNotMissed
  BY ZenonT(40), SMTT(30) DEF IInv
<1> QED BY <1>1, Inductive, PTL

-----------------------------------------------------------------------------
(* PosixMq implements PrioQueue *)

\* Above the last of smaller m_type from below is behind the last of at least
\* the same priority from above.
LEMMA InsertedAbstract ==
  ASSUME NEW q \in Seq(Messages), NEW m \in Messages, MsgSorted(q)
  PROVE  Abstract!Inserted(Reverse(q), m, Reverse(Inserted(q, m)))
<1> DEFINE n == Len(q)
           r == Reverse(q)
<1>1. PICK k \in 0..n :
        /\ Inserted(q, m) = InsertAt(q, k + 1, m)
        /\ \A i \in 1..n : k < i => Prio[q[i]] >= Prio[m]
        /\ k > 0 => Prio[q[k]] < Prio[m]
  BY InsertPlace
<1>2. r \in Seq(Messages) /\ Len(r) = n /\ \A i \in 1..n : r[i] = q[(n - i) + 1]
  BY ReverseProperties
<1> HIDE DEF r
<1>3. n \in Nat /\ Prio[m] \in Nat /\ \A i \in 1..n : Prio[q[i]] \in Nat
  BY MqAssumption
<1>4. \A i \in 1..n : i <= k => Prio[q[i]] < Prio[m]
  <2> SUFFICES ASSUME NEW i \in 1..n, i <= k PROVE Prio[q[i]] < Prio[m]
    OBVIOUS
  <2>1. k \in 1..n /\ Prio[q[k]] < Prio[m]
    BY <1>1
  <2>2. i = k \/ Prio[q[i]] <= Prio[q[k]]
    BY <2>1 DEF MsgSorted
  <2> QED BY <1>3, <2>1, <2>2
<1> HIDE DEF n
<1>5. ASSUME NEW i \in 1..n PROVE i <= n - k <=> Prio[r[i]] >= Prio[m]
  <2>1. (n - i) + 1 \in 1..n /\ r[i] = q[(n - i) + 1]
    BY <1>2, <1>3
  <2>2. CASE i <= n - k
    BY <1>1, <1>3, <2>1, <2>2
  <2>3. CASE i > n - k
    <3>1. (n - i) + 1 <= k
      BY <1>3, <2>3
    <3> QED BY <1>3, <1>4, <2>1, <2>3, <3>1
  <2> QED BY <1>3, <2>2, <2>3
<1>6. Reverse(InsertAt(q, k + 1, m)) = InsertAt(r, (n - (k + 1)) + 2, m)
  <2> DEFINE p == k + 1
  <2>1. p \in 1..Len(q) + 1
    BY <1>1 DEF n
  <2> HIDE DEF p
  <2>2. Reverse(InsertAt(q, p, m)) = InsertAt(Reverse(q), (Len(q) - p) + 2, m)
    BY <2>1, ReverseInsertAt
  <2> QED BY <2>2 DEF p, n, r
<1>7. (n - (k + 1)) + 2 = (n - k) + 1 /\ ((n - k) + 1) - 1 = n - k /\ n - k \in 0..n
  BY <1>3
<1>8. InsertAt(r, (n - k) + 1, m) = SubSeq(r, 1, n - k) \o <<m>> \o SubSeq(r, (n - k) + 1, Len(r))
  BY <1>7, ZenonT(40), SMTT(30) DEF InsertAt
<1> QED BY <1>1, <1>2, <1>5, <1>6, <1>7, <1>8, ZenonT(40), SMTT(30) DEF Abstract!Inserted, r

\* some receiver was handed message m
Taker(m) == \E t \in Tasks : msg[t] = m /\ role[t] = "RECV"

\* The place of a message, by cases.
PlaceRule(m) ==
  /\ fate[m] = "unsent" => PlaceOf(m) = "out"
  /\ fate[m] = "received" => PlaceOf(m) = "taken"
  /\ fate[m] = "destroyed" => PlaceOf(m) = "lost"
  /\ fate[m] = "kernel" /\ m \in Range(messages) => PlaceOf(m) = "in"
  /\ fate[m] = "kernel" /\ m \notin Range(messages) /\ Taker(m) => PlaceOf(m) = "taken"
  /\ fate[m] = "kernel" /\ m \notin Range(messages) /\ ~Taker(m) => PlaceOf(m) = "out"

\* PlaceOf, which the refinement maps a message with, follows these rules,
LEMMA PlaceRules == MqTypeOK => \A m \in Messages : PlaceRule(m)
<1> SUFFICES ASSUME MqTypeOK, NEW m \in Messages PROVE PlaceRule(m)
  OBVIOUS
<1>1. messages \in Seq(Messages)
  BY DEF MqTypeOK
<1>2. Contains(messages, m) <=> m \in Range(messages)
  BY <1>1 DEF Contains, Range
<1> QED BY <1>2 DEF PlaceRule, PlaceOf, Taker

\* ... in the next state too.
LEMMA PlaceRulesNext == MqTypeOK' => \A m \in Messages : PlaceRule(m)'
<1> DEFINE Rules == \A m \in Messages : PlaceRule(m)
<1>1. MqTypeOK => Rules
  BY PlaceRules
<1> HIDE DEF Rules
<1>2. MqTypeOK' => Rules'
  BY <1>1, PTL
<1> QED BY <1>2 DEF Rules

\* A message whose fate and whereabouts a step leaves alone stays in its place.
LEMMA PlaceKept ==
  ASSUME NEW m \in Messages, PlaceRule(m), PlaceRule(m)',
         fate[m] \in {"unsent", "kernel", "received", "destroyed"}, fate'[m] = fate[m],
         m \in Range(messages') <=> m \in Range(messages), Taker(m)' <=> Taker(m)
  PROVE  PlaceOf(m)' = PlaceOf(m)
BY DEF PlaceRule

\* One message moves.
LEMMA PlaceMoved ==
  ASSUME NEW m \in Messages, NEW v, PlaceOf(m)' = v,
         \A x \in Messages : x # m => PlaceOf(x)' = PlaceOf(x)
  PROVE  [x \in Messages |-> PlaceOf(x)'] = [[x \in Messages |-> PlaceOf(x)] EXCEPT ![m] = v]
OBVIOUS

\* the messages of the abstract queue and their places
Contents == <<Reverse(messages), [m \in Messages |-> PlaceOf(m)]>>

\* Nothing moves.
LEMMA PlaceSame ==
  ASSUME UNCHANGED messages, \A x \in Messages : PlaceOf(x)' = PlaceOf(x)
  PROVE  UNCHANGED Contents
BY DEF Contents

\* An empty array is an empty abstract queue, and only that is.
LEMMA ReverseEmpty ==
  ASSUME NEW q \in Seq(Messages)
  PROVE  /\ Reverse(q) \in Seq(Messages) /\ Len(Reverse(q)) = Len(q)
         /\ q = <<>> <=> Reverse(q) = <<>>
<1>1. Reverse(q) \in Seq(Messages) /\ Len(Reverse(q)) = Len(q)
  BY ReverseProperties
<1> QED BY <1>1, EmptySeq

\* Every step of the queue is a step of the abstract one, or changes nothing
\* a user of the abstract one can see: a pipelined_send passes the message on,
\* a pipelined_receive swaps two, a served waiter that leaves moves nothing.
LEMMA AbstractStep == ASSUME IInv, IInv', [Next]_vars PROVE [Abstract!ANext]_(Abstract!avars)
<1>0. /\ role \in [Tasks -> SR \cup {None}] /\ state \in [Tasks -> {"NONE", "PENDING", "READY"}]
      /\ msg \in [Tasks -> Messages \cup {None}] /\ None \notin Messages
      /\ fate \in [Messages -> {"unsent", "kernel", "received", "destroyed"}]
      /\ messages \in Seq(Messages) /\ None \notin SR /\ SR = {"SEND", "RECV"}
  BY MqAssumption DEF IInv, MqTypeOK, SR
<1>1. MsgInv
  BY DEF IInv
<1>2. \A x \in Messages : PlaceRule(x)
  BY PlaceRules DEF IInv
<1>3. \A x \in Messages : PlaceRule(x)'
  BY PlaceRulesNext DEF IInv
<1>4. \A x \in Messages : Taker(x) => fate[x] = "kernel" /\ x \notin Range(messages)
  BY <1>0, <1>1, ZenonT(40), SMTT(30) DEF Taker, MsgInv, Holding
<1>5. \A t \in Tasks : pc[t] = "idle" => role[t] = None
  BY ZenonT(40), SMTT(30) DEF IInv, LockInv, Asleep
<1>6. ASSUME UNCHANGED <<messages, fate>>, \A x \in Messages : Taker(x)' <=> Taker(x)
      PROVE  UNCHANGED Contents
  BY <1>0, <1>2, <1>3, <1>6, PlaceKept, PlaceSame
<1>7. ASSUME UNCHANGED <<messages, fate, role, msg>> PROVE UNCHANGED Contents
  BY <1>6, <1>7 DEF Taker
<1>8. ASSUME NEW t \in Tasks, NEW m \in Messages, SendFull(t, m) PROVE UNCHANGED Contents
  <2>1. /\ pc[t] = "idle" /\ role' = [role EXCEPT ![t] = "SEND"] /\ msg' = [msg EXCEPT ![t] = m]
        /\ fate' = [fate EXCEPT ![m] = "kernel"] /\ UNCHANGED messages /\ fate[m] = "unsent"
    BY <1>8 DEF SendFull, Sleep, Enter
  <2>2. \A x \in Messages : Taker(x)' <=> Taker(x)
    BY <1>0, <1>5, <2>1 DEF Taker
  <2>3. m \notin Range(messages) /\ ~Taker(m)
    BY <1>1, <1>4, <2>1 DEF MsgInv
  <2>4. PlaceOf(m)' = PlaceOf(m)
    BY <1>0, <1>2, <1>3, <2>1, <2>2, <2>3 DEF PlaceRule
  <2>5. \A x \in Messages : x # m => PlaceOf(x)' = PlaceOf(x)
    BY <1>0, <1>2, <1>3, <2>1, <2>2, PlaceKept, ZenonT(40), SMTT(30)
  <2> QED BY <2>1, <2>4, <2>5, PlaceSame
<1>9. ASSUME NEW t \in Tasks, NEW m \in Messages, SendHandOver(t, m) PROVE Abstract!Pass(m)
  <2>1. /\ pc[t] = "idle" /\ lock = None /\ e_wait_q["RECV"] # <<>> /\ UNCHANGED messages
        /\ Serve(t, wq_get_first_waiter("RECV"), m) /\ fate[m] = "unsent"
        /\ fate' = [fate EXCEPT ![m] = "kernel"]
    BY <1>9, ZenonT(40), SMTT(30) DEF SendHandOver, Enter
  <2>2. PICK w \in Tasks : /\ role[w] = "RECV" /\ state[w] = "NONE" /\ UNCHANGED role
                           /\ msg' = [msg EXCEPT ![w] = m]
    <3>1. "RECV" \in SR
      BY <1>0
    <3>2. PICK v \in Tasks : Served(t, v, "RECV", m)
      BY <2>1, <3>1, ServeEffect
    <3> QED BY <3>2, ZenonT(30), SMTT(30) DEF Served
  <2>3. Taker(m)' /\ \A x \in Messages : x # m => (Taker(x)' <=> Taker(x))
    BY <1>0, <1>1, <2>2, ZenonT(40), SMTT(30) DEF Taker, MsgInv
  <2>4. m \notin Range(messages)
    BY <1>1, <2>1 DEF MsgInv
  <2>5. PlaceOf(m) = "out" /\ PlaceOf(m)' = "taken"
    BY <1>0, <1>2, <1>3, <2>1, <2>3, <2>4 DEF PlaceRule
  <2>6. \A x \in Messages : x # m => PlaceOf(x)' = PlaceOf(x)
    BY <1>0, <1>2, <1>3, <2>1, <2>3, PlaceKept, ZenonT(30), SMTT(30)
  <2>7. [x \in Messages |-> PlaceOf(x)'] = [[x \in Messages |-> PlaceOf(x)] EXCEPT ![m] = "taken"]
    BY <2>5, <2>6, PlaceMoved
  <2>8. messages = <<>>
    BY <2>1 DEF IInv, WaitInv
  <2>9. Reverse(messages) = <<>>
    BY <1>0, <2>8, ReverseEmpty, ZenonT(40), SMTT(30)
  <2> QED BY <2>1, <2>5, <2>7, <2>9, ZenonT(40), SMTT(30) DEF Abstract!Pass
<1>10. ASSUME NEW t \in Tasks, NEW m \in Messages, SendInsert(t, m) PROVE Abstract!Put(m)
  <2>1. /\ messages' = Inserted(messages, m) /\ UNCHANGED <<role, msg>> /\ ~Full
        /\ fate[m] = "unsent" /\ fate' = [fate EXCEPT ![m] = "kernel"]
    BY <1>10 DEF SendInsert, wvars
  <2>2. MsgSorted(messages) /\ Range(messages') = Range(messages) \cup {m}
    BY <1>0, <1>1, <2>1, InsertedFact, ZenonT(40), SMTT(30) DEF MsgInv
  <2>3. \A x \in Messages : Taker(x)' <=> Taker(x)
    BY <2>1 DEF Taker
  <2>4. PlaceOf(m) = "out" /\ PlaceOf(m)' = "in"
    BY <1>0, <1>2, <1>3, <2>1, <2>2 DEF PlaceRule
  <2>5. \A x \in Messages : x # m => PlaceOf(x)' = PlaceOf(x)
    BY <1>0, <1>2, <1>3, <2>1, <2>2, <2>3, PlaceKept
  <2>6. [x \in Messages |-> PlaceOf(x)'] = [[x \in Messages |-> PlaceOf(x)] EXCEPT ![m] = "in"]
    BY <2>4, <2>5, PlaceMoved
  <2>7. Len(Reverse(messages)) < MaxMsg
    <3>1. Len(messages) < MaxMsg
      BY <2>1, MqAssumption DEF IInv, MqTypeOK, Full
    <3> QED BY <1>0, <3>1, ReverseEmpty, ZenonT(40), SMTT(30)
  <2>8. Abstract!Inserted(Reverse(messages), m, Reverse(messages'))
    BY <1>0, <2>1, <2>2, InsertedAbstract
  <2> QED BY <2>4, <2>6, <2>7, <2>8 DEF Abstract!Put
<1>11. ASSUME NEW t \in Tasks, ReceiveEmpty(t) PROVE UNCHANGED Contents
  <2>1. /\ pc[t] = "idle" /\ role' = [role EXCEPT ![t] = "RECV"] /\ msg' = [msg EXCEPT ![t] = None]
        /\ UNCHANGED <<messages, fate>>
    BY <1>11 DEF ReceiveEmpty, Sleep, Enter
  <2>2. \A x \in Messages : Taker(x)' <=> Taker(x)
    BY <1>0, <1>5, <2>1 DEF Taker
  <2> QED BY <1>6, <2>1, <2>2
<1>12. ASSUME NEW t \in Tasks, ReceiveQueued(t)
       PROVE  Abstract!Take \/ \E m \in Messages : Abstract!Swap(m)
  <2>1. PICK l \in Messages :
          /\ messages # <<>> /\ l = Last(messages) /\ l \in Range(messages)
          /\ fate' = [fate EXCEPT ![l] = "received"]
    BY <1>12, ReceiveEffect
  <2> DEFINE f == Front(messages)
  <2>2. Head(Reverse(messages)) = l /\ Tail(Reverse(messages)) = Reverse(f)
    BY <1>0, <2>1, ReverseFront
  <2>3. Reverse(messages) # <<>>
    BY <1>0, <2>1, ReverseEmpty
  <2>4. PlaceOf(l)' = "taken"
    BY <1>0, <1>3, <2>1 DEF PlaceRule
  <2>5. f \in Seq(Messages) /\ MsgSorted(f)
    BY <1>0, <1>1, <2>1, FrontProperties, FrontSorted DEF MsgInv
  <2>6. CASE e_wait_q["SEND"] = <<>>
    <3>1. messages' = f /\ UNCHANGED <<role, msg>>
      BY <1>12, <2>6 DEF ReceiveQueued, wvars
    <3>2. Range(messages') = Range(messages) \ {l}
      BY <1>12, <2>1, <2>6, ReceiveEffect, ZenonT(40), SMTT(30)
    <3>3. \A x \in Messages : Taker(x)' <=> Taker(x)
      BY <3>1 DEF Taker
    <3> HIDE DEF f
    <3>4. \A x \in Messages : x # l => PlaceOf(x)' = PlaceOf(x)
      BY <1>0, <1>2, <1>3, <2>1, <3>2, <3>3, PlaceKept
    <3>5. [x \in Messages |-> PlaceOf(x)'] = [[x \in Messages |-> PlaceOf(x)] EXCEPT ![l] = "taken"]
      BY <2>1, <2>4, <3>4, PlaceMoved
    <3> QED BY <2>2, <2>3, <3>1, <3>5, ZenonT(40), SMTT(30) DEF Abstract!Take
  <2>7. CASE e_wait_q["SEND"] # <<>>
    <3>1. PICK w \in Tasks :
            /\ w = wq_get_first_waiter("SEND") /\ role[w] = "SEND" /\ state[w] = "NONE"
            /\ msg[w] \in Messages /\ msg[w] \notin Range(messages)
            /\ Range(messages') = (Range(messages) \ {l}) \cup {msg[w]}
            /\ Len(messages) = MaxMsg
      BY <1>12, <2>1, <2>7, ReceiveEffect
    <3>2. messages' = Inserted(f, msg[w]) /\ UNCHANGED role /\ msg' = [msg EXCEPT ![w] = msg[w]]
      BY <1>12, <2>7, <3>1 DEF ReceiveQueued, Serve
    <3> HIDE DEF f
    <3>3. msg' = msg
      BY <1>0, <3>2
    <3>4. PICK m \in Messages : m = msg[w]
      BY <3>1, ZenonT(40), SMTT(30)
    <3>5. m # l /\ fate[m] = "kernel"
      BY <1>1, <2>1, <3>1, <3>4, ZenonT(40), SMTT(30) DEF MsgInv, Holding
    <3>6. \A x \in Messages : Taker(x)' <=> Taker(x)
      BY <3>2, <3>3, ZenonT(40), SMTT(30) DEF Taker
    <3>7. ~Taker(m)
      <4> SUFFICES ASSUME NEW u \in Tasks, msg[u] = m, role[u] = "RECV" PROVE FALSE
        BY DEF Taker
      <4>1. Holding(u) /\ Holding(w)
        BY <1>0, <1>1, <3>1, SMTT(30) DEF MsgInv, Holding
      <4>2. u = w
        BY <1>1, <3>4, <4>1, ZenonT(40), SMTT(30) DEF MsgInv
      <4> QED BY <3>1, <4>2
    <3>8. PlaceOf(m) = "out" /\ PlaceOf(m)' = "in"
      BY <1>0, <1>2, <1>3, <2>1, <3>1, <3>4, <3>5, <3>7, ZenonT(40), SMTT(30) DEF PlaceRule
    <3>9. \A x \in Messages : x # l /\ x # m => PlaceOf(x)' = PlaceOf(x)
      BY <1>0, <1>2, <1>3, <2>1, <3>1, <3>4, <3>6, PlaceKept, ZenonT(40), SMTT(30)
    <3>10. [x \in Messages |-> PlaceOf(x)'] =
             [[x \in Messages |-> PlaceOf(x)] EXCEPT ![m] = "in", ![l] = "taken"]
      BY <2>1, <2>4, <3>5, <3>8, <3>9, ZenonT(40), SMTT(30)
    <3>11. Len(Reverse(messages)) = MaxMsg
      BY <1>0, <3>1, ReverseEmpty
    <3>12. Abstract!Inserted(Tail(Reverse(messages)), m, Reverse(messages'))
      BY <2>2, <2>5, <3>2, <3>4, InsertedAbstract, ZenonT(40), SMTT(30)
    <3> QED BY <2>2, <3>8, <3>10, <3>11, <3>12, ZenonT(40), SMTT(30) DEF Abstract!Swap
  <2> QED BY <2>6, <2>7
\* the waiter leaves with what it was given
<1>13. ASSUME NEW t \in Tasks, Success(t), state[t] = "READY", role[t] \in SR, UNCHANGED messages
       PROVE  UNCHANGED Contents
  <2>1. /\ role' = [role EXCEPT ![t] = None] /\ msg' = [msg EXCEPT ![t] = None]
        /\ fate' = IF role[t] = "RECV" THEN [fate EXCEPT ![msg[t]] = "received"] ELSE fate
    BY <1>13 DEF Success, Forget
  <2>2. CASE role[t] = "SEND"
    <3>1. UNCHANGED fate /\ \A x \in Messages : Taker(x)' <=> Taker(x)
      BY <1>0, <2>1, <2>2 DEF Taker
    <3> QED BY <1>6, <1>13, <3>1
  <2>3. CASE role[t] = "RECV"
    <3>1. PICK m \in Messages : m = msg[t] /\ fate[m] = "kernel" /\ m \notin Range(messages)
      BY <1>1, <1>13, <2>3 DEF MsgInv, Holding
    <3>2. Taker(m) /\ fate' = [fate EXCEPT ![m] = "received"]
      BY <2>1, <2>3, <3>1 DEF Taker
    <3>3. \A x \in Messages : x # m => (Taker(x)' <=> Taker(x))
      BY <1>0, <2>1, <3>1 DEF Taker
    <3>4. PlaceOf(m)' = PlaceOf(m)
      BY <1>0, <1>2, <1>3, <3>1, <3>2 DEF PlaceRule
    <3>5. \A x \in Messages : x # m => PlaceOf(x)' = PlaceOf(x)
      BY <1>0, <1>2, <1>3, <1>13, <3>2, <3>3, PlaceKept
    <3> QED BY <1>13, <3>4, <3>5, PlaceSame, ZenonT(40), SMTT(30)
  <2> QED BY <1>0, <1>13, <2>2, <2>3
\* the waiter leaves with nothing
<1>14. ASSUME NEW t \in Tasks, Fail(t), state[t] = "NONE", role[t] \in SR, UNCHANGED messages
       PROVE  UNCHANGED Contents
  <2>1. /\ role' = [role EXCEPT ![t] = None] /\ msg' = [msg EXCEPT ![t] = None]
        /\ fate' = IF role[t] = "SEND" THEN [fate EXCEPT ![msg[t]] = "unsent"] ELSE fate
    BY <1>14 DEF Fail, Forget
  <2>2. \A x \in Messages : Taker(x)' <=> Taker(x)
    BY <1>0, <1>1, <1>14, <2>1 DEF Taker, MsgInv
  <2>3. CASE role[t] = "RECV"
    <3>1. UNCHANGED fate
      BY <2>1, <2>3
    <3> QED BY <1>6, <1>14, <2>2, <3>1
  <2>4. CASE role[t] = "SEND"
    <3>1. PICK m \in Messages : m = msg[t] /\ fate[m] = "kernel" /\ m \notin Range(messages)
      BY <1>1, <1>14, <2>4 DEF MsgInv, Holding
    <3>2. fate' = [fate EXCEPT ![m] = "unsent"]
      BY <2>1, <2>4, <3>1
    <3>3. ~Taker(m)
      <4> SUFFICES ASSUME NEW u \in Tasks, msg[u] = m, role[u] = "RECV" PROVE FALSE
        BY DEF Taker
      <4>1. Holding(u) /\ Holding(t)
        BY <1>0, <1>1, <1>14, <2>4, ZenonT(40), SMTT(30) DEF MsgInv, Holding
      <4>2. u = t
        BY <1>1, <3>1, <4>1 DEF MsgInv
      <4> QED BY <2>4, <4>2
    <3>4. PlaceOf(m)' = PlaceOf(m)
      BY <1>0, <1>2, <1>3, <3>1, <3>2, <3>3 DEF PlaceRule
    <3>5. \A x \in Messages : x # m => PlaceOf(x)' = PlaceOf(x)
      BY <1>0, <1>2, <1>3, <1>14, <2>2, <3>2, PlaceKept, ZenonT(30), SMTT(30)
    <3> QED BY <1>14, <3>4, <3>5, PlaceSame, ZenonT(40), SMTT(30)
  <2> QED BY <1>0, <1>14, <2>3, <2>4
<1>15. ASSUME NEW t \in Tasks, CheckLockless(t) \/ Relock(t) PROVE UNCHANGED Contents
  <2>1. UNCHANGED messages
    BY <1>15, ZenonT(40), SMTT(30) DEF CheckLockless, Relock
  <2>2. role[t] \in SR
    BY <1>15, ZenonT(40), SMTT(30) DEF CheckLockless, Relock, IInv, LockInv, Asleep
  <2>3. CASE state[t] = "READY" /\ Success(t)
    BY <1>13, <2>1, <2>2, <2>3, ZenonT(40), SMTT(30)
  <2>4. CASE Relock(t) /\ state[t] # "READY" /\ Fail(t)
    <3>1. state[t] = "NONE"
      BY <1>0, <2>4, MqAssumption DEF Relock, IInv, LockInv
    <3> QED BY <1>14, <2>1, <2>2, <2>4, <3>1, ZenonT(30), SMTT(30)
  <2>5. CASE UNCHANGED <<role, msg, fate>>
    BY <1>7, <2>1, <2>5
  <2> QED BY <1>15, <2>3, <2>4, <2>5, ZenonT(40), SMTT(30) DEF CheckLockless, Relock, wvars
\* mqueue_evict_inode
<1>16. ASSUME NEW x, x \in Refs, Refs' = Refs \ {x}, PutInode, UNCHANGED <<role, msg>>
       PROVE  Abstract!Drop(x)
  <2>1. Refs' = {} <=> (opened' = {} /\ ~linked')
    BY DEF Refs
  <2>2. CASE Refs' # {}
    <3>1. UNCHANGED <<fate, messages>>
      BY <1>16, <2>1, <2>2, ZenonT(40), SMTT(30) DEF PutInode
    <3>2. UNCHANGED Contents
      BY <1>7, <1>16, <3>1
    <3> QED BY <1>16, <2>2, <3>2 DEF Abstract!Drop, Contents
  <2>3. CASE Refs' = {}
    <3>0. /\ messages' = <<>>
          /\ fate' = [m \in Messages |-> IF Contains(messages, m) THEN "destroyed" ELSE fate[m]]
      BY <1>16, <2>1, <2>3, ZenonT(40), SMTT(30) DEF PutInode
    <3>1. \A y \in Messages : Contains(messages, y) <=> y \in Range(messages)
      BY <1>0 DEF Contains, Range
    <3>2. \A y \in Messages : y \in Range(messages) => fate[y] = "kernel" /\ fate'[y] = "destroyed"
      BY <1>0, <1>1, <3>0, <3>1 DEF MsgInv
    <3>3. \A y \in Messages : y \notin Range(messages) => fate'[y] = fate[y]
      BY <1>0, <3>0, <3>1
    <3>4. Range(messages') = {}
      BY <3>0 DEF Range
    <3>5. \A y \in Messages : Taker(y)' <=> Taker(y)
      BY <1>16, ZenonT(40), SMTT(30) DEF Taker
    <3>6. \A y \in Messages : y \in Range(messages) => PlaceOf(y) = "in" /\ PlaceOf(y)' = "lost"
      BY <1>2, <1>3, <3>2, ZenonT(40), SMTT(30) DEF PlaceRule
    <3>7. \A y \in Messages : y \notin Range(messages) => PlaceOf(y)' = PlaceOf(y) /\ PlaceOf(y) # "in"
      <4>1. \A y \in Messages : y \notin Range(messages) => PlaceOf(y)' = PlaceOf(y)
        BY <1>0, <1>2, <1>3, <3>3, <3>4, <3>5, PlaceKept, ZenonT(40), SMTT(30)
      <4>2. \A y \in Messages : y \notin Range(messages) => PlaceOf(y) # "in"
        BY <1>0, <1>2 DEF PlaceRule
      <4> QED BY <4>1, <4>2
    <3>8. Reverse(messages') = <<>>
      BY <3>0, ReverseEmpty, EmptySeq, ZenonT(40), SMTT(30)
    <3>9. [y \in Messages |-> PlaceOf(y)'] =
            [y \in Messages |-> IF PlaceOf(y) = "in" THEN "lost" ELSE PlaceOf(y)]
      BY <3>6, <3>7
    <3>10. [y \in Messages |-> PlaceOf(y)]' = [y \in Messages |-> PlaceOf(y)']
      OBVIOUS
    <3>11. \A y \in Messages : [z \in Messages |-> PlaceOf(z)][y] = PlaceOf(y)
      OBVIOUS
    <3> QED BY <1>16, <2>3, <3>8, <3>9, <3>10, <3>11 DEF Abstract!Drop
  <2> QED BY <2>2, <2>3
<1>17. ASSUME NEW t \in Tasks, Close(t) PROVE Abstract!Drop(t)
  <2>1. /\ t \in opened /\ opened' = opened \ {t} /\ UNCHANGED linked
        /\ PutInode /\ UNCHANGED <<role, msg>> /\ t # None
    BY <1>17, MqAssumption DEF Close, Enter, wvars
  <2>2. t \in Refs /\ Refs' = Refs \ {t}
    BY <2>1 DEF Refs
  <2> QED BY <1>16, <2>1, <2>2
<1>18. ASSUME NEW t \in Tasks, Unlink(t) PROVE Abstract!Drop(None)
  <2>1. /\ linked /\ ~linked' /\ UNCHANGED opened /\ None \notin opened
        /\ PutInode /\ UNCHANGED <<role, msg>>
    BY <1>18, MqAssumption DEF Unlink, wvars, IInv, MqTypeOK
  <2>2. None \in Refs /\ Refs' = Refs \ {None}
    BY <2>1 DEF Refs
  <2> QED BY <1>16, <2>1, <2>2, ZenonT(40), SMTT(30)
<1>19. ASSUME NEW t \in Tasks, Open(t) PROVE Abstract!Gain(t)
  <2>1. /\ linked /\ opened' = opened \cup {t} /\ UNCHANGED linked
        /\ UNCHANGED <<messages, fate, role, msg>>
    BY <1>19 DEF Open, wvars
  <2>2. None \in Refs /\ Refs' = Refs \cup {t}
    BY <2>1 DEF Refs
  <2>3. UNCHANGED Contents
    BY <1>7, <2>1
  <2> QED BY <2>2, <2>3 DEF Abstract!Gain, Contents
<1>20. ASSUME NEW t \in Tasks, \/ WakeUp(t) \/ Ready(t) \/ Scheduled(t) \/ NotifyRegister(t)
                               \/ NotifyRemove(t) \/ Signal(t) \/ Timeout(t)
       PROVE  UNCHANGED Contents
  BY <1>7, <1>20 DEF WakeUp, Ready, Scheduled, NotifyRegister, NotifyRemove, Signal, Timeout, wvars
<1>21. CASE UNCHANGED vars
  <2>1. UNCHANGED Contents /\ UNCHANGED <<opened, linked>>
    BY <1>7, <1>21 DEF vars, wvars, fvars
  <2> QED BY <2>1 DEF Abstract!avars, Contents, Refs
<1>22. ASSUME NEW t \in Tasks, Inside(t) \/ Call(t) \/ Signal(t) \/ Timeout(t)
       PROVE  Abstract!ANext \/ UNCHANGED Abstract!avars
  <2>1. CASE Open(t) \/ Close(t) \/ Unlink(t)
    BY <1>17, <1>18, <1>19, <2>1 DEF Abstract!ANext
  <2>2. CASE \E m \in Messages : SendHandOver(t, m) \/ SendInsert(t, m)
    <3>1. PICK m \in Messages : SendHandOver(t, m) \/ SendInsert(t, m)
      BY <2>2
    <3>2. CASE SendHandOver(t, m)
      <4>1. t \in opened /\ UNCHANGED <<opened, linked>>
        BY <3>2 DEF SendHandOver, Enter, fvars
      <4>2. Refs # {} /\ UNCHANGED Refs
        BY <4>1 DEF Refs
      <4> QED BY <1>9, <3>2, <4>2 DEF Abstract!ANext, Abstract!Use
    <3>3. CASE SendInsert(t, m)
      <4>1. t \in opened /\ UNCHANGED <<opened, linked>>
        BY <3>3 DEF SendInsert, Enter, fvars
      <4>2. Refs # {} /\ UNCHANGED Refs
        BY <4>1 DEF Refs
      <4> QED BY <1>10, <3>3, <4>2 DEF Abstract!ANext, Abstract!Use
    <3> QED BY <3>1, <3>2, <3>3
  <2>3. CASE ReceiveQueued(t)
    <3>1. t \in opened /\ UNCHANGED <<opened, linked>>
      BY <2>3 DEF ReceiveQueued, Enter, fvars
    <3>2. Refs # {} /\ UNCHANGED Refs
      BY <3>1 DEF Refs
    <3> QED BY <1>12, <2>3, <3>2, ZenonT(40), SMTT(30) DEF Abstract!ANext, Abstract!Use
  <2>4. CASE \/ \E m \in Messages : SendFull(t, m)
             \/ ReceiveEmpty(t) \/ CheckLockless(t) \/ Relock(t) \/ WakeUp(t) \/ Ready(t)
             \/ Scheduled(t) \/ NotifyRegister(t) \/ NotifyRemove(t) \/ Signal(t) \/ Timeout(t)
    <3>1. UNCHANGED Contents
      BY <1>8, <1>11, <1>15, <1>20, <2>4, ZenonT(30), SMTT(30)
    <3>2. UNCHANGED <<opened, linked>>
      BY <2>4 DEF Signal, Timeout, WakeUp, Ready, Scheduled, CheckLockless, Relock,
         SendFull, ReceiveEmpty, NotifyRegister, NotifyRemove, fvars
    <3> QED BY <3>1, <3>2 DEF Abstract!avars, Contents, Refs
  <2> QED BY <1>22, <2>1, <2>2, <2>3, <2>4 DEF Inside, Call
<1> QED BY <1>21, <1>22 DEF Next

\* The queue of ipc/mqueue.c, with its hand-overs, signals, timeouts and
\* lockless wake-ups, implements the atomic priority queue of PrioQueue.
THEOREM RefinesPrioQueue == Spec => ImplementsPrioQueue
<1>1. Init => Abstract!AInit
  <2> SUFFICES ASSUME Init PROVE Abstract!AInit
    OBVIOUS
  <2>1. messages = <<>> /\ \A m \in Messages : fate[m] = "unsent"
    BY DEF Init
  <2>2. Reverse(messages) = <<>>
    BY <2>1, ReverseEmpty, EmptySeq, ZenonT(40), SMTT(30)
  <2>3. \A m \in Messages : PlaceOf(m) = "out"
    BY <2>1 DEF PlaceOf
  <2>4. None \in Refs
    BY DEF Init, Refs
  <2> QED BY <2>2, <2>3, <2>4 DEF Abstract!AInit
<1>2. IInv /\ IInv' /\ [Next]_vars => [Abstract!ANext]_(Abstract!avars)
  BY AbstractStep
<1> QED BY <1>1, <1>2, Inductive, PTL DEF Spec, ImplementsPrioQueue, Abstract!ASpec

=============================================================================
