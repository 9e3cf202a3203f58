----------------------------- MODULE SysvMsgInv -----------------------------
(***************************************************************************)
(* The inductive invariant of SysvMsg, the facts about the operators of the *)
(* model its proof needs, and the preservation of the locks, the calls, the *)
(* types and the reference count.                                          *)
(***************************************************************************)
EXTENDS SysvMsg, SeqFacts, FiniteSetTheorems

\* the provers tried, in this order, on a step that names none
USE ZenonT(30), SMTT(30)

-----------------------------------------------------------------------------
(* The inductive invariant *)

Owner == {"pipelined_send", "wake_up", "store", "freeque", "ipc_set"}
Answers == {"wake_up", "store"}

\* t is inside msgctl with rw_mutex held
InCtl(t) == \/ pc[t] \in {"freeque", "ipc_set", "free_msgs", "putref"}
            \/ pc[t] \in Answers /\ smsg[t] = "NULL"

\* the spinlock is held by IPC_RMID
Freeing == \E t \in Tasks : \/ pc[t] = "freeque"
                            \/ pc[t] \in Answers /\ handing = "EIDRM"

\* the spinlock is held by IPC_SET or IPC_RMID
CtlLocked == lock # NoTask /\ lock = rw_mutex

LockInv ==
  /\ \A t \in Tasks : /\ pc[t] \in Owner <=> lock = t
                      /\ InCtl(t) <=> rw_mutex = t
                      /\ pc[t] \in {"free_msgs", "putref"} => deleted
  /\ deleted => lock = NoTask
  /\ CtlLocked <=> cursor > 0

CallInv ==
  \A t \in Tasks :
    /\ smsg[t] # "NULL" => pc[t] \in {"snd_sleep", "pipelined_send", "wake_up", "store"}
    /\ pc[t] \in {"snd_sleep", "pipelined_send"} => smsg[t] # "NULL"
    /\ pc[t] \notin Waiting => r_msg[t] = "NULL"
    /\ pc[t] \in Waiting /\ r_msg[t] = "NULL" => waking = t
    /\ tstate[t] = "sleeping" => pc[t] \in {"snd_sleep", "rcv_sleep"}

AnswerInv ==
  /\ \A t \in Tasks : pc[t] \in Answers =>
       /\ waking \in Tasks /\ pc[waking] \in Waiting /\ r_msg[waking] = "NULL"
       /\ smsg[t] = "NULL" => handing \in {"EIDRM", "EAGAIN"}
       /\ smsg[t] # "NULL" => handing \in {"E2BIG", smsg[t]}
       /\ handing \in Messages =>
            testmsg(handing, filter[waking]) /\ Matching(filter[waking]) = {}
  /\ (\A t \in Tasks : pc[t] \notin Answers) => waking = NoTask /\ handing = "NULL"

\* the receivers that wait for an answer
Unanswered == {t \in Tasks : r_msg[t] = "EAGAIN"}

\* The list holds the unanswered receivers, plus the one IPC_SET is answering;
\* those expunge_all still has to visit are unanswered, and while IPC_RMID
\* runs it still has to visit all that are.
ReceiverInv ==
  /\ ~deleted =>
       /\ IsInjective(q_receivers)
       /\ ~Freeing =>
            /\ \A t \in Tasks : t \in Range(q_receivers) <=>
                 t \in Unanswered \/ (t = waking /\ handing = "EAGAIN")
            /\ \A t \in Range(q_receivers) : Matching(filter[t]) = {}
       /\ Freeing => \A t \in Unanswered :
            \E i \in 1..Len(q_receivers) : q_receivers[i] = t /\ i >= cursor
       /\ cursor > 0 => \A i \in 1..Len(q_receivers) :
            i >= cursor => q_receivers[i] \in Unanswered
  /\ deleted => Unanswered = {}

SleepInv ==
  /\ \A t \in Tasks :
       /\ tstate[t] = "sleeping" /\ pc[t] = "rcv_sleep" =>
            r_msg[t] = "EAGAIN" \/ (t = waking /\ \E u \in Tasks : pc[u] = "wake_up")
       /\ tstate[t] = "sleeping" /\ pc[t] = "snd_sleep" =>
            ~deleted /\ (CtlLocked \/ ~Fits(smsg[t]))
       /\ ~deleted => (t \in q_senders <=> pc[t] = "snd_sleep")
  /\ deleted => q_senders = {}

\* the senders that hold a reference, and the reference newque took
Refs == {t \in Tasks : pc[t] = "snd_sleep"}
Unreleased == ~deleted \/ \E t \in Tasks : pc[t] \in {"free_msgs", "putref"}

MemInv ==
  /\ IsFiniteSet(Refs)
  /\ refcount >= Cardinality(Refs)
  /\ Unreleased => refcount >= Cardinality(Refs) + 1
  /\ \A t \in Tasks : pc[t] = "putref" => reg >= Cardinality(Refs) + 1
  /\ mem # "live" => ~Unreleased /\ Refs = {}
  /\ mem = "grace" => \A u \in Tasks : pc[u] = "rcv_lock" => u \in readers
  /\ mem = "freed" => \A u \in Tasks : pc[u] # "rcv_lock"

\* no two tasks hold the same message
Apart ==
  \A t, u \in Tasks :
    /\ smsg[t] = smsg[u] /\ smsg[t] # "NULL" => t = u
    /\ r_msg[t] = r_msg[u] /\ r_msg[t] \in Messages => t = u
    /\ smsg[t] \in Messages => smsg[t] # r_msg[u]

HoldInv ==
  /\ Apart
  /\ IsInjective(q_messages)
  /\ \A t \in Tasks : smsg[t] \notin Range(q_messages) /\ r_msg[t] \notin Range(q_messages)
  /\ \A m \in Messages : fate[m] = "kernel" <=>
       m \in Range(q_messages) \/ \E t \in Tasks : smsg[t] = m \/ r_msg[t] = m

IInv == /\ LockInv /\ CallInv /\ AnswerInv /\ ReceiverInv /\ SleepInv
        /\ MemInv /\ HoldInv /\ Accounting

-----------------------------------------------------------------------------
(* Facts about the operators of the model *)

\* convert_mode and the choice of r_maxsize yield a filter.
LEMMA FilterType == \A a \in RcvArgs : FilterOf(a) \in Filters
<1> SUFFICES ASSUME NEW a \in RcvArgs PROVE FilterOf(a) \in Filters
  OBVIOUS
<1>1. a.msgtyp \in Int /\ a.msgsz \in Nat /\ a.noerror \in BOOLEAN /\ LongMin \in Int
      /\ IntMax \in Nat
  BY ConstantsAssumption
<1>2. Negate(a.msgtyp) \in Int
  BY <1>1, SMTT(30) DEF Negate
<1>3. convert_mode(a).mode \in SearchModes /\ convert_mode(a).msgtyp \in Int
  <2>1. CASE a.msgtyp = 0
    BY <2>1, SMTT(30) DEF convert_mode, SearchModes
  <2>2. CASE a.msgtyp < 0
    BY <2>2, <1>1, <1>2 DEF convert_mode, SearchModes
  <2>3. CASE a.msgtyp > 0
    BY <2>3, <1>1, SMTT(30) DEF convert_mode, SearchModes
  <2> QED BY <2>1, <2>2, <2>3, <1>1, SMTT(30)
<1> QED BY <1>1, <1>3, SMTT(30) DEF FilterOf, Filters

\* pipelined_send picks a listed receiver whose filter matches.
LEMMA TakerFact ==
  ASSUME TypeOK, NEW m, Takers(m) # {}
  PROVE  /\ Min(Takers(m)) \in 1..Len(q_receivers)
         /\ testmsg(m, filter[q_receivers[Min(Takers(m))]])
<1>1. Takers(m) \in SUBSET Nat
  BY SMTT(30) DEF Takers, TypeOK
<1>2. Min(Takers(m)) \in Takers(m)
  BY <1>1, MinIsLeast
<1> QED BY <1>2 DEF Takers

\* do_msgrcv's walk ends on a matching message, and no earlier one of the same
\* type matches.
LEMMA WalkFact ==
  ASSUME TypeOK, NEW f, Matching(f) # {}
  PROVE  /\ Walk(f) \in 1..Len(q_messages) /\ testmsg(q_messages[Walk(f)], f)
         /\ \A j \in 1..Len(q_messages) :
              MType[q_messages[j]] = MType[q_messages[Walk(f)]] => Walk(f) <= j
<1> DEFINE M == Matching(f)
           Before(i, j) == \/ f.mode = "LESSEQUAL" /\ MType[q_messages[i]] < MType[q_messages[j]]
                           \/ /\ f.mode = "LESSEQUAL" => MType[q_messages[i]] = MType[q_messages[j]]
                              /\ i <= j
<1>1. M \subseteq 1..Len(q_messages) /\ \A i \in M : MType[q_messages[i]] \in Nat
  BY ConstantsAssumption, SMTT(30) DEF Matching, TypeOK
<1>2. \E i \in M : \A j \in M : Before(i, j)
  <2>1. CASE f.mode # "LESSEQUAL"
    <3>1. PICK i \in M : \A j \in M : i <= j
      BY <1>1, Smallest, SMTT(30)
    <3> QED BY <3>1, <2>1
  <2>2. CASE f.mode = "LESSEQUAL"
    <3> DEFINE Types == {MType[q_messages[i]] : i \in M}
    <3>1. PICK y \in Types : \A z \in Types : y <= z
      BY <1>1, Smallest, ZenonT(30), SMTT(30)
    <3> DEFINE L == {i \in M : MType[q_messages[i]] = y}
    <3>2. L \in SUBSET Nat /\ L # {}
      BY <1>1, <3>1, SMTT(30)
    <3>3. PICK i \in L : \A j \in L : i <= j
      BY <3>2, Smallest, ZenonT(30), SMTT(30)
    <3>4. ASSUME NEW j \in M PROVE Before(i, j)
      <4>1. y <= MType[q_messages[j]] /\ MType[q_messages[i]] = y
        BY <3>1, <3>3
      <4>2. CASE MType[q_messages[j]] = y
        BY <4>2, <3>3, <2>2
      <4>3. CASE MType[q_messages[j]] # y
        BY <4>1, <4>3, <1>1, <2>2, SMTT(30)
      <4> QED BY <4>2, <4>3
    <3> QED BY <3>3, <3>4
  <2> QED BY <2>1, <2>2
<1>3. Walk(f) \in M /\ \A j \in M : Before(Walk(f), j)
  BY <1>2 DEF Walk
<1>4. ASSUME NEW j \in 1..Len(q_messages), MType[q_messages[j]] = MType[q_messages[Walk(f)]]
      PROVE  Walk(f) <= j
  <2>1. j \in M
    BY <1>3, <1>4 DEF Matching, testmsg
  <2> QED BY <1>1, <1>3, <1>4, <2>1, SMTT(30)
<1> QED BY <1>3, <1>4 DEF Matching

\* The running totals of the sizes never decrease.
LEMMA TotalsGrow ==
  ASSUME NEW s \in Seq(Messages), NEW c \in [0..Len(s) -> Nat],
         \A i \in 1..Len(s) : c[i] = c[i - 1] + MSize[s[i]]
  PROVE  \A j, k \in 0..Len(s) : j <= k => c[j] <= c[k]
<1> DEFINE S == {n \in Nat : \A j, k \in 0..Len(s) : k = j + n => c[j] <= c[k]}
<1>1. 0 \in S
  BY SMTT(30)
<1>2. ASSUME NEW n \in Nat, n \in S PROVE n + 1 \in S
  <2> SUFFICES ASSUME NEW j \in 0..Len(s), NEW k \in 0..Len(s), k = j + (n + 1)
               PROVE  c[j] <= c[k]
    BY SMTT(30)
  <2>1. k - 1 \in 0..Len(s) /\ k \in 1..Len(s) /\ k - 1 = j + n
    BY SMTT(30)
  <2>2. c[j] <= c[k - 1]
    BY <1>2, <2>1
  <2>3. c[k] = c[k - 1] + MSize[s[k]]
    BY <2>1
  <2>4. s[k] \in Messages
    BY <2>1, SMTT(30)
  <2>5. MSize[s[k]] \in Nat
    BY <2>4, ConstantsAssumption
  <2>6. c[k - 1] \in Nat /\ c[j] \in Nat
    BY <2>1
  <2> QED BY <2>2, <2>3, <2>5, <2>6, SMTT(30)
<1>3. Nat \subseteq S
  BY <1>1, <1>2, SetInduction, ZenonT(30), SMTT(30)
<1> SUFFICES ASSUME NEW j \in 0..Len(s), NEW k \in 0..Len(s), j <= k
             PROVE  c[j] <= c[k]
  OBVIOUS
<1>4. k - j \in Nat /\ k = j + (k - j)
  BY SMTT(30)
<1> QED BY <1>3, <1>4

\* list_add_tail adds the size of the message to the total.
LEMMA TotalsAppend ==
  ASSUME NEW s \in Seq(Messages), NEW n \in Nat, Totals(s, n), NEW m \in Messages
  PROVE  Totals(Append(s, m), n + MSize[m])
<1>1. PICK c \in [0..Len(s) -> 0..n] :
        /\ c[0] = 0 /\ c[Len(s)] = n
        /\ \A i \in 1..Len(s) : c[i] = c[i - 1] + MSize[s[i]]
  BY DEF Totals
<1>2. MSize[m] \in Nat
  BY ConstantsAssumption
<1> DEFINE a == Append(s, m)
           d == [i \in 0..Len(a) |-> IF i = Len(a) THEN n + MSize[m] ELSE c[i]]
<1>3. Len(a) = Len(s) + 1 /\ a[Len(s) + 1] = m /\ \A i \in 1..Len(s) : a[i] = s[i]
  BY AppendProperties, SMTT(30)
<1> HIDE DEF a
<1>4. d \in [0..Len(a) -> 0..n + MSize[m]]
  BY <1>1, <1>2, <1>3, SMTT(30)
<1>5. d[0] = 0 /\ d[Len(a)] = n + MSize[m]
  BY <1>1, <1>3, SMTT(30)
<1>6. ASSUME NEW i \in 1..Len(a) PROVE d[i] = d[i - 1] + MSize[a[i]]
  <2>1. CASE i = Len(s) + 1
    BY <2>1, <1>1, <1>2, <1>3, SMTT(30)
  <2>2. CASE i \in 1..Len(s)
    <3>1. d[i] = c[i] /\ d[i - 1] = c[i - 1]
      BY <2>2, <1>3, SMTT(30)
    <3> QED BY <3>1, <2>2, <1>1, <1>3
  <2> QED BY <2>1, <2>2, <1>3, SMTT(30)
<1> QED BY <1>4, <1>5, <1>6, ZenonT(30), SMTT(30) DEF Totals, a

\* list_del takes the size of the message off the total.
LEMMA TotalsRemove ==
  ASSUME NEW s \in Seq(Messages), NEW n \in Nat, Totals(s, n), NEW p \in 1..Len(s)
  PROVE  n - MSize[s[p]] \in Nat /\ Totals(RemoveAt(s, p), n - MSize[s[p]])
<1>1. PICK c \in [0..Len(s) -> 0..n] :
        /\ c[0] = 0 /\ c[Len(s)] = n
        /\ \A i \in 1..Len(s) : c[i] = c[i - 1] + MSize[s[i]]
  BY ZenonT(30), SMTT(30) DEF Totals
<1>2. MSize[s[p]] \in Nat
  BY ConstantsAssumption, SMTT(30)
<1>3. \A j, k \in 0..Len(s) : j <= k => c[j] <= c[k]
  <2>1. c \in [0..Len(s) -> Nat]
    BY SMTT(30)
  <2> QED BY <1>1, <2>1, TotalsGrow, ZenonT(30), SMTT(30)
<1>4. c[p] = c[p - 1] + MSize[s[p]] /\ p - 1 \in 0..Len(s) /\ p \in 0..Len(s)
  BY <1>1, SMTT(30)
<1>5. /\ \A j \in 0..Len(s) : j < p => c[j] <= n - MSize[s[p]]
      /\ \A j \in 0..Len(s) : j >= p => c[j] - MSize[s[p]] \in 0..n - MSize[s[p]]
  <2>1. ASSUME NEW j \in 0..Len(s), j < p PROVE c[j] <= n - MSize[s[p]]
    <3>1. c[j] <= c[p - 1] /\ c[p] <= n
      BY <1>3, <1>4, <2>1, SMTT(30)
    <3> QED BY <3>1, <1>4, <1>2, SMTT(30)
  <2>2. ASSUME NEW j \in 0..Len(s), j >= p PROVE c[j] - MSize[s[p]] \in 0..n - MSize[s[p]]
    <3>1. c[p] <= c[j]
      BY <1>3, <1>4, <2>2
    <3>2. c[j] \in 0..n /\ c[p - 1] \in Nat
      BY <1>4, SMTT(30)
    <3> QED BY <3>1, <3>2, <1>4, <1>2, SMTT(30)
  <2> QED BY <2>1, <2>2
<1>6. n - MSize[s[p]] \in Nat
  BY <1>1, <1>5, <1>2, SMTT(30)
<1> DEFINE r == RemoveAt(s, p)
           d == [i \in 0..Len(r) |-> IF i < p THEN c[i] ELSE c[i + 1] - MSize[s[p]]]
<1>7. /\ Len(r) = Len(s) - 1
      /\ \A j \in 1..Len(s) - 1 : r[j] = IF j < p THEN s[j] ELSE s[j + 1]
  BY RemoveAtProperties
<1> HIDE DEF r
<1>8. d \in [0..Len(r) -> 0..n - MSize[s[p]]]
  <2> SUFFICES ASSUME NEW i \in 0..Len(r)
               PROVE  (IF i < p THEN c[i] ELSE c[i + 1] - MSize[s[p]]) \in 0..n - MSize[s[p]]
    OBVIOUS
  <2>1. CASE i < p
    <3>1. i \in 0..Len(s)
      BY <1>7, SMTT(30)
    <3>2. c[i] \in 0..n
      BY <3>1
    <3> QED BY <3>1, <3>2, <2>1, <1>5, <1>6, SMTT(30)
  <2>2. CASE i >= p
    <3>1. i + 1 \in 0..Len(s) /\ i + 1 >= p
      BY <2>2, <1>7, SMTT(30)
    <3> QED BY <3>1, <2>2, <1>5, SMTT(30)
  <2> QED BY <2>1, <2>2, SMTT(30)
<1>9. d[0] = 0 /\ d[Len(r)] = n - MSize[s[p]]
  <2>1. d[0] = 0
    BY <1>1, <1>7, SMTT(30)
  <2>2. CASE p = Len(s)
    <3>1. Len(r) = p - 1 /\ d[p - 1] = c[p - 1]
      BY <2>2, <1>7, SMTT(30)
    <3>2. c[p - 1] \in Nat /\ c[p] = n
      BY <2>2, <1>1, <1>4, SMTT(30)
    <3> QED BY <2>1, <3>1, <3>2, <1>4, <1>2, SMTT(30)
  <2>3. CASE p < Len(s)
    BY <2>3, <1>1, <1>7, SMTT(30)
  <2> QED BY <2>1, <2>2, <2>3, SMTT(30)
<1>10. ASSUME NEW i \in 1..Len(r) PROVE d[i] = d[i - 1] + MSize[r[i]]
  <2>1. CASE i < p
    <3>1. d[i] = c[i] /\ d[i - 1] = c[i - 1] /\ r[i] = s[i] /\ i \in 1..Len(s)
      BY <2>1, <1>7, SMTT(30)
    <3> QED BY <3>1, <1>1
  <2>2. CASE i >= p
    <3>1. i + 1 \in 1..Len(s) /\ r[i] = s[i + 1] /\ (i + 1) - 1 = i
      BY <2>2, <1>7, SMTT(30)
    <3>2. c[i + 1] = c[i] + MSize[s[i + 1]]
      BY <3>1, <1>1
    <3>6. MSize[s[i + 1]] \in Nat
      BY <3>1, ConstantsAssumption, SMTT(30)
    <3>3. d[i] = c[i + 1] - MSize[s[p]]
      BY <2>2, SMTT(30)
    <3>4. d[i - 1] = c[i] - MSize[s[p]]
      <4>1. CASE i = p
        BY <4>1, <1>4, <1>7, <1>2, SMTT(30)
      <4>2. CASE i > p
        BY <4>2, <1>7, SMTT(30)
      <4> QED BY <2>2, <4>1, <4>2, SMTT(30)
    <3>5. c[i] \in Nat /\ c[i + 1] \in Nat
      BY <3>1, SMTT(30)
    <3> QED BY <3>1, <3>2, <3>3, <3>4, <3>5, <3>6, <1>2, SMTT(30)
  <2> QED BY <2>1, <2>2, SMTT(30)
<1> QED BY <1>6, <1>8, <1>9, <1>10, ZenonT(30), SMTT(30) DEF Totals, r

-----------------------------------------------------------------------------
(* What the longer actions do, in the terms of the invariant *)

\* pipelined_send runs with the spinlock of a live queue, and no walk of
\* msgctl under way.
LEMMA SenderLocks ==
  ASSUME TypeOK, LockInv, CallInv, NEW t \in Tasks, pc[t] = "pipelined_send"
  PROVE  lock = t /\ ~deleted /\ cursor = 0 /\ rw_mutex # t /\ smsg[t] # "NULL"
<1>1. lock = t /\ smsg[t] # "NULL" /\ rw_mutex # t
  BY DEF LockInv, CallInv, InCtl, Owner, Answers
<1> QED BY <1>1, ConstantsAssumption, SMTT(30) DEF LockInv, CtlLocked, TypeOK

\* The walk of expunge_all runs with rw_mutex and the spinlock of a live queue.
LEMMA CtlLocks ==
  ASSUME TypeOK, LockInv, NEW t \in Tasks, pc[t] \in {"freeque", "ipc_set"}
  PROVE  lock = t /\ rw_mutex = t /\ ~deleted /\ cursor >= 1
<1>1. lock = t /\ rw_mutex = t /\ t # NoTask
  BY ConstantsAssumption DEF LockInv, InCtl, Owner
<1> QED BY <1>1, SMTT(30) DEF LockInv, CtlLocked, TypeOK

\* No walk of msgctl under way: no -EIDRM or -EAGAIN is being handed over.
LEMMA NoWalk ==
  ASSUME TypeOK, LockInv, AnswerInv, cursor = 0
  PROVE  ~Freeing /\ handing # "EAGAIN"
<1>1. ASSUME NEW t \in Tasks, pc[t] \in Answers, handing \in {"EIDRM", "EAGAIN"}
      PROVE  FALSE
  <2>1. smsg[t] = "NULL"
    BY <1>1, ConstantsAssumption, SMTT(30) DEF AnswerInv, Codes, TypeOK
  <2>2. lock = t /\ rw_mutex = t
    BY <1>1, <2>1 DEF LockInv, InCtl, Answers, Owner
  <2> QED BY <2>2, ConstantsAssumption, SMTT(30) DEF LockInv, CtlLocked
<1>2. ASSUME NEW t \in Tasks, pc[t] = "freeque" PROVE FALSE
  BY <1>2, CtlLocks, SMTT(30)
<1>3. handing = "EAGAIN" => \E t \in Tasks : pc[t] \in Answers
  BY DEF AnswerInv
<1> QED BY <1>1, <1>2, <1>3 DEF Freeing

\* Who is on the list of a live queue, while nobody walks it.
LEMMA ListFact ==
  ASSUME IInv, ~deleted, cursor = 0
  PROVE  /\ IsInjective(q_receivers)
         /\ Range(q_receivers) = Unanswered
         /\ \A t \in Unanswered : pc[t] \in Waiting /\ Matching(filter[t]) = {}
<1>1. ~Freeing /\ handing # "EAGAIN"
  BY NoWalk DEF IInv, Accounting
<1>2. Range(q_receivers) \subseteq Tasks
  BY SMTT(30) DEF IInv, Accounting, TypeOK, Range
<1>3. IsInjective(q_receivers) /\ Range(q_receivers) = Unanswered
      /\ \A t \in Range(q_receivers) : Matching(filter[t]) = {}
  BY <1>1, <1>2 DEF IInv, ReceiverInv, Unanswered
<1>4. \A t \in Unanswered : pc[t] \in Waiting
  BY DEF IInv, CallInv, Unanswered
<1> QED BY <1>3, <1>4

\* The answer of a hand-off tells where it came from: a message or -E2BIG from
\* pipelined_send, -EIDRM from freeque, -EAGAIN from IPC_SET.
LEMMA StoreEffect ==
  ASSUME IInv, NEW t \in Tasks, Store(t)
  PROVE  /\ lock = t /\ waking \in Tasks /\ waking # t
         /\ pc[waking] \in Waiting /\ r_msg[waking] = "NULL" /\ ~deleted
         /\ waking' = NoTask /\ handing' = "NULL" /\ r_msg' = [r_msg EXCEPT ![waking] = handing]
         /\ \/ /\ handing \in Messages /\ smsg[t] = handing /\ rw_mutex # t /\ cursor = 0
               /\ smsg' = [smsg EXCEPT ![t] = "NULL"] /\ lock' = NoTask
               /\ pc' = [pc EXCEPT ![t] = "idle"]
            \/ /\ handing = "E2BIG" /\ smsg[t] # "NULL" /\ rw_mutex # t /\ cursor = 0
               /\ pc' = [pc EXCEPT ![t] = "pipelined_send"] /\ UNCHANGED <<smsg, lock>>
            \/ /\ handing = "EIDRM" /\ smsg[t] = "NULL" /\ rw_mutex = t /\ cursor >= 1
               /\ pc' = [pc EXCEPT ![t] = "freeque"] /\ UNCHANGED <<smsg, lock>>
            \/ /\ handing = "EAGAIN" /\ smsg[t] = "NULL" /\ rw_mutex = t /\ cursor >= 1
               /\ pc' = [pc EXCEPT ![t] = "ipc_set"] /\ UNCHANGED <<smsg, lock>>
<1>1. pc[t] = "store" /\ cursor \in Nat /\ smsg[t] \in Messages \cup {"NULL"}
  BY DEF Store, IInv, Accounting, TypeOK
<1>2. lock = t /\ t # NoTask /\ ~deleted /\ (smsg[t] = "NULL" <=> rw_mutex = t)
  BY <1>1, ConstantsAssumption DEF IInv, LockInv, Owner, InCtl, Answers
<1>3. rw_mutex = t <=> cursor >= 1
  BY <1>1, <1>2, SMTT(30) DEF IInv, LockInv, CtlLocked
<1>4. /\ waking \in Tasks /\ pc[waking] \in Waiting /\ r_msg[waking] = "NULL"
      /\ smsg[t] = "NULL" => handing \in {"EIDRM", "EAGAIN"}
      /\ smsg[t] # "NULL" => handing \in {"E2BIG", smsg[t]}
  BY <1>1 DEF IInv, AnswerInv, Answers
<1>5. waking # t
  BY <1>1, <1>4 DEF Waiting
<1>6. Messages \cap Codes = {}
  BY ConstantsAssumption
<1>7. CASE handing \in Messages
  <2>1. smsg[t] = handing
    BY <1>4, <1>6, <1>7 DEF Codes
  <2>2. smsg[t] # "NULL"
    BY <2>1, <1>6, <1>7 DEF Codes
  <2> QED BY <1>1, <1>2, <1>3, <1>4, <1>5, <1>7, <2>1, <2>2, SMTT(30) DEF Store, Return, Goto
<1>8. CASE handing \notin Messages
  <2>1. UNCHANGED <<smsg, lock>> /\ pc' = [pc EXCEPT ![t] = Caller(t)]
    BY <1>8 DEF Store, Goto
  <2>2. CASE smsg[t] # "NULL"
    <3>1. handing = "E2BIG" /\ Caller(t) = "pipelined_send"
      BY <1>1, <1>4, <1>8, <2>2 DEF Caller
    <3> QED BY <1>1, <1>2, <1>3, <1>4, <1>5, <2>1, <2>2, <3>1, SMTT(30) DEF Store
  <2>3. CASE smsg[t] = "NULL"
    <3>1. \/ handing = "EIDRM" /\ Caller(t) = "freeque"
          \/ handing = "EAGAIN" /\ Caller(t) = "ipc_set"
      BY <1>4, <2>3 DEF Caller
    <3> QED BY <1>1, <1>2, <1>3, <1>4, <1>5, <2>1, <2>3, <3>1, ZenonT(30), SMTT(30) DEF Store
  <2> QED BY <2>2, <2>3
<1> QED BY <1>7, <1>8

\* do_msgrcv takes the message it found off the queue and off every counter.
LEMMA ReceiveCounts ==
  ASSUME IInv, ~deleted, NEW f, Matching(f) # {}, Delist(Walk(f))
  PROVE  /\ q_messages' \in Seq(Messages) /\ msg_hdrs' = Len(q_messages')
         /\ q_qnum' = Len(q_messages') /\ q_cbytes' \in Nat /\ msg_bytes' = q_cbytes'
         /\ Totals(q_messages', q_cbytes') /\ Len(q_messages') \in Nat
<1> DEFINE i == Walk(f)
<1>1. TypeOK /\ q_messages \in Seq(Messages) /\ q_cbytes \in Nat
  BY DEF IInv, Accounting, TypeOK
<1>2. i \in 1..Len(q_messages)
  BY <1>1, WalkFact
<1>3. /\ q_messages' = RemoveAt(q_messages, i) /\ q_qnum' = q_qnum - 1
      /\ q_cbytes' = q_cbytes - MSize[q_messages[i]]
      /\ msg_hdrs' = msg_hdrs - 1 /\ msg_bytes' = msg_bytes - MSize[q_messages[i]]
  BY DEF Delist
<1>4. /\ msg_hdrs = Len(q_messages) /\ q_qnum = Len(q_messages)
      /\ Totals(q_messages, q_cbytes) /\ msg_bytes = q_cbytes
  BY DEF IInv, Accounting
<1> HIDE DEF i
<1>5. q_messages' \in Seq(Messages) /\ Len(q_messages') = Len(q_messages) - 1
  BY <1>1, <1>2, <1>3, RemoveAtProperties, ZenonT(30), SMTT(30)
<1>6. q_cbytes' \in Nat /\ Totals(q_messages', q_cbytes')
  BY <1>1, <1>2, <1>3, <1>4, TotalsRemove
<1> QED BY <1>3, <1>4, <1>5, <1>6, SMTT(30)

\* A sender on the wait list holds one of the references that are counted, and
\* so does freeque until its putref.
LEMMA RefCounted ==
  ASSUME TypeOK, MemInv, NEW t \in Tasks
  PROVE  /\ pc[t] = "snd_sleep" => refcount - 1 \in Nat
         /\ pc[t] = "putref" => reg - 1 \in Nat
<1>1. Cardinality(Refs) \in Nat /\ (Cardinality(Refs) = 0 <=> Refs = {})
  BY FS_CardinalityType, FS_EmptySet DEF MemInv
<1>2. ASSUME pc[t] = "snd_sleep" PROVE refcount - 1 \in Nat
  <2>1. Refs # {}
    BY <1>2 DEF Refs
  <2>2. refcount \in Nat /\ refcount >= Cardinality(Refs)
    BY DEF TypeOK, MemInv
  <2> QED BY <1>1, <2>1, <2>2, SMTT(30)
<1>3. ASSUME pc[t] = "putref" PROVE reg - 1 \in Nat
  <2>1. reg \in Nat /\ reg >= Cardinality(Refs) + 1
    BY <1>3 DEF TypeOK, MemInv
  <2> QED BY <1>1, <2>1, SMTT(30)
<1> QED BY <1>2, <1>3

-----------------------------------------------------------------------------
(* What every step preserves *)

\* A step of t changes no other task's program counter or message, and hands a
\* lock only between t and nobody: the other tasks keep their part of LockInv.
LEMMA LockFrame ==
  ASSUME LockInv, NEW t \in Tasks, NoTask \notin Tasks,
         \A u \in Tasks \ {t} : pc'[u] = pc[u] /\ smsg'[u] = smsg[u],
         lock' = lock \/ {lock, lock'} \subseteq {t, NoTask},
         rw_mutex' = rw_mutex \/ {rw_mutex, rw_mutex'} \subseteq {t, NoTask},
         deleted => deleted',
         (pc[t] \in Owner <=> lock = t)', (InCtl(t) <=> rw_mutex = t)',
         (pc[t] \in {"free_msgs", "putref"} => deleted)',
         (deleted => lock = NoTask)', (CtlLocked <=> cursor > 0)'
  PROVE  LockInv'
<1>1. ASSUME NEW u \in Tasks, u # t
      PROVE  /\ (pc[u] \in Owner <=> lock = u)'
             /\ (InCtl(u) <=> rw_mutex = u)'
             /\ (pc[u] \in {"free_msgs", "putref"} => deleted)'
  <2>1. pc'[u] = pc[u] /\ smsg'[u] = smsg[u] /\ u # NoTask
    BY <1>1
  <2>2. (lock' = u <=> lock = u) /\ (rw_mutex' = u <=> rw_mutex = u)
    BY <1>1, <2>1
  <2> QED BY <2>1, <2>2 DEF LockInv, InCtl
<1> QED BY <1>1 DEF LockInv

\* The spinlock and rw_mutex are held by the tasks whose code is inside the
\* locked regions.
LEMMA LockStep == ASSUME IInv, [Next]_vars PROVE LockInv'
<1>0. /\ pc \in [Tasks -> Labels] /\ smsg \in [Tasks -> Messages \cup {"NULL"}]
      /\ cursor \in Nat /\ NoTask \notin Tasks
      /\ LockInv /\ \A t \in Tasks : pc[t] \in {"snd_sleep", "pipelined_send"} => smsg[t] # "NULL"
  BY ConstantsAssumption DEF IInv, Accounting, TypeOK, CallInv
<1> USE <1>0
<1> USE DEF ctlvars, hvars, callvars
<1>1. CASE UNCHANGED <<lock, rw_mutex, deleted, cursor, pc, smsg>>
  BY <1>1 DEF LockInv, InCtl, Owner, Answers, CtlLocked
<1>2. ASSUME GracePeriod \/ \E t \in Tasks : FreequeMsg(t) \/ Signal(t)
      PROVE  UNCHANGED <<lock, rw_mutex, deleted, cursor, pc, smsg>>
  BY <1>2 DEF GracePeriod, FreequeMsg, Signal
<1>3. ASSUME NEW t \in Tasks, NEW m \in Messages, MsgsndCall(t, m) PROVE LockInv'
  <2>1. /\ pc[t] = "idle" /\ lock = NoTask /\ ~deleted
        /\ UNCHANGED <<rw_mutex, deleted, cursor>> /\ smsg' = [smsg EXCEPT ![t] = m]
        /\ \/ lock' = t /\ pc' = [pc EXCEPT ![t] = "pipelined_send"] /\ m # "NULL"
           \/ lock' = lock /\ pc' = [pc EXCEPT ![t] = "snd_sleep"]
    BY <1>3, ConstantsAssumption DEF MsgsndCall, SendBegin, SendSleep, Goto, Codes
  <2> QED BY <2>1, LockFrame DEF LockInv, InCtl, Owner, Answers, CtlLocked
<1>4. ASSUME NEW t \in Tasks, MsgsndWake(t) PROVE LockInv'
  <2>1. /\ pc[t] = "snd_sleep" /\ lock = NoTask /\ UNCHANGED <<rw_mutex, deleted, cursor>>
        /\ \/ lock' = lock /\ smsg' = [smsg EXCEPT ![t] = "NULL"] /\ pc' = [pc EXCEPT ![t] = "idle"]
           \/ lock' = t /\ ~deleted /\ smsg' = [smsg EXCEPT ![t] = smsg[t]] /\ pc' = [pc EXCEPT ![t] = "pipelined_send"]
           \/ lock' = lock /\ smsg' = [smsg EXCEPT ![t] = smsg[t]] /\ pc' = [pc EXCEPT ![t] = "snd_sleep"]
    BY <1>4 DEF MsgsndWake, SendNoPerm, SendBegin, SendSleep, Return, Goto
  <2> QED BY <2>1, LockFrame DEF LockInv, InCtl, Owner, Answers, CtlLocked
<1>5. ASSUME NEW t \in Tasks, PipelinedSelect(t) PROVE LockInv'
  <2>1. /\ pc[t] = "pipelined_send" /\ pc' = [pc EXCEPT ![t] = "wake_up"]
        /\ UNCHANGED <<lock, rw_mutex, deleted, cursor, smsg>>
    BY <1>5 DEF PipelinedSelect, Goto
  <2> QED BY <2>1, LockFrame DEF LockInv, InCtl, Owner, Answers, CtlLocked
<1>6. ASSUME NEW t \in Tasks, Enqueue(t) PROVE LockInv'
  <2>1. /\ pc[t] = "pipelined_send" /\ pc' = [pc EXCEPT ![t] = "idle"] /\ lock' = NoTask
        /\ smsg' = [smsg EXCEPT ![t] = "NULL"] /\ UNCHANGED <<rw_mutex, deleted, cursor>>
    BY <1>6 DEF Enqueue, Return, Goto
  <2> QED BY <2>1, LockFrame DEF LockInv, InCtl, Owner, Answers, CtlLocked
<1>7. ASSUME NEW t \in Tasks, WakeUp(t) PROVE LockInv'
  <2>1. /\ pc[t] = "wake_up" /\ pc' = [pc EXCEPT ![t] = "store"]
        /\ UNCHANGED <<lock, rw_mutex, deleted, cursor, smsg>>
    BY <1>7 DEF WakeUp, Goto
  <2> QED BY <2>1, LockFrame DEF LockInv, InCtl, Owner, Answers, CtlLocked
<1>8. ASSUME NEW t \in Tasks, Store(t) PROVE LockInv'
  <2>1. UNCHANGED <<rw_mutex, deleted, cursor>> /\ pc[t] = "store"
    BY <1>8 DEF Store
  <2>2. /\ lock = t /\ ~deleted
        /\ \/ /\ smsg[t] # "NULL" /\ rw_mutex # t /\ cursor = 0 /\ lock' = NoTask
              /\ smsg' = [smsg EXCEPT ![t] = "NULL"] /\ pc' = [pc EXCEPT ![t] = "idle"]
           \/ /\ rw_mutex # t /\ cursor = 0 /\ UNCHANGED <<smsg, lock>>
              /\ smsg[t] # "NULL" /\ pc' = [pc EXCEPT ![t] = "pipelined_send"]
           \/ /\ rw_mutex = t /\ cursor >= 1 /\ UNCHANGED <<smsg, lock>>
              /\ smsg[t] = "NULL" /\ pc' = [pc EXCEPT ![t] = "freeque"]
           \/ /\ rw_mutex = t /\ cursor >= 1 /\ UNCHANGED <<smsg, lock>>
              /\ smsg[t] = "NULL" /\ pc' = [pc EXCEPT ![t] = "ipc_set"]
    BY <1>8, StoreEffect, ConstantsAssumption DEF Codes
  <2> QED BY <2>1, <2>2, LockFrame DEF LockInv, InCtl, Owner, Answers, CtlLocked
<1>9. ASSUME NEW t \in Tasks, NEW a \in RcvArgs, MsgrcvCall(t, a) PROVE LockInv'
  <2>1. /\ pc[t] = "idle" /\ UNCHANGED <<lock, rw_mutex, deleted, cursor, smsg>>
        /\ pc' = [pc EXCEPT ![t] = "idle"] \/ pc' = [pc EXCEPT ![t] = "rcv_sleep"]
    BY <1>9, ZenonT(30), SMTT(30) DEF MsgrcvCall, ReceiveQueued, ReceiveSleep, RcvReturn, Return, Goto
  <2> QED BY <2>1, LockFrame DEF LockInv, InCtl, Owner, Answers, CtlLocked
<1>10. ASSUME NEW t \in Tasks, MsgrcvWake(t) PROVE LockInv'
  <2>1. /\ pc[t] = "rcv_sleep" /\ pc' = [pc EXCEPT ![t] = "rcv_rcu"]
        /\ UNCHANGED <<lock, rw_mutex, deleted, cursor, smsg>>
    BY <1>10 DEF MsgrcvWake, Goto
  <2> QED BY <2>1, LockFrame DEF LockInv, InCtl, Owner, Answers, CtlLocked
<1>11. ASSUME NEW t \in Tasks, MsgrcvLockless(t) PROVE LockInv'
  <2>1. /\ pc[t] = "rcv_rcu" /\ UNCHANGED <<lock, rw_mutex, deleted, cursor, smsg>>
        /\ pc' = [pc EXCEPT ![t] = "idle"] \/ pc' = [pc EXCEPT ![t] = "rcv_lock"]
    BY <1>11 DEF MsgrcvLockless, Accept, RcvReturn, Return, Goto
  <2> QED BY <2>1, LockFrame DEF LockInv, InCtl, Owner, Answers, CtlLocked
<1>12. ASSUME NEW t \in Tasks, MsgrcvRelock(t) PROVE LockInv'
  <2>1. /\ pc[t] = "rcv_lock" /\ UNCHANGED <<lock, rw_mutex, deleted, cursor, smsg>>
        /\ pc' = [pc EXCEPT ![t] = "idle"] \/ pc' = [pc EXCEPT ![t] = "rcv_sleep"]
    BY <1>12, ZenonT(30), SMTT(30) DEF MsgrcvRelock, Accept, ReceiveQueued, ReceiveError, ReceiveSleep, RcvReturn, Return, Goto
  <2> QED BY <2>1, LockFrame DEF LockInv, InCtl, Owner, Answers, CtlLocked
<1>13. ASSUME NEW t \in Tasks, expunge_all(t) PROVE LockInv'
  <2>1. /\ pc[t] \in {"freeque", "ipc_set"} /\ pc' = [pc EXCEPT ![t] = "wake_up"]
        /\ cursor' = cursor + 1 /\ UNCHANGED <<lock, rw_mutex, deleted, smsg>> /\ smsg[t] = "NULL"
    BY <1>13 DEF expunge_all, Goto, IInv, CallInv
  <2> QED BY <2>1, LockFrame, SMTT(30) DEF LockInv, InCtl, Owner, Answers, CtlLocked
<1>14. ASSUME NEW t \in Tasks, NEW b \in QBytes, NEW p \in Modes, IpcSet(t, b, p) PROVE LockInv'
  <2>1. /\ pc[t] = "idle" /\ rw_mutex = NoTask /\ lock = NoTask /\ ~deleted
        /\ rw_mutex' = t /\ lock' = t /\ cursor' = 1 /\ UNCHANGED <<deleted, smsg>>
        /\ pc' = [pc EXCEPT ![t] = "ipc_set"]
    BY <1>14 DEF IpcSet, CtlEnter, Goto
  <2> QED BY <2>1, LockFrame, SMTT(30) DEF LockInv, InCtl, Owner, Answers, CtlLocked
<1>15. ASSUME NEW t \in Tasks, IpcRmid(t) PROVE LockInv'
  <2>1. /\ pc[t] = "idle" /\ rw_mutex = NoTask /\ lock = NoTask /\ ~deleted
        /\ rw_mutex' = t /\ lock' = t /\ cursor' = 1 /\ UNCHANGED <<deleted, smsg>>
        /\ pc' = [pc EXCEPT ![t] = "freeque"]
    BY <1>15 DEF IpcRmid, CtlEnter, Goto
  <2> QED BY <2>1, LockFrame, SMTT(30) DEF LockInv, InCtl, Owner, Answers, CtlLocked
<1>16. ASSUME NEW t \in Tasks, IpcSetDone(t) PROVE LockInv'
  <2>1. /\ pc[t] = "ipc_set" /\ pc' = [pc EXCEPT ![t] = "idle"] /\ cursor' = 0
        /\ lock' = NoTask /\ rw_mutex' = NoTask /\ UNCHANGED <<deleted, smsg>>
    BY <1>16 DEF IpcSetDone, Return, Goto
  <2> QED BY <2>1, LockFrame, SMTT(30) DEF LockInv, InCtl, Owner, Answers, CtlLocked
<1>17. ASSUME NEW t \in Tasks, FreequeUnlock(t) PROVE LockInv'
  <2>1. /\ pc[t] = "freeque" /\ pc' = [pc EXCEPT ![t] = "free_msgs"] /\ cursor' = 0
        /\ lock' = NoTask /\ deleted' /\ UNCHANGED <<rw_mutex, smsg>>
    BY <1>17 DEF FreequeUnlock, Goto
  <2> QED BY <2>1, LockFrame, SMTT(30) DEF LockInv, InCtl, Owner, Answers, CtlLocked
<1>18. ASSUME NEW t \in Tasks, FreequeLoad(t) PROVE LockInv'
  <2>1. /\ pc[t] = "free_msgs" /\ pc' = [pc EXCEPT ![t] = "putref"]
        /\ UNCHANGED <<lock, rw_mutex, deleted, cursor, smsg>>
    BY <1>18 DEF FreequeLoad, Goto
  <2> QED BY <2>1, LockFrame DEF LockInv, InCtl, Owner, Answers, CtlLocked
<1>19. ASSUME NEW t \in Tasks, FreequePutref(t) PROVE LockInv'
  <2>1. /\ pc[t] = "putref" /\ pc' = [pc EXCEPT ![t] = "idle"] /\ smsg[t] = "NULL"
        /\ rw_mutex' = NoTask /\ UNCHANGED <<lock, deleted, cursor, smsg>>
    BY <1>19 DEF FreequePutref, Return, Goto, IInv, CallInv
  <2> QED BY <2>1, LockFrame DEF LockInv, InCtl, Owner, Answers, CtlLocked
<1>20. CASE UNCHANGED vars
  BY <1>1, <1>20 DEF vars
<1> QED
  BY <1>1, <1>2, <1>3, <1>4, <1>5, <1>6, <1>7, <1>8, <1>9, <1>10, <1>11, <1>12, <1>13, <1>14, <1>15, <1>16, <1>17, <1>18, <1>19, <1>20 DEF Next, Inside, Call

\* The part of CallInv about a task that no step of t runs: it stays where it
\* is, is at most woken, and is answered only while it waits.
LEMMA CallFrame ==
  ASSUME CallInv, NEW t \in Tasks,
         \A u \in Tasks \ {t} :
           /\ pc'[u] = pc[u] /\ smsg'[u] = smsg[u]
           /\ tstate'[u] = "sleeping" => tstate[u] = "sleeping"
           /\ pc[u] \notin Waiting /\ r_msg[u] = "NULL" => r_msg'[u] = "NULL"
           /\ pc[u] \in Waiting /\ r_msg'[u] = "NULL" => waking' = u,
         (/\ smsg[t] # "NULL" => pc[t] \in {"snd_sleep", "pipelined_send", "wake_up", "store"}
          /\ pc[t] \in {"snd_sleep", "pipelined_send"} => smsg[t] # "NULL"
          /\ pc[t] \notin Waiting => r_msg[t] = "NULL"
          /\ pc[t] \in Waiting /\ r_msg[t] = "NULL" => waking = t
          /\ tstate[t] = "sleeping" => pc[t] \in {"snd_sleep", "rcv_sleep"})'
  PROVE  CallInv'
<1>1. ASSUME NEW u \in Tasks, u # t
      PROVE  (/\ smsg[u] # "NULL" => pc[u] \in {"snd_sleep", "pipelined_send", "wake_up", "store"}
              /\ pc[u] \in {"snd_sleep", "pipelined_send"} => smsg[u] # "NULL"
              /\ pc[u] \notin Waiting => r_msg[u] = "NULL"
              /\ pc[u] \in Waiting /\ r_msg[u] = "NULL" => waking = u
              /\ tstate[u] = "sleeping" => pc[u] \in {"snd_sleep", "rcv_sleep"})'
  BY <1>1 DEF CallInv
<1> QED BY <1>1, ZenonT(30), SMTT(30) DEF CallInv

\* The owner of the spinlock that is not handing anything over has nobody
\* waiting for its answer.
LEMMA NoHandOff ==
  ASSUME IInv, NEW t \in Tasks, pc[t] \in {"pipelined_send", "freeque", "ipc_set"}
  PROVE  waking \notin Tasks
<1>1. ASSUME NEW u \in Tasks PROVE pc[u] \notin Answers
  BY DEF IInv, LockInv, Owner, Answers
<1> QED BY <1>1, ConstantsAssumption DEF IInv, AnswerInv

\* What a task holds, and whether it may be asleep, follows from where it is.
LEMMA CallStep == ASSUME IInv, [Next]_vars PROVE CallInv'
<1>0. /\ pc \in [Tasks -> Labels] /\ smsg \in [Tasks -> Messages \cup {"NULL"}]
      /\ tstate \in [Tasks -> {"running", "sleeping"}] /\ r_msg \in [Tasks -> Messages \cup Codes]
      /\ CallInv /\ "NULL" \notin Messages
  BY ConstantsAssumption DEF IInv, Accounting, TypeOK, Codes
<1> USE <1>0
<1> USE DEF hvars, callvars
<1>1. CASE /\ UNCHANGED <<pc, smsg, r_msg, waking>>
           /\ \A u \in Tasks : tstate'[u] = "sleeping" => tstate[u] = "sleeping"
  BY <1>1 DEF CallInv
<1>2. ASSUME GracePeriod \/ \E t \in Tasks : FreequeMsg(t) \/ Signal(t)
      PROVE  /\ UNCHANGED <<pc, smsg, r_msg, waking>>
             /\ \A u \in Tasks : tstate'[u] = "sleeping" => tstate[u] = "sleeping"
  BY <1>2 DEF GracePeriod, FreequeMsg, Signal
<1>3. ASSUME NEW t \in Tasks, NEW m \in Messages, MsgsndCall(t, m) PROVE CallInv'
  <2>1. /\ pc[t] = "idle" /\ smsg' = [smsg EXCEPT ![t] = m] /\ UNCHANGED <<r_msg, waking>>
        /\ \/ pc' = [pc EXCEPT ![t] = "pipelined_send"] /\ UNCHANGED tstate
           \/ pc' = [pc EXCEPT ![t] = "snd_sleep"] /\ tstate' = [tstate EXCEPT ![t] = "sleeping"]
    BY <1>3 DEF MsgsndCall, SendBegin, SendSleep, Goto
  <2> QED BY <2>1, CallFrame, SMTT(30) DEF CallInv, Waiting
<1>4. ASSUME NEW t \in Tasks, MsgsndWake(t) PROVE CallInv'
  <2>1. /\ pc[t] = "snd_sleep" /\ tstate[t] = "running" /\ UNCHANGED <<r_msg, waking>>
        /\ \/ UNCHANGED tstate /\ smsg' = [smsg EXCEPT ![t] = "NULL"] /\ pc' = [pc EXCEPT ![t] = "idle"]
           \/ UNCHANGED tstate /\ smsg' = [smsg EXCEPT ![t] = smsg[t]] /\ pc' = [pc EXCEPT ![t] = "pipelined_send"]
           \/ tstate' = [tstate EXCEPT ![t] = "sleeping"] /\ smsg' = [smsg EXCEPT ![t] = smsg[t]] /\ pc' = [pc EXCEPT ![t] = "snd_sleep"]
    BY <1>4 DEF MsgsndWake, SendNoPerm, SendBegin, SendSleep, Return, Goto
  <2> QED BY <2>1, CallFrame, SMTT(30) DEF CallInv, Waiting
<1>5. ASSUME NEW t \in Tasks, PipelinedSelect(t) PROVE CallInv'
  <2>1. /\ pc[t] = "pipelined_send" /\ pc' = [pc EXCEPT ![t] = "wake_up"] /\ UNCHANGED <<smsg, tstate>>
    BY <1>5 DEF PipelinedSelect, Goto
  <2>2. PICK r : r_msg' = [r_msg EXCEPT ![r] = "NULL"] /\ waking' = r
    BY <1>5, ZenonT(30), SMTT(30) DEF PipelinedSelect, Answering
  <2>3. waking \notin Tasks
    BY <2>1, NoHandOff
  <2> QED BY <2>1, <2>2, <2>3, CallFrame DEF CallInv, Waiting
<1>6. ASSUME NEW t \in Tasks, Enqueue(t) PROVE CallInv'
  <2>1. /\ pc[t] = "pipelined_send" /\ pc' = [pc EXCEPT ![t] = "idle"]
        /\ smsg' = [smsg EXCEPT ![t] = "NULL"] /\ UNCHANGED <<r_msg, waking, tstate>>
    BY <1>6 DEF Enqueue, Return, Goto
  <2> QED BY <2>1, CallFrame DEF CallInv, Waiting
<1>7. ASSUME NEW t \in Tasks, WakeUp(t) PROVE CallInv'
  <2>1. /\ pc[t] = "wake_up" /\ pc' = [pc EXCEPT ![t] = "store"] /\ UNCHANGED <<smsg, r_msg, waking>>
        /\ tstate' = [tstate EXCEPT ![waking] = "running"]
    BY <1>7 DEF WakeUp, Goto
  <2> QED BY <2>1, CallFrame DEF CallInv, Waiting
<1>8. ASSUME NEW t \in Tasks, Store(t) PROVE CallInv'
  <2>1. /\ pc[t] = "store" /\ UNCHANGED tstate
    BY <1>8 DEF Store
  <2>2. /\ waking \in Tasks /\ waking # t /\ pc[waking] \in Waiting /\ handing # "NULL"
        /\ waking' = NoTask /\ r_msg' = [r_msg EXCEPT ![waking] = handing]
        /\ \/ smsg' = [smsg EXCEPT ![t] = "NULL"] /\ pc' = [pc EXCEPT ![t] = "idle"]
           \/ /\ smsg[t] # "NULL" /\ UNCHANGED smsg
              /\ pc' = [pc EXCEPT ![t] = "pipelined_send"]
           \/ /\ smsg[t] = "NULL" /\ UNCHANGED smsg
              /\ \/ pc' = [pc EXCEPT ![t] = "freeque"]
                 \/ pc' = [pc EXCEPT ![t] = "ipc_set"]
    BY <1>8, StoreEffect, ConstantsAssumption DEF Codes
  <2> QED BY <2>1, <2>2, CallFrame, SMTT(30) DEF CallInv, Waiting
<1>9. ASSUME NEW t \in Tasks, NEW a \in RcvArgs, MsgrcvCall(t, a) PROVE CallInv'
  <2>1. /\ pc[t] = "idle"
        /\ UNCHANGED <<smsg, waking>>
        /\ \A u \in Tasks \ {t} : tstate'[u] = "sleeping" => tstate[u] = "sleeping"
        /\ \/ /\ pc' = [pc EXCEPT ![t] = "idle"] /\ r_msg' = [r_msg EXCEPT ![t] = "NULL"]
              /\ tstate'[t] = "sleeping" => tstate[t] = "sleeping"
           \/ pc' = [pc EXCEPT ![t] = "rcv_sleep"] /\ r_msg' = [r_msg EXCEPT ![t] = "EAGAIN"]
    BY <1>9, ZenonT(30), SMTT(30) DEF MsgrcvCall, ReceiveQueued, ReceiveSleep, ss_wakeup, RcvReturn, Return, Goto
  <2> QED BY <2>1, CallFrame, SMTT(30) DEF CallInv, Waiting
<1>10. ASSUME NEW t \in Tasks, MsgrcvWake(t) PROVE CallInv'
  <2>1. /\ pc[t] = "rcv_sleep" /\ tstate[t] = "running" /\ pc' = [pc EXCEPT ![t] = "rcv_rcu"]
        /\ UNCHANGED <<smsg, r_msg, waking, tstate>>
    BY <1>10 DEF MsgrcvWake, Goto
  <2> QED BY <2>1, CallFrame DEF CallInv, Waiting
<1>11. ASSUME NEW t \in Tasks, MsgrcvLockless(t) PROVE CallInv'
  <2>1. /\ pc[t] = "rcv_rcu" /\ UNCHANGED <<smsg, waking, tstate>>
        /\ \/ pc' = [pc EXCEPT ![t] = "idle"] /\ r_msg' = [r_msg EXCEPT ![t] = "NULL"]
           \/ pc' = [pc EXCEPT ![t] = "rcv_lock"] /\ UNCHANGED r_msg
    BY <1>11 DEF MsgrcvLockless, Accept, RcvReturn, Return, Goto
  <2> QED BY <2>1, CallFrame, SMTT(30) DEF CallInv, Waiting
<1>12. ASSUME NEW t \in Tasks, MsgrcvRelock(t) PROVE CallInv'
  <2>1. /\ pc[t] = "rcv_lock"
        /\ UNCHANGED <<smsg, waking>>
        /\ \A u \in Tasks \ {t} : tstate'[u] = "sleeping" => tstate[u] = "sleeping"
        /\ \/ /\ pc' = [pc EXCEPT ![t] = "idle"] /\ r_msg' = [r_msg EXCEPT ![t] = "NULL"]
              /\ tstate'[t] = "sleeping" => tstate[t] = "sleeping"
           \/ pc' = [pc EXCEPT ![t] = "rcv_sleep"] /\ r_msg' = [r_msg EXCEPT ![t] = "EAGAIN"]
    BY <1>12, SMTT(30) DEF MsgrcvRelock, Accept, ReceiveQueued, ReceiveError, ReceiveSleep, ss_wakeup, RcvReturn, Return, Goto
  <2> QED BY <2>1, CallFrame, SMTT(30) DEF CallInv, Waiting
<1>13. ASSUME NEW t \in Tasks, expunge_all(t) PROVE CallInv'
  <2>1. /\ pc[t] \in {"freeque", "ipc_set"} /\ pc' = [pc EXCEPT ![t] = "wake_up"] /\ UNCHANGED <<smsg, tstate>>
    BY <1>13 DEF expunge_all, Goto
  <2>2. PICK r : r_msg' = [r_msg EXCEPT ![r] = "NULL"] /\ waking' = r
    BY <1>13, ZenonT(30), SMTT(30) DEF expunge_all, Answering
  <2>3. waking \notin Tasks
    BY <2>1, NoHandOff
  <2> QED BY <2>1, <2>2, <2>3, CallFrame DEF CallInv, Waiting
<1>14. ASSUME NEW t \in Tasks, NEW b \in QBytes, NEW p \in Modes, IpcSet(t, b, p) PROVE CallInv'
  <2>1. /\ pc[t] = "idle" /\ pc' = [pc EXCEPT ![t] = "ipc_set"]
        /\ UNCHANGED <<smsg, r_msg, waking, tstate>>
    BY <1>14 DEF IpcSet, CtlEnter, Goto
  <2> QED BY <2>1, CallFrame DEF CallInv, Waiting
<1>15. ASSUME NEW t \in Tasks, IpcRmid(t) PROVE CallInv'
  <2>1. /\ pc[t] = "idle" /\ pc' = [pc EXCEPT ![t] = "freeque"]
        /\ UNCHANGED <<smsg, r_msg, waking, tstate>>
    BY <1>15 DEF IpcRmid, CtlEnter, Goto
  <2> QED BY <2>1, CallFrame DEF CallInv, Waiting
<1>16. ASSUME NEW t \in Tasks, IpcSetDone(t) PROVE CallInv'
  <2>1. /\ pc[t] = "ipc_set" /\ pc' = [pc EXCEPT ![t] = "idle"]
        /\ UNCHANGED <<smsg, r_msg, waking>>
        /\ \A u \in Tasks : tstate'[u] = "sleeping" => tstate[u] = "sleeping"
    BY <1>16 DEF IpcSetDone, ss_wakeup, Return, Goto
  <2> QED BY <2>1, CallFrame DEF CallInv, Waiting
<1>17. ASSUME NEW t \in Tasks, FreequeUnlock(t) PROVE CallInv'
  <2>1. /\ pc[t] = "freeque" /\ pc' = [pc EXCEPT ![t] = "free_msgs"]
        /\ UNCHANGED <<smsg, r_msg, waking>>
        /\ \A u \in Tasks : tstate'[u] = "sleeping" => tstate[u] = "sleeping"
    BY <1>17 DEF FreequeUnlock, ss_wakeup, Goto
  <2> QED BY <2>1, CallFrame DEF CallInv, Waiting
<1>18. ASSUME NEW t \in Tasks, FreequeLoad(t) PROVE CallInv'
  <2>1. /\ pc[t] = "free_msgs" /\ pc' = [pc EXCEPT ![t] = "putref"]
        /\ UNCHANGED <<smsg, r_msg, waking, tstate>>
    BY <1>18 DEF FreequeLoad, Goto
  <2> QED BY <2>1, CallFrame DEF CallInv, Waiting
<1>19. ASSUME NEW t \in Tasks, FreequePutref(t) PROVE CallInv'
  <2>1. /\ pc[t] = "putref" /\ pc' = [pc EXCEPT ![t] = "idle"]
        /\ UNCHANGED <<smsg, r_msg, waking, tstate>>
    BY <1>19 DEF FreequePutref, Return, Goto
  <2> QED BY <2>1, CallFrame DEF CallInv, Waiting
<1>20. CASE UNCHANGED vars
  BY <1>1, <1>20 DEF vars
<1> QED
  BY <1>1, <1>2, <1>3, <1>4, <1>5, <1>6, <1>7, <1>8, <1>9, <1>10, <1>11, <1>12, <1>13, <1>14, <1>15, <1>16, <1>17, <1>18, <1>19, <1>20 DEF Next, Inside, Call

\* Every action keeps the types; no counter is decremented below zero.
LEMMA TypeStep == ASSUME IInv, [Next]_vars PROVE TypeOK'
<1> USE DEF ctlvars, qvars, lists, memvars, hvars, callvars
<1>1. TypeOK /\ \A m \in Messages : MSize[m] \in Nat /\ m # "NULL"
  BY ConstantsAssumption DEF IInv, Accounting, Codes
<1>2. ASSUME NEW t \in Tasks, NEW l \in Labels, pc' = [pc EXCEPT ![t] = l] PROVE pc' \in [Tasks -> Labels]
  BY <1>1, <1>2 DEF TypeOK
<1>3. ASSUME NEW t \in Tasks, NEW m \in Messages, MsgsndCall(t, m) PROVE TypeOK'
  <2>1. UNCHANGED <<ctlvars, qvars, q_receivers, mem, readers, reg, filter, r_msg, hvars>>
    BY <1>3 DEF MsgsndCall
  <2>2. /\ lock' \in {lock, t} /\ sig' = sig
        /\ pc' = [pc EXCEPT ![t] = "pipelined_send"] \/ pc' = [pc EXCEPT ![t] = "snd_sleep"]
        /\ smsg' = [smsg EXCEPT ![t] = m] /\ fate' = [fate EXCEPT ![m] = "kernel"]
        /\ tstate' = tstate \/ tstate' = [tstate EXCEPT ![t] = "sleeping"]
        /\ refcount' \in {refcount, refcount + 1} /\ q_senders' \in {q_senders, q_senders \cup {t}}
    BY <1>3 DEF MsgsndCall, SendBegin, SendSleep, Goto
  <2>3. pc' \in [Tasks -> Labels]
    BY <1>2, <2>2 DEF Labels
  <2> QED BY <1>1, <2>1, <2>2, <2>3, SMTT(30) DEF TypeOK
<1>4. ASSUME NEW t \in Tasks, MsgsndWake(t) PROVE TypeOK'
  <2>1. pc[t] = "snd_sleep" /\ UNCHANGED <<ctlvars, qvars, q_receivers, filter, r_msg, hvars>>
    BY <1>4, ZenonT(30), SMTT(30) DEF MsgsndWake
  <2>2. refcount - 1 \in Nat /\ smsg[t] \in Messages
    BY <1>1, <2>1, RefCounted DEF IInv, CallInv, TypeOK
  <2>3. /\ lock' \in {lock, t} /\ q_senders' \in {q_senders, q_senders \ {t}}
        /\ smsg' = [smsg EXCEPT ![t] = "NULL"] \/ smsg' = [smsg EXCEPT ![t] = smsg[t]]
        /\ fate' = [fate EXCEPT ![smsg[t]] = "unsent"] \/ fate' = [fate EXCEPT ![smsg[t]] = "kernel"]
    BY <1>4 DEF MsgsndWake, Refuse, SendNoPerm, SendBegin, SendSleep
  <2>4. /\ \/ pc' = [pc EXCEPT ![t] = "idle"] \/ pc' = [pc EXCEPT ![t] = "pipelined_send"]
           \/ pc' = [pc EXCEPT ![t] = "snd_sleep"]
        /\ sig' = sig \/ sig' = [sig EXCEPT ![t] = FALSE]
        /\ tstate' = tstate \/ tstate' = [tstate EXCEPT ![t] = "sleeping"]
    BY <1>4 DEF MsgsndWake, SendNoPerm, SendBegin, SendSleep, Return, Goto
  <2>5. /\ refcount' \in {refcount, refcount - 1} /\ mem' \in {mem, "grace"} /\ reg' = reg
        /\ readers' \in {readers, {u \in Tasks : InRcu(u)}}
    BY <1>4, ZenonT(30), SMTT(30) DEF MsgsndWake, ipc_rcu_putref
  <2>6. pc' \in [Tasks -> Labels]
    BY <1>2, <2>4 DEF Labels
  <2>7. smsg' \in [Tasks -> Messages \cup {"NULL"}] /\ refcount' \in Nat
    BY <1>1, <2>2, <2>3, <2>5 DEF TypeOK
  <2>8. fate' \in [Messages -> {"unsent", "kernel", "received", "destroyed"}]
    BY <1>1, <2>2, <2>3, ZenonT(30), SMTT(30) DEF TypeOK
  <2>9. sig' \in [Tasks -> BOOLEAN] /\ tstate' \in [Tasks -> {"running", "sleeping"}]
    BY <1>1, <2>4, ZenonT(30), SMTT(30) DEF TypeOK
  <2> QED BY <1>1, <2>1, <2>3, <2>5, <2>6, <2>7, <2>8, <2>9 DEF TypeOK
<1>5. ASSUME NEW t \in Tasks, PipelinedSelect(t) PROVE TypeOK'
  <2> DEFINE i == Min(Takers(smsg[t]))
             r == q_receivers[i]
  <2>1. i \in 1..Len(q_receivers) /\ q_receivers \in Seq(Tasks) /\ smsg[t] \in Messages
    BY <1>1, <1>5, TakerFact DEF PipelinedSelect, TypeOK, IInv, CallInv
  <2>2. /\ pc' = [pc EXCEPT ![t] = "wake_up"] /\ q_receivers' = RemoveAt(q_receivers, i)
        /\ handing' \in {"E2BIG", smsg[t]} /\ waking' = r /\ r_msg' = [r_msg EXCEPT ![r] = "NULL"]
        /\ UNCHANGED <<lock, ctlvars, qvars, q_senders, memvars, tstate, sig, smsg, filter, cursor, fate>>
    BY <1>5, ZenonT(30), SMTT(30) DEF PipelinedSelect, Answering, Goto
  <2> HIDE DEF i
  <2>3. q_receivers' \in Seq(Tasks) /\ r \in Tasks
    BY <2>1, <2>2, RemoveAtProperties, SMTT(30)
  <2> HIDE DEF r
  <2>4. pc' \in [Tasks -> Labels]
    BY <1>2, <2>2, ZenonT(30), SMTT(30) DEF Labels
  <2>5. r_msg' \in [Tasks -> Messages \cup Codes]
    BY <1>1, <2>2, ZenonT(30), SMTT(30) DEF TypeOK, Codes
  <2> QED BY <1>1, <2>1, <2>2, <2>3, <2>4, <2>5 DEF TypeOK, Codes
<1>6. ASSUME NEW t \in Tasks, Enqueue(t) PROVE TypeOK'
  <2>1. smsg[t] \in Messages
    BY <1>1, <1>6 DEF Enqueue, TypeOK, IInv, CallInv
  <2> QED BY <1>1, <1>6, <2>1, SMTT(30) DEF Enqueue, Enlist, Return, Goto, TypeOK, Labels
<1>7. ASSUME NEW t \in Tasks, WakeUp(t) PROVE TypeOK'
  <2>1. waking \in Tasks
    BY <1>7 DEF WakeUp, IInv, AnswerInv, Answers
  <2> QED BY <1>1, <1>7, <2>1 DEF WakeUp, Goto, TypeOK, Labels
<1>8. ASSUME NEW t \in Tasks, Store(t) PROVE TypeOK'
  <2>1. /\ waking' = NoTask /\ handing' = "NULL" /\ r_msg' = [r_msg EXCEPT ![waking] = handing]
        /\ smsg' = smsg \/ smsg' = [smsg EXCEPT ![t] = "NULL"]
        /\ lock' \in {lock, NoTask}
        /\ sig' = sig \/ sig' = [sig EXCEPT ![t] = FALSE]
        /\ UNCHANGED <<cursor, ctlvars, qvars, lists, memvars, tstate, filter, fate>>
    BY <1>8, ZenonT(30), SMTT(30) DEF Store, Return
  <2>2. pc' \in [Tasks -> Labels]
    BY <1>2, <1>8, StoreEffect DEF Labels
  <2>3. handing' \in Messages \cup Codes /\ r_msg' \in [Tasks -> Messages \cup Codes]
    BY <1>1, <2>1, ZenonT(30), SMTT(30) DEF TypeOK, Codes
  <2> QED BY <1>1, <2>1, <2>2, <2>3, ZenonT(30), SMTT(30) DEF TypeOK
<1>9. ASSUME NEW t \in Tasks, NEW f \in Filters, ~deleted,
             ReceiveQueued(t, f) \/ ReceiveError(t, f) \/ ReceiveSleep(t, f),
             q_receivers' \in Seq(Tasks), UNCHANGED <<lock, ctlvars, memvars, smsg, hvars>>
      PROVE  TypeOK'
  <2>1. /\ pc' = [pc EXCEPT ![t] = "idle"] \/ pc' = [pc EXCEPT ![t] = "rcv_sleep"]
        /\ sig' = sig \/ sig' = [sig EXCEPT ![t] = FALSE]
        /\ filter' = [filter EXCEPT ![t] = NoFilter] \/ filter' = [filter EXCEPT ![t] = f]
        /\ r_msg' = [r_msg EXCEPT ![t] = "NULL"] \/ r_msg' = [r_msg EXCEPT ![t] = "EAGAIN"]
        /\ q_senders' = q_senders
    BY <1>9, ZenonT(30), SMTT(30) DEF ReceiveQueued, ReceiveError, ReceiveSleep, RcvReturn, Return, Goto, ss_wakeup
  <2>2. \/ tstate' = tstate \/ tstate' = [tstate EXCEPT ![t] = "sleeping"]
        \/ tstate' = [u \in Tasks |-> IF u \in q_senders THEN "running" ELSE tstate[u]]
    BY <1>9, ZenonT(30), SMTT(30) DEF ReceiveQueued, ReceiveError, ReceiveSleep, ss_wakeup
  <2>3. pc' \in [Tasks -> Labels] /\ tstate' \in [Tasks -> {"running", "sleeping"}]
    BY <1>1, <1>2, <2>1, <2>2, SMTT(30) DEF TypeOK, Labels, Waiting
  <2>4. NoFilter \in Filters
    BY SMTT(30) DEF NoFilter, Filters, SearchModes
  <2>5. filter' \in [Tasks -> Filters]
    BY <1>1, <1>9, <2>1, <2>4 DEF TypeOK
  <2>7. r_msg' \in [Tasks -> Messages \cup Codes]
    BY <1>1, <2>1 DEF TypeOK, Codes
  <2>6. /\ q_messages' \in Seq(Messages) /\ msg_hdrs' \in Nat /\ q_qnum' \in Nat
        /\ q_cbytes' \in Nat /\ msg_bytes' \in Nat
        /\ fate' \in [Messages -> {"unsent", "kernel", "received", "destroyed"}]
    <3>1. CASE ReceiveQueued(t, f)
      <4>1. Matching(f) # {} /\ Delist(Walk(f)) /\ fate' = [fate EXCEPT ![q_messages[Walk(f)]] = "received"]
        BY <3>1, ZenonT(30), SMTT(30) DEF ReceiveQueued
      <4> QED BY <1>1, <1>9, <4>1, ReceiveCounts, ZenonT(30), SMTT(30) DEF TypeOK
    <3>2. CASE UNCHANGED <<qvars, fate>>
      BY <1>1, <3>2 DEF TypeOK
    <3> QED BY <1>9, <3>1, <3>2 DEF ReceiveError, ReceiveSleep
  <2> QED BY <1>1, <1>9, <2>1, <2>3, <2>5, <2>6, <2>7, ZenonT(30), SMTT(30) DEF TypeOK
<1>10. ASSUME NEW t \in Tasks, NEW a \in RcvArgs, MsgrcvCall(t, a) PROVE TypeOK'
  <2>1. q_receivers' \in Seq(Tasks)
    <3>1. q_receivers' = q_receivers \/ q_receivers' = Append(q_receivers, t)
      BY <1>10 DEF MsgrcvCall
    <3>2. q_receivers \in Seq(Tasks)
      BY <1>1 DEF TypeOK
    <3>3. Append(q_receivers, t) \in Seq(Tasks)
      BY <3>2, AppendProperties
    <3> QED BY <3>1, <3>2, <3>3
  <2>2. /\ ~deleted /\ UNCHANGED <<lock, ctlvars, memvars, smsg, hvars>>
        /\ ReceiveQueued(t, FilterOf(a)) \/ ReceiveSleep(t, FilterOf(a))
    BY <1>10 DEF MsgrcvCall
  <2>3. FilterOf(a) \in Filters
    BY FilterType
  <2> QED BY <1>9, <2>1, <2>2, <2>3
<1>11. ASSUME NEW t \in Tasks, MsgrcvWake(t) PROVE TypeOK'
  BY <1>1, <1>11 DEF MsgrcvWake, Goto, TypeOK, Labels, Waiting
<1>12. ASSUME NEW t \in Tasks, Accept(t), UNCHANGED <<lock, ctlvars, qvars, lists, memvars, tstate, smsg, hvars>>
       PROVE  TypeOK'
  <2>1. NoFilter \in Filters
    BY SMTT(30) DEF NoFilter, Filters, SearchModes
  <2>2. /\ pc' = [pc EXCEPT ![t] = "idle"] /\ sig' = [sig EXCEPT ![t] = FALSE]
        /\ filter' = [filter EXCEPT ![t] = NoFilter] /\ r_msg' = [r_msg EXCEPT ![t] = "NULL"]
        /\ fate' = fate \/ fate' = [fate EXCEPT ![r_msg[t]] = "received"]
    BY <1>12 DEF Accept, RcvReturn, Return, Goto
  <2>3. pc' \in [Tasks -> Labels] /\ filter' \in [Tasks -> Filters]
    BY <1>1, <1>2, <2>1, <2>2 DEF Labels, TypeOK
  <2>4. r_msg' \in [Tasks -> Messages \cup Codes]
    BY <1>1, <2>2 DEF Codes, TypeOK
  <2> QED BY <1>1, <1>12, <2>2, <2>3, <2>4, ZenonT(30), SMTT(30) DEF TypeOK
<1>13. ASSUME NEW t \in Tasks, MsgrcvLockless(t) PROVE TypeOK'
  <2>1. CASE Accept(t)
    BY <1>12, <1>13, <2>1 DEF MsgrcvLockless
  <2>2. CASE Goto(t, "rcv_lock") /\ UNCHANGED <<sig, filter, r_msg, fate>>
    BY <1>1, <1>13, <2>2 DEF MsgrcvLockless, Goto, TypeOK, Labels, Waiting
  <2> QED BY <1>13, <2>1, <2>2, ZenonT(30), SMTT(30) DEF MsgrcvLockless
<1>14. ASSUME NEW t \in Tasks, MsgrcvRelock(t) PROVE TypeOK'
  <2>1. CASE Accept(t) /\ UNCHANGED <<q_receivers, qvars, q_senders, tstate>>
    BY <1>12, <1>14, <2>1, ZenonT(30), SMTT(30) DEF MsgrcvRelock
  <2>2. CASE r_msg[t] = "EAGAIN" /\ ~(Accept(t) /\ UNCHANGED <<q_receivers, qvars, q_senders, tstate>>)
    <3>1. ~deleted /\ filter[t] \in Filters
      BY <1>1, <2>2, ZenonT(30), SMTT(30) DEF IInv, ReceiverInv, Unanswered, TypeOK
    <3>2. PICK i \in 1..Len(q_receivers) : \/ q_receivers' = RemoveAt(q_receivers, i)
                                          \/ q_receivers' = Append(RemoveAt(q_receivers, i), t)
      BY <1>14, <2>2, ZenonT(30), SMTT(30) DEF MsgrcvRelock, Unlink
    <3>3. RemoveAt(q_receivers, i) \in Seq(Tasks)
      BY <1>1, RemoveAtProperties, ZenonT(30), SMTT(30) DEF TypeOK
    <3>4. q_receivers' \in Seq(Tasks)
      BY <3>2, <3>3, AppendProperties, SMTT(30)
    <3>5. CASE RcvReturn(t) /\ UNCHANGED <<qvars, q_senders, tstate, fate>>
      <4>1. NoFilter \in Filters
        BY SMTT(30) DEF NoFilter, Filters, SearchModes
      <4>2. /\ pc' = [pc EXCEPT ![t] = "idle"] /\ sig' = [sig EXCEPT ![t] = FALSE]
            /\ filter' = [filter EXCEPT ![t] = NoFilter] /\ r_msg' = [r_msg EXCEPT ![t] = "NULL"]
            /\ UNCHANGED <<lock, ctlvars, memvars, smsg, hvars>>
        BY <1>14, <3>5, ZenonT(30), SMTT(30) DEF RcvReturn, Return, Goto, MsgrcvRelock
      <4>3. pc' \in [Tasks -> Labels] /\ filter' \in [Tasks -> Filters]
        BY <1>1, <1>2, <4>1, <4>2 DEF Labels, TypeOK
      <4>4. r_msg' \in [Tasks -> Messages \cup Codes]
        BY <1>1, <4>2 DEF Codes, TypeOK
      <4> QED BY <1>1, <3>4, <3>5, <4>2, <4>3, <4>4, ZenonT(30), SMTT(30) DEF TypeOK
    <3>6. CASE \/ ReceiveQueued(t, filter[t]) \/ ReceiveError(t, filter[t])
               \/ ReceiveSleep(t, filter[t])
      BY <1>9, <1>14, <3>1, <3>4, <3>6, ZenonT(30), SMTT(30) DEF MsgrcvRelock
    <3> QED BY <1>14, <2>2, <3>5, <3>6, ZenonT(30), SMTT(30) DEF MsgrcvRelock
  <2> QED BY <1>14, <2>1, <2>2, ZenonT(30), SMTT(30) DEF MsgrcvRelock
<1>15. ASSUME NEW t \in Tasks, expunge_all(t) PROVE TypeOK'
  <2>1. q_receivers[cursor] \in Tasks
    BY <1>1, <1>15, CtlLocks, SMTT(30) DEF expunge_all, IInv, TypeOK
  <2>2. /\ handing' \in {"EIDRM", "EAGAIN"} /\ waking' = q_receivers[cursor]
        /\ r_msg' = [r_msg EXCEPT ![q_receivers[cursor]] = "NULL"]
        /\ cursor' = cursor + 1 /\ pc' = [pc EXCEPT ![t] = "wake_up"]
        /\ UNCHANGED <<lock, ctlvars, qvars, lists, memvars, tstate, sig, smsg, filter, fate>>
    BY <1>15 DEF expunge_all, Answering, Goto
  <2> QED BY <1>1, <2>1, <2>2, SMTT(30) DEF TypeOK, Codes, Labels
<1>16. ASSUME NEW t \in Tasks, NEW b \in QBytes, NEW p \in Modes, IpcSet(t, b, p) PROVE TypeOK'
  <2>1. b \in Nat /\ p \in SUBSET {"r", "w"}
    BY ConstantsAssumption
  <2> QED BY <1>1, <1>16, <2>1 DEF IpcSet, CtlEnter, Goto, TypeOK, Labels
<1>17. ASSUME NEW t \in Tasks, IpcRmid(t) PROVE TypeOK'
  BY <1>1, <1>17 DEF IpcRmid, CtlEnter, Goto, TypeOK, Labels
<1>18. ASSUME NEW t \in Tasks, IpcSetDone(t) PROVE TypeOK'
  BY <1>1, <1>18 DEF IpcSetDone, ss_wakeup, Return, Goto, TypeOK, Labels
<1>19. ASSUME NEW t \in Tasks, FreequeUnlock(t) PROVE TypeOK'
  BY <1>1, <1>19 DEF FreequeUnlock, ss_wakeup, Goto, TypeOK, Labels
<1>20. ASSUME NEW t \in Tasks, FreequeMsg(t) PROVE TypeOK'
  <2>1. Len(q_messages) \in Nat \ {0} /\ Tail(q_messages) \in Seq(Messages) /\ Head(q_messages) \in Messages
    BY <1>1, <1>20, SMTT(30) DEF FreequeMsg, TypeOK
  <2>2. msg_hdrs - 1 \in Nat
    BY <2>1, SMTT(30) DEF IInv, Accounting
  <2> QED BY <1>1, <1>20, <2>1, <2>2 DEF FreequeMsg, TypeOK
<1>21. ASSUME NEW t \in Tasks, FreequeLoad(t) PROVE TypeOK'
  <2>1. msg_bytes = q_cbytes
    BY <1>21 DEF FreequeLoad, IInv, Accounting
  <2> QED BY <1>1, <1>21, <2>1, SMTT(30) DEF FreequeLoad, Goto, TypeOK, Labels
<1>22. ASSUME NEW t \in Tasks, FreequePutref(t) PROVE TypeOK'
  <2>1. reg - 1 \in Nat
    BY <1>1, <1>22, RefCounted DEF FreequePutref, IInv
  <2>2. mem' \in {mem, "grace"} /\ readers' \in {readers, {u \in Tasks : InRcu(u)}}
    BY <1>22 DEF FreequePutref
  <2>3. /\ refcount' = reg - 1 /\ reg' = 0 /\ rw_mutex' = NoTask
        /\ pc' = [pc EXCEPT ![t] = "idle"] /\ sig' = [sig EXCEPT ![t] = FALSE]
        /\ UNCHANGED <<lock, deleted, q_mode, qvars, q_qbytes, lists, tstate, callvars, hvars, fate>>
    BY <1>22 DEF FreequePutref, Return, Goto
  <2> QED BY <1>1, <2>1, <2>2, <2>3 DEF TypeOK, Labels
<1>23. ASSUME NEW t \in Tasks, Signal(t) PROVE TypeOK'
  BY <1>1, <1>23 DEF Signal, TypeOK
<1>24. CASE GracePeriod
  BY <1>1, <1>24 DEF GracePeriod, TypeOK
<1>25. CASE UNCHANGED vars
  BY <1>1, <1>25 DEF vars, TypeOK
<1> QED BY <1>3, <1>4, <1>5, <1>6, <1>7, <1>8, <1>10, <1>11, <1>13, <1>14, <1>15, <1>16, <1>17, <1>18,
           <1>19, <1>20, <1>21, <1>22, <1>23, <1>24, <1>25
     DEF Next, Inside, Call

\* msq is released by the last reference only, and never under a receiver that
\* relies on RCU.
LEMMA MemStep == ASSUME IInv, [Next]_vars PROVE MemInv'
<1> DEFINE Same(l) == \A u \in Tasks : pc'[u] = l <=> pc[u] = l
<1>1. /\ pc \in [Tasks -> Labels] /\ refcount \in Nat /\ reg \in Nat /\ deleted \in BOOLEAN
      /\ mem \in {"live", "grace", "freed"}
  BY DEF IInv, Accounting, TypeOK
<1>2. /\ IsFiniteSet(Refs) /\ Cardinality(Refs) \in Nat /\ (Cardinality(Refs) = 0 <=> Refs = {})
      /\ MemInv /\ LockInv
  BY FS_CardinalityType, FS_EmptySet DEF IInv, MemInv
<1>3. ASSUME UNCHANGED <<refcount, mem, readers, reg>>, Same("snd_sleep"), Same("putref"),
             Same("free_msgs"), UNCHANGED deleted,
             \A u \in Tasks : pc'[u] = "rcv_lock" => pc[u] = "rcv_lock"
      PROVE  MemInv'
  <2>1. Refs' = Refs /\ Unreleased' = Unreleased
    BY <1>3 DEF Refs, Unreleased
  <2> QED BY <1>2, <1>3, <2>1 DEF MemInv
<1>4. ASSUME NEW t \in Tasks, NEW m \in Messages, MsgsndCall(t, m) PROVE MemInv'
  <2>1. pc[t] = "idle" /\ ~deleted /\ UNCHANGED <<deleted, mem, readers, reg>>
    BY <1>4 DEF MsgsndCall, ctlvars
  <2>2. CASE pc' = [pc EXCEPT ![t] = "pipelined_send"] /\ UNCHANGED refcount
    BY <1>1, <1>3, <2>1, <2>2
  <2>3. CASE pc' = [pc EXCEPT ![t] = "snd_sleep"] /\ refcount' = refcount + 1
    <3>1. Refs' = Refs \cup {t} /\ t \notin Refs
      BY <1>1, <2>1, <2>3 DEF Refs
    <3>2. IsFiniteSet(Refs') /\ Cardinality(Refs') = Cardinality(Refs) + 1
      BY <1>2, <3>1, FS_AddElement
    <3>3. Unreleased /\ Unreleased' /\ mem = "live"
      BY <1>1, <1>2, <2>1 DEF Unreleased, MemInv
    <3>4. \A u \in Tasks : pc'[u] # "putref"
      BY <1>1, <1>2, <2>1, <2>3 DEF LockInv
    <3> QED BY <1>1, <1>2, <2>1, <2>3, <3>2, <3>3, <3>4, SMTT(30) DEF MemInv
  <2> QED BY <1>4, <2>2, <2>3 DEF MsgsndCall, SendBegin, SendSleep, Goto
<1>5. ASSUME NEW t \in Tasks, MsgsndWake(t) PROVE MemInv'
  <2>1. pc[t] = "snd_sleep" /\ UNCHANGED deleted
    BY <1>5, ZenonT(30), SMTT(30) DEF MsgsndWake, ctlvars
  <2>2. CASE pc' = [pc EXCEPT ![t] = "snd_sleep"] /\ UNCHANGED memvars
    BY <1>1, <1>3, <2>1, <2>2 DEF memvars
  <2>3. CASE /\ ipc_rcu_putref
             /\ pc' = [pc EXCEPT ![t] = "idle"] \/ pc' = [pc EXCEPT ![t] = "pipelined_send"]
    <3>1. Refs' = Refs \ {t} /\ t \in Refs
      BY <1>1, <2>1, <2>3 DEF Refs
    <3>2. IsFiniteSet(Refs') /\ Cardinality(Refs') = Cardinality(Refs) - 1 /\ Cardinality(Refs') \in Nat
      BY <1>2, <3>1, FS_RemoveElement, FS_CardinalityType
    <3>3. (Cardinality(Refs') = 0 <=> Refs' = {})
      BY <3>2, FS_EmptySet, ZenonT(30), SMTT(30)
    <3>4. Unreleased' = Unreleased /\ Same("putref") /\ Same("rcv_lock")
      BY <1>1, <2>1, <2>3 DEF Unreleased
    <3>5. mem = "live"
      BY <1>2, <3>1 DEF MemInv
    <3>6. refcount' = refcount - 1 /\ reg' = reg
      BY <2>3 DEF ipc_rcu_putref
    <3>7. refcount' >= Cardinality(Refs') /\ (Unreleased' => refcount' >= Cardinality(Refs') + 1)
      BY <1>1, <1>2, <3>2, <3>4, <3>6, SMTT(30) DEF MemInv
    <3>8. \A u \in Tasks : pc'[u] = "putref" => reg' >= Cardinality(Refs') + 1
      BY <1>1, <1>2, <3>2, <3>4, <3>6, SMTT(30) DEF MemInv
    <3>9. CASE refcount - 1 > 0
      BY <2>3, <3>2, <3>5, <3>7, <3>8, <3>9 DEF MemInv, ipc_rcu_putref
    <3>10. CASE ~(refcount - 1 > 0)
      <4>1. mem' = "grace" /\ readers' = {u \in Tasks : InRcu(u)}
        BY <2>3, <3>10 DEF ipc_rcu_putref
      <4>2. ~Unreleased' /\ Refs' = {}
        <5>2. refcount' <= 0 /\ refcount' \in Int
          BY <1>1, <3>6, <3>10, SMTT(30)
        <5>3. Cardinality(Refs') \in Nat /\ refcount' >= Cardinality(Refs')
          BY <3>2, <3>7
        <5>1. ~(refcount' >= Cardinality(Refs') + 1) /\ Cardinality(Refs') = 0
          BY <5>2, <5>3, SMTT(30)
        <5> QED BY <3>3, <3>7, <5>1
      <4>3. \A u \in Tasks : pc'[u] = "rcv_lock" => u \in readers'
        BY <3>4, <4>1 DEF InRcu
      <4> QED BY <3>2, <3>7, <3>8, <4>1, <4>2, <4>3 DEF MemInv
    <3> QED BY <3>9, <3>10
  <2> QED BY <1>5, <2>2, <2>3 DEF MsgsndWake, SendNoPerm, SendBegin, SendSleep, Return, Goto
<1>6. ASSUME NEW t \in Tasks, MsgrcvLockless(t) PROVE MemInv'
  <2>1. pc[t] = "rcv_rcu" /\ UNCHANGED <<deleted, refcount, mem, readers, reg>>
    BY <1>6, ZenonT(30), SMTT(30) DEF MsgrcvLockless, ctlvars, memvars
  <2>2. CASE pc' = [pc EXCEPT ![t] = "idle"]
    BY <1>1, <1>3, <2>1, <2>2
  <2>3. CASE pc' = [pc EXCEPT ![t] = "rcv_lock"] /\ r_msg[t] = "EAGAIN"
    <3>1. ~deleted
      BY <2>3, ZenonT(30), SMTT(30) DEF IInv, ReceiverInv, Unanswered
    <3>2. Refs' = Refs /\ Same("putref") /\ Unreleased /\ Unreleased'
      BY <1>1, <2>1, <2>3, <3>1 DEF Refs, Unreleased
    <3>3. mem = "live"
      BY <1>2, <3>2 DEF MemInv
    <3> QED BY <1>2, <2>1, <3>2, <3>3, ZenonT(30), SMTT(30) DEF MemInv
  <2> QED BY <1>6, <2>2, <2>3 DEF MsgrcvLockless, Accept, RcvReturn, Return, Goto
<1>7. ASSUME NEW t \in Tasks, FreequeUnlock(t) PROVE MemInv'
  <2>1. pc[t] = "freeque" /\ ~deleted
    BY <1>7, CtlLocks DEF FreequeUnlock, IInv, Accounting
  <2>2. pc' = [pc EXCEPT ![t] = "free_msgs"] /\ UNCHANGED <<refcount, mem, readers, reg>>
    BY <1>7 DEF FreequeUnlock, Goto, memvars
  <2>3. Refs' = Refs /\ Unreleased /\ Unreleased' /\ Same("putref") /\ Same("rcv_lock")
    BY <1>1, <2>1, <2>2 DEF Refs, Unreleased
  <2> QED BY <1>2, <2>2, <2>3 DEF MemInv
<1>8. ASSUME NEW t \in Tasks, FreequeLoad(t) PROVE MemInv'
  <2>1. /\ pc[t] = "free_msgs" /\ UNCHANGED <<refcount, mem, readers, deleted>>
        /\ reg' = refcount /\ pc' = [pc EXCEPT ![t] = "putref"]
    BY <1>8 DEF FreequeLoad, Goto, ctlvars
  <2>2. Refs' = Refs /\ Unreleased /\ Unreleased' /\ Same("rcv_lock")
    BY <1>1, <2>1 DEF Refs, Unreleased
  <2>3. refcount >= Cardinality(Refs) + 1
    BY <1>2, <2>2 DEF MemInv
  <2> QED BY <1>2, <2>1, <2>2, <2>3 DEF MemInv
<1>9. ASSUME NEW t \in Tasks, FreequePutref(t) PROVE MemInv'
  <2>1. /\ pc[t] = "putref" /\ refcount' = reg - 1 /\ UNCHANGED deleted
        /\ pc' = [pc EXCEPT ![t] = "idle"]
    BY <1>9 DEF FreequePutref, Return, Goto
  <2>2. deleted /\ rw_mutex = t
    BY <1>2, <2>1 DEF LockInv, InCtl
  <2>3. \A u \in Tasks : pc[u] \in {"free_msgs", "putref"} => u = t
    BY <1>2, <2>2 DEF LockInv, InCtl
  <2>4. Refs' = Refs /\ ~Unreleased' /\ Same("rcv_lock") /\ \A u \in Tasks : pc'[u] # "putref"
    BY <1>1, <2>1, <2>2, <2>3 DEF Refs, Unreleased
  <2>5. reg >= Cardinality(Refs) + 1 /\ mem = "live"
    BY <1>1, <1>2, <2>1 DEF MemInv, Unreleased
  <2>6. refcount' >= Cardinality(Refs') /\ (Unreleased' => refcount' >= Cardinality(Refs') + 1)
    BY <1>1, <1>2, <2>1, <2>4, <2>5, SMTT(30)
  <2>7. CASE reg - 1 > 0
    BY <1>2, <1>9, <2>4, <2>5, <2>6, <2>7, ZenonT(30), SMTT(30) DEF MemInv, FreequePutref
  <2>8. CASE ~(reg - 1 > 0)
    <3>1. mem' = "grace" /\ readers' = {u \in Tasks : InRcu(u)}
      BY <1>9, <2>8 DEF FreequePutref
    <3>2. Refs' = {}
      BY <1>1, <1>2, <2>4, <2>5, <2>8, SMTT(30)
    <3>3. \A u \in Tasks : pc'[u] = "rcv_lock" => u \in readers'
      BY <2>4, <3>1 DEF InRcu
    <3> QED BY <1>2, <2>4, <2>6, <3>1, <3>2, <3>3, ZenonT(30), SMTT(30) DEF MemInv
  <2> QED BY <2>7, <2>8
<1>10. CASE GracePeriod
  <2>1. /\ mem = "grace" /\ \A u \in readers : ~InRcu(u)
        /\ mem' = "freed" /\ UNCHANGED <<refcount, reg, pc, deleted>>
    BY <1>10 DEF GracePeriod, ctlvars
  <2>2. \A u \in Tasks : pc[u] # "rcv_lock"
    BY <1>2, <2>1 DEF MemInv, InRcu
  <2>3. Refs' = Refs /\ Unreleased' = Unreleased
    BY <2>1 DEF Refs, Unreleased
  <2> QED BY <1>2, <2>1, <2>2, <2>3 DEF MemInv
<1>11. ASSUME UNCHANGED <<refcount, mem, readers, reg, deleted>>, NEW t \in Tasks,
              NEW l \in Labels, pc' = [pc EXCEPT ![t] = l],
              {pc[t], l} \cap {"snd_sleep", "putref", "free_msgs"} = {}, l # "rcv_lock"
       PROVE  MemInv'
  BY <1>1, <1>3, <1>11, ZenonT(30), SMTT(30)
<1>12. ASSUME NEW t \in Tasks, PipelinedSelect(t) \/ Enqueue(t) \/ WakeUp(t) PROVE MemInv'
  BY <1>11, <1>12, ZenonT(30), SMTT(30) DEF PipelinedSelect, Enqueue, WakeUp, Return, Goto, memvars, ctlvars, Labels
<1>13. ASSUME NEW t \in Tasks, Store(t) PROVE MemInv'
  BY <1>11, <1>13 DEF Store, Caller, Return, Goto, memvars, ctlvars, Labels
<1>14. ASSUME NEW t \in Tasks, NEW a \in RcvArgs, MsgrcvCall(t, a) PROVE MemInv'
  <2>1. /\ pc[t] = "idle" /\ UNCHANGED <<refcount, mem, readers, reg, deleted>>
        /\ pc' = [pc EXCEPT ![t] = "idle"] \/ pc' = [pc EXCEPT ![t] = "rcv_sleep"]
    BY <1>14, ZenonT(30), SMTT(30) DEF MsgrcvCall, ReceiveQueued, ReceiveSleep, RcvReturn, Return, Goto, memvars, ctlvars
  <2> QED BY <1>11, <2>1 DEF Labels, Waiting
<1>15. ASSUME NEW t \in Tasks, MsgrcvWake(t) \/ MsgrcvRelock(t) PROVE MemInv'
  BY <1>11, <1>15, ZenonT(30), SMTT(30) DEF MsgrcvWake, MsgrcvRelock, Accept, ReceiveQueued, ReceiveError, ReceiveSleep,
       RcvReturn, Return, Goto, memvars, ctlvars, Labels, Waiting
<1>16. ASSUME NEW t \in Tasks, expunge_all(t) \/ IpcSetDone(t) \/ IpcRmid(t) PROVE MemInv'
  BY <1>11, <1>16, ZenonT(30), SMTT(30) DEF expunge_all, IpcSetDone, IpcRmid, CtlEnter, Return, Goto, memvars, ctlvars, Labels
<1>17. ASSUME NEW t \in Tasks, NEW b \in QBytes, NEW p \in Modes, IpcSet(t, b, p) PROVE MemInv'
  BY <1>11, <1>17, ZenonT(30), SMTT(30) DEF IpcSet, CtlEnter, Goto, memvars, Labels
<1>18. ASSUME NEW t \in Tasks, FreequeMsg(t) \/ Signal(t) PROVE MemInv'
  BY <1>3, <1>18 DEF FreequeMsg, Signal, memvars, ctlvars
<1>19. CASE UNCHANGED vars
  BY <1>3, <1>19 DEF vars, memvars, ctlvars
<1> QED BY <1>4, <1>5, <1>6, <1>7, <1>8, <1>9, <1>10, <1>12, <1>13, <1>14, <1>15, <1>16, <1>17, <1>18, <1>19
     DEF Next, Inside, Call

=============================================================================
