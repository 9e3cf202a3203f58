------------------------- MODULE BlkCompleteProofs -------------------------
(***************************************************************************)
(* Proofs about BlkComplete, for any number of queues, requests and tags:  *)
(* the tag map shared by the queues is exact, and the timer and the        *)
(* completion interrupt never both win a request.                          *)
(***************************************************************************)
EXTENDS BlkComplete, TLAPS

\* the provers tried, in this order, on a step that names none
USE SMTT(8), ZenonT(20), SMTT(60)

\* the local variable tag of blk_queue_start_tag and blk_queue_end_tag
MyTagOK == \A r \in Reqs : pos[r] \in {"find", "bit", "end", "requeue"} => mytag[r] \in Tags

\* the requests a queue's lock is held for
LockHeld == \A r \in Reqs : pos[r] \in Locked \/ r \in reset => lock[QueueOf[r]] = r

\* The inductive invariant: TagsExact needs MyTagOK for the tags in transit,
\* the type invariant needs both for the bits that are set, and NeverLost
\* needs LockHeld: nobody requeues or ends a request whose timer is being
\* started again.
IInv == CompleteTypeOK /\ MyTagOK /\ TagsExact /\ OneWinner /\ NeverLost /\ LockHeld

-----------------------------------------------------------------------------
\* What blk_queue_start_tag may search is a non-empty part of the map.
LEMMA DepthBound ==
  ASSUME NEW r \in Reqs, max_depth \in 1..RealMaxDepth
  PROVE  DepthFor(r) \in 1..RealMaxDepth
  BY CompleteAssumption DEF DepthFor

\* find_first_zero_bit yields a tag whose bit is zero.
LEMMA FindTag ==
  ASSUME NEW d \in 0..RealMaxDepth, NEW t \in 0..RealMaxDepth, FirstZero(t, d)
  PROVE  t \in Tags /\ t \notin tag_map
  BY CompleteAssumption DEF FirstZero, Tags

\* Before the first blk_start_request no tag is set and nothing is timed.
LEMMA InitInv == Init => IInv
  BY CompleteAssumption DEF Init, IInv, CompleteTypeOK, MyTagOK, TagsExact, OneWinner, NeverLost,
     LockHeld, Owns, Locked, Started, Tags

-----------------------------------------------------------------------------
\* Every step preserves the types: the tags blk_queue_start_tag sets are
\* tags of the map.
LEMMA TypeStep == ASSUME IInv, Next PROVE CompleteTypeOK'
<1> USE CompleteAssumption DEF IInv, CompleteTypeOK
<1>1. ASSUME NEW r \in Reqs, Step(r) PROVE CompleteTypeOK'
  <2> USE DEF Move, Acquire, Release, Locked, Started
  <2>1. CASE Insert(r)
    BY <2>1 DEF Insert, tagVars
  <2>2. CASE StartFind(r)
    <3>1. DepthFor(r) \in 1..RealMaxDepth
      BY DepthBound
    <3>2. PICK t \in 0..RealMaxDepth : FirstZero(t, DepthFor(r)) /\ mytag' = [mytag EXCEPT ![r] = t]
      BY <2>2 DEF StartFind, Find
    <3>3. t \in Tags
      BY <3>1, <3>2, FindTag
    <3> QED
      BY <2>2, <3>1, <3>2, <3>3 DEF StartFind, tagVars
  <2>3. CASE StartBit(r)
    BY <2>3 DEF StartBit, MyTagOK
  <2>4. CASE StartAgain(r)
    <3>1. CASE Find(r, depth[r])
      <4>1. PICK t \in 0..RealMaxDepth : FirstZero(t, depth[r]) /\ mytag' = [mytag EXCEPT ![r] = t]
        BY <3>1 DEF Find
      <4>2. t \in Tags
        BY <4>1, FindTag
      <4> QED
        BY <2>4, <4>1, <4>2 DEF StartAgain, tagVars
    <3>2. CASE UNCHANGED mytag
      BY <2>4, <3>2 DEF StartAgain, tagVars
    <3> QED
      BY <2>4, <3>1, <3>2 DEF StartAgain
  <2>5. CASE StartRequest(r)
    BY <2>5 DEF StartRequest
  <2>6. CASE HwDone(r)
    BY <2>6 DEF HwDone, tagVars
  <2>7. CASE HwHang(r)
    BY <2>7 DEF HwHang, tagVars
  <2>8. CASE Softirq(r)
    BY <2>8 DEF Softirq, tagVars
  <2>9. CASE TimerLate(r) \/ TimerTake(r)
    BY <2>9 DEF TimerLate, TimerTake, tagVars
  <2>10. CASE TimedOutHandled(r) \/ TimedOutReset(r) \/ AddTimer(r) \/ TimedOutNotHandled(r)
    BY <2>10 DEF TimedOutHandled, TimedOutReset, AddTimer, ResetTimer, TimedOutNotHandled, tagVars
  <2>11. CASE EndIndex(r) \/ RequeueIndex(r)
    BY <2>11 DEF EndIndex, RequeueIndex, EndTag
  <2>12. CASE EndClear(r) \/ RequeueClear(r)
    BY <2>12 DEF EndClear, RequeueClear, ClearBit
  <2> QED
    BY <1>1, <2>1, <2>2, <2>3, <2>4, <2>5, <2>6, <2>7, <2>8, <2>9, <2>10, <2>11, <2>12 DEF Step
<1>2. ASSUME NEW d \in 0..RealMaxDepth + 1, ResizeTags(d) PROVE CompleteTypeOK'
  BY <1>2 DEF ResizeTags
<1> QED
  BY <1>1, <1>2 DEF Next

-----------------------------------------------------------------------------
\* Every step keeps the tag map exact: a bit is set by one request only, and
\* cleared by its owner after tag_index has been emptied.
LEMMA TagStep == ASSUME IInv, Next PROVE MyTagOK' /\ TagsExact'
<1> USE CompleteAssumption DEF IInv, CompleteTypeOK, MyTagOK
<1>1. ASSUME NEW r \in Reqs, Step(r) PROVE MyTagOK' /\ TagsExact'
  <2> USE DEF Move, Acquire, Release, Locked, Started, Owns, TagsExact
  <2>1. CASE Insert(r)
    BY <2>1 DEF Insert, tagVars
  <2>2. CASE StartFind(r)
    <3>1. DepthFor(r) \in 1..RealMaxDepth
      BY DepthBound
    <3>2. PICK t \in 0..RealMaxDepth : FirstZero(t, DepthFor(r)) /\ mytag' = [mytag EXCEPT ![r] = t]
      BY <2>2 DEF StartFind, Find
    <3>3. t \in Tags
      BY <3>1, <3>2, FindTag
    <3> QED
      BY <2>2, <3>2, <3>3 DEF StartFind, tagVars
  <2>3. CASE StartBit(r)
    <3>1. pos[r] = "find" /\ mytag[r] \in Tags /\ mytag[r] \notin tag_map
      BY <2>3 DEF StartBit, TestAndSet
    <3>2. MyTagOK'
      BY <2>3, <3>1 DEF StartBit
    <3>3. \A s \in Reqs, t \in Tags : Owns(s, t)' <=> Owns(s, t) \/ (s = r /\ t = mytag[r])
      BY <2>3, <3>1 DEF StartBit
    <3>4. \A s \in Reqs : pos'[s] \in Started => tag'[s] \in Tags /\ tag_index'[tag'[s]] = s
      BY <2>3, <3>1 DEF StartBit
    <3>5. tag_map' = tag_map \cup {mytag[r]}
      BY <2>3 DEF StartBit
    <3> HIDE DEF Owns
    <3> QED
      BY <3>1, <3>2, <3>3, <3>4, <3>5
  <2>4. CASE StartAgain(r)
    <3>1. CASE Find(r, depth[r]) /\ UNCHANGED <<pos, lock>>
      <4>1. PICK t \in 0..RealMaxDepth : FirstZero(t, depth[r]) /\ mytag' = [mytag EXCEPT ![r] = t]
        BY <3>1 DEF Find
      <4>2. t \in Tags
        BY <4>1, FindTag
      <4> QED
        BY <2>4, <3>1, <4>1, <4>2 DEF StartAgain, tagVars
    <3>2. CASE Move(r, "queued") /\ UNCHANGED mytag
      BY <2>4, <3>2 DEF StartAgain, tagVars
    <3> QED
      BY <2>4, <3>1, <3>2 DEF StartAgain
  <2>5. CASE StartRequest(r)
    <3>1. pos[r] = "bit" /\ mytag[r] \in Tags
      BY <2>5 DEF StartRequest
    <3>2. MyTagOK'
      BY <2>5, <3>1 DEF StartRequest
    <3>3. \A s \in Reqs, t \in Tags : Owns(s, t)' <=> Owns(s, t)
      BY <2>5, <3>1 DEF StartRequest
    <3>4. \A s \in Reqs : pos'[s] \in Started /\ s # r =>
            pos[s] \in Started /\ tag'[s] = tag[s] /\ tag[s] # mytag[r]
      BY <2>5, <3>1 DEF StartRequest
    <3>5. \A s \in Reqs : pos'[s] \in Started => tag'[s] \in Tags /\ tag_index'[tag'[s]] = s
      BY <2>5, <3>1, <3>4 DEF StartRequest
    <3>6. tag_map' = tag_map
      BY <2>5 DEF StartRequest
    <3> HIDE DEF Owns
    <3> QED
      BY <3>2, <3>3, <3>5, <3>6
  <2>6. CASE HwDone(r) \/ HwHang(r) \/ TimerLate(r)
    BY <2>6 DEF HwDone, HwHang, TimerLate, tagVars
  <2>7. CASE Softirq(r)
    BY <2>7 DEF Softirq, tagVars, OneWinner
  <2>8. CASE TimerTake(r)
    BY <2>8 DEF TimerTake, tagVars, OneWinner, NeverLost
  <2>9. CASE TimedOutHandled(r) \/ TimedOutReset(r) \/ AddTimer(r) \/ TimedOutNotHandled(r)
    <3>1. CASE TimedOutHandled(r)
      BY <3>1 DEF TimedOutHandled, tagVars
    <3>2. CASE TimedOutReset(r)
      BY <3>2 DEF TimedOutReset, tagVars
    <3>3. CASE TimedOutNotHandled(r)
      BY <3>3 DEF TimedOutNotHandled, tagVars
    <3>4. CASE AddTimer(r)
      BY <3>4 DEF AddTimer, tagVars
    <3> QED
      BY <2>9, <3>1, <3>2, <3>3, <3>4
  <2>10. CASE EndIndex(r) \/ RequeueIndex(r)
    <3>1. PICK p \in {"end", "requeue"} : EndTag(r, p)
      BY <2>10 DEF EndIndex, RequeueIndex
    <3>2. pos[r] \in Started /\ tag[r] \in Tags
      BY <2>10 DEF EndIndex, RequeueIndex
    <3>3. MyTagOK'
      BY <3>1, <3>2 DEF EndTag
    <3>4. \A s \in Reqs, t \in Tags : Owns(s, t)' <=> Owns(s, t)
      BY <3>1, <3>2 DEF EndTag
    <3>5. \A s \in Reqs : pos'[s] \in Started =>
            s # r /\ pos[s] \in Started /\ tag'[s] = tag[s] /\ tag[s] # tag[r]
      BY <3>1, <3>2 DEF EndTag
    <3>6. \A s \in Reqs : pos'[s] \in Started => tag'[s] \in Tags /\ tag_index'[tag'[s]] = s
      BY <3>1, <3>2, <3>5 DEF EndTag
    <3>7. tag_map' = tag_map
      BY <3>1 DEF EndTag
    <3> HIDE DEF Owns
    <3> QED
      BY <3>3, <3>4, <3>6, <3>7
  <2>11. CASE EndClear(r) \/ RequeueClear(r)
    <3> USE DEF EndClear, RequeueClear, ClearBit
    <3>1. pos[r] \in {"end", "requeue"} /\ mytag[r] \in Tags
      BY <2>11
    <3>2. MyTagOK'
      BY <2>11
    <3>3. \A s \in Reqs, t \in Tags : Owns(s, t)' <=> Owns(s, t) /\ s # r
      BY <2>11
    <3>4. \A s \in Reqs : pos'[s] \in Started => tag'[s] \in Tags /\ tag_index'[tag'[s]] = s
      BY <2>11
    <3>5. tag_map' = tag_map \ {mytag[r]}
      BY <2>11
    <3>6. \A t \in Tags : Owns(r, t) <=> t = mytag[r]
      BY <3>1
    <3> HIDE DEF Owns, EndClear, RequeueClear
    <3> QED
      BY <3>2, <3>3, <3>4, <3>5, <3>6
  <2> QED
    BY <1>1, <2>1, <2>2, <2>3, <2>4, <2>5, <2>6, <2>7, <2>8, <2>9, <2>10, <2>11 DEF Step
<1>2. ASSUME NEW d \in 0..RealMaxDepth + 1, ResizeTags(d) PROVE MyTagOK' /\ TagsExact'
  <2>1. \A s \in Reqs, t \in Tags : Owns(s, t)' <=> Owns(s, t)
    BY <1>2 DEF ResizeTags, Owns
  <2> QED
    BY <1>2, <2>1 DEF ResizeTags, TagsExact
<1> QED
  BY <1>1, <1>2 DEF Next

\* Every step keeps the lock with the request it is held for: a step leaves
\* the locks as they are, takes the free lock of its request's queue, or
\* gives back the lock it holds.
LEMMA LockStep == ASSUME IInv, Next PROVE LockHeld'
<1>1. ASSUME NEW r \in Reqs, Step(r) PROVE LockHeld'
  <2> DEFINE Holds(s) == pos[s] \in Locked \/ s \in reset
             Others == \A s \in Reqs : s # r => pos'[s] = pos[s] /\ (s \in reset' <=> s \in reset)
             Kept == lock' = lock /\ (Holds(r)' => Holds(r))
             Taken == Free(r) /\ lock' = [lock EXCEPT ![QueueOf[r]] = r]
             Given == Holds(r) /\ ~Holds(r)' /\ lock' = [lock EXCEPT ![QueueOf[r]] = NoReq]
  <2>0. /\ pos \in [Reqs -> {"idle", "queued"} \cup Locked \cup Started]
        /\ \A s \in reset : pos[s] \in {"driver", "softirq"}
    BY DEF IInv, CompleteTypeOK, NeverLost
  <2>a. Others /\ (Kept \/ Taken \/ Given)
    <3> USE <2>0 DEF Move, Acquire, Release, Locked
    <3>1. CASE Insert(r)
      BY <3>1 DEF Insert
    <3>2. CASE StartFind(r)
      BY <3>2 DEF StartFind
    <3>3. CASE StartBit(r)
      BY <3>3 DEF StartBit
    <3>4. CASE StartAgain(r)
      BY <3>4 DEF StartAgain
    <3>5. CASE StartRequest(r)
      BY <3>5 DEF StartRequest
    <3>6. CASE HwDone(r)
      BY <3>6 DEF HwDone
    <3>7. CASE HwHang(r)
      BY <3>7 DEF HwHang
    <3>8. CASE Softirq(r)
      BY <3>8 DEF Softirq
    <3>9. CASE TimerLate(r)
      BY <3>9 DEF TimerLate
    <3>10. CASE TimerTake(r)
      BY <3>10 DEF TimerTake
    <3>11. CASE TimedOutHandled(r)
      BY <3>11 DEF TimedOutHandled
    <3>12. CASE TimedOutReset(r)
      BY <3>12 DEF TimedOutReset
    <3>13. CASE AddTimer(r)
      BY <3>13 DEF AddTimer
    <3>14. CASE TimedOutNotHandled(r)
      BY <3>14 DEF TimedOutNotHandled
    <3>15. CASE EndIndex(r)
      BY <3>15 DEF EndIndex, EndTag
    <3>16. CASE RequeueIndex(r)
      BY <3>16 DEF RequeueIndex, EndTag
    <3>17. CASE EndClear(r)
      BY <3>17 DEF EndClear
    <3>18. CASE RequeueClear(r)
      BY <3>18 DEF RequeueClear
    <3> QED
      BY <1>1, <3>1, <3>2, <3>3, <3>4, <3>5, <3>6, <3>7, <3>8, <3>9,
         <3>10, <3>11, <3>12, <3>13, <3>14, <3>15, <3>16, <3>17, <3>18 DEF Step
  <2> SUFFICES ASSUME NEW s \in Reqs, Holds(s)' PROVE lock'[QueueOf[s]] = s
    BY DEF LockHeld
  <2>1. \A u \in Reqs : Holds(u) => lock[QueueOf[u]] = u
    BY DEF IInv, LockHeld
  <2>2. lock \in [Queues -> Reqs \cup {NoReq}] /\ QueueOf \in [Reqs -> Queues] /\ NoReq \notin Reqs
    BY CompleteAssumption DEF IInv, CompleteTypeOK
  <2>3. s # r => Holds(s)
    BY <2>a
  <2> HIDE DEF Holds, Others
  <2>4. CASE Kept
    BY <2>1, <2>3, <2>4
  <2>5. CASE Taken
    BY <2>1, <2>2, <2>3, <2>5 DEF Free
  <2>6. CASE Given
    BY <2>1, <2>2, <2>3, <2>6
  <2> QED
    BY <2>a, <2>4, <2>5, <2>6
<1>2. ASSUME NEW d \in 0..RealMaxDepth + 1, ResizeTags(d) PROVE LockHeld'
  BY <1>2 DEF ResizeTags, IInv, LockHeld
<1> QED
  BY <1>1, <1>2 DEF Next

\* Every step leaves a request with one winner, and on the timeout list until
\* somebody has won it.
LEMMA WinnerStep == ASSUME IInv, Next PROVE OneWinner' /\ NeverLost'
<1> USE CompleteAssumption DEF IInv, CompleteTypeOK
<1>1. ASSUME NEW r \in Reqs, Step(r) PROVE OneWinner' /\ NeverLost'
  <2>0. LockHeld'
    BY <1>1, LockStep DEF Next
  <2>1. \A s \in reset' : lock'[QueueOf[s]] = s
    BY <2>0, TypeStep, <1>1 DEF LockHeld, Next
  <2> USE DEF Move, Started, Locked, OneWinner, NeverLost
  <2>2. CASE Insert(r)
    BY <2>1, <2>2 DEF Insert
  <2>3. CASE StartFind(r)
    BY <2>1, <2>3 DEF StartFind
  <2>4. CASE StartBit(r)
    BY <2>1, <2>4 DEF StartBit
  <2>5. CASE StartAgain(r)
    BY <2>1, <2>5 DEF StartAgain
  <2>6. CASE StartRequest(r)
    BY <2>1, <2>6 DEF StartRequest
  <2>7. CASE HwDone(r)
    BY <2>1, <2>7 DEF HwDone, Mark
  <2>8. CASE HwHang(r)
    BY <2>1, <2>8 DEF HwHang
  <2>9. CASE Softirq(r)
    BY <2>1, <2>9 DEF Softirq
  <2>10. CASE TimerLate(r)
    BY <2>1, <2>10 DEF TimerLate
  <2>11. CASE TimerTake(r)
    BY <2>1, <2>11 DEF TimerTake, Acquire, Free
  <2>12. CASE TimedOutHandled(r)
    BY <2>1, <2>12 DEF TimedOutHandled
  <2>13. CASE TimedOutReset(r)
    BY <2>1, <2>13 DEF TimedOutReset
  <2>14. CASE AddTimer(r)
    BY <2>1, <2>14 DEF AddTimer, ResetTimer
  <2>15. CASE TimedOutNotHandled(r)
    BY <2>1, <2>15 DEF TimedOutNotHandled
  <2>16. CASE EndIndex(r)
    BY <2>1, <2>16 DEF EndIndex, EndTag, Acquire, Free
  <2>17. CASE RequeueIndex(r)
    BY <2>1, <2>17 DEF RequeueIndex, EndTag, Acquire, Free
  <2>18. CASE EndClear(r)
    BY <2>1, <2>18 DEF EndClear
  <2>19. CASE RequeueClear(r)
    BY <2>1, <2>19 DEF RequeueClear
  <2> QED
    BY <1>1, <2>2, <2>3, <2>4, <2>5, <2>6, <2>7, <2>8, <2>9, <2>10,
       <2>11, <2>12, <2>13, <2>14, <2>15, <2>16, <2>17, <2>18, <2>19 DEF Step
<1>2. ASSUME NEW d \in 0..RealMaxDepth + 1, ResizeTags(d) PROVE OneWinner' /\ NeverLost'
  BY <1>2 DEF ResizeTags, OneWinner, NeverLost
<1> QED
  BY <1>1, <1>2 DEF Next

-----------------------------------------------------------------------------
\* Every step of the submitters, the timer, the driver and the softirq keeps the
\* invariant.
LEMMA NextInv == IInv /\ [Next]_vars => IInv'
<1>1. CASE IInv /\ Next
  BY <1>1, TypeStep, TagStep, LockStep, WinnerStep DEF IInv
<1>2. CASE IInv /\ UNCHANGED vars
  <2>1. CompleteTypeOK' /\ MyTagOK'
    BY <1>2 DEF IInv, vars, CompleteTypeOK, MyTagOK
  <2>2. TagsExact'
    <3>1. \A s \in Reqs, t \in Tags : Owns(s, t)' <=> Owns(s, t)
      BY <1>2 DEF vars, Owns
    <3> QED
      BY <1>2, <3>1 DEF IInv, vars, TagsExact
  <2>3. OneWinner' /\ NeverLost' /\ LockHeld'
    BY <1>2 DEF IInv, vars, OneWinner, NeverLost, LockHeld
  <2> QED
    BY <2>1, <2>2, <2>3 DEF IInv
<1> QED
  BY <1>1, <1>2

\* The inductive invariant holds in every reachable state.
LEMMA Inductive == Spec => []IInv
  BY InitInv, NextInv, PTL DEF Spec

\* Type correctness of the tag map, the positions and the completion lists.
THEOREM TypeCorrect == Spec => []CompleteTypeOK
<1>1. IInv => CompleteTypeOK
  BY DEF IInv
<1> QED
  BY <1>1, Inductive, PTL

\* Queues that share a tag map without sharing a lock never give one tag to
\* two requests, never lose a tag, and blk_queue_find_tag finds the request
\* of every tag in use.
THEOREM TagMapExact == Spec => []TagsExact
<1>1. IInv => TagsExact
  BY DEF IInv
<1> QED
  BY <1>1, Inductive, PTL

\* REQ_ATOM_COMPLETE arbitrates: the timer and the completion interrupt never
\* both own a request, also when the interrupt comes between the two steps of
\* blk_rq_timed_out that let a request go.
THEOREM SingleWinner == Spec => []OneWinner
<1>1. IInv => OneWinner
  BY DEF IInv
<1> QED
  BY <1>1, Inductive, PTL

\* No started request is forgotten: unless it is completed or being recovered,
\* its timer is running, or about to by the holder of the queue's lock.
THEOREM NoneForgotten == Spec => []NeverLost
<1>1. IInv => NeverLost
  BY DEF IInv
<1> QED
  BY <1>1, Inductive, PTL
=============================================================================
