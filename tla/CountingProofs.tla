--------------------------- MODULE CountingProofs ---------------------------
(***************************************************************************)
(* The work count of the lifecycle word covers what is queued, being pushed *)
(* or taken.                                                               *)
(***************************************************************************)
EXTENDS ComponentProofs, FiniteSetTheorems

\* The senders between increment and push can be counted.
LEMMA PushingType == ASSUME TypeOK PROVE IsFiniteSet(Pushing) /\ Cardinality(Pushing) \in Nat
BY ConstantsAssumption, FS_Subset, FS_CardinalityType DEF Pushing

\* Every step preserves the cover of queued and taken items by the count:
\* an increment precedes its push, and a decrement subtracts only what was
\* popped.
LEMMA CoveredStep == IInv /\ WorkCovered /\ [Next]_vars => WorkCovered'
<1> SUFFICES ASSUME IInv, WorkCovered, [Next]_vars PROVE WorkCovered'
  OBVIOUS
<1>0. TypeOK /\ Mutex BY DEF IInv
<1>t. work \in Int /\ timers \in Nat /\ messages \in Nat /\ events \in Nat /\ count \in Nat
  BY <1>0 DEF TypeOK
<1>q. ctrlQueue \in Seq(ControlEvents)
  BY <1>0 DEF TypeOK
<1>c. Cardinality(Pushing) \in Nat /\ Len(ctrlQueue) \in Nat
  BY <1>0, <1>q, PushingType
<1>n. Queued \in Nat
  BY <1>t, <1>c DEF Queued
<1>1. ASSUME NEW s \in Senders, NEW i \in Items, IncrementWork(s, i) PROVE WorkCovered'
  <2>1. Pushing' = Pushing \cup {s} /\ s \notin Pushing
    BY <1>0, <1>1 DEF IncrementWork, Pushing, TypeOK
  <2>2. Cardinality(Pushing') = Cardinality(Pushing) + 1
    BY <1>0, <2>1, PushingType, FS_AddElement, ZenonT(40)
  <2> QED BY <1>t, <1>c, <1>1, <2>2, SMTT(40) DEF IncrementWork, WorkCovered, Queued, queues, lock
<1>2. ASSUME NEW s \in Senders, Push(s) PROVE WorkCovered'
  <2>1. Pushing' = Pushing \ {s} /\ s \in Pushing
    BY <1>0, <1>2 DEF Push, Pushing, TypeOK
  <2>2. Cardinality(Pushing') = Cardinality(Pushing) - 1
    BY <1>0, <2>1, PushingType, FS_RemoveElement
  <2>3. Queued' <= Queued + 1
    <3>1. CASE item[s] \in ControlEvents
      <4>1. Len(ctrlQueue') = Len(ctrlQueue) + 1
        BY <1>2, <1>q, <3>1 DEF Push
      <4> QED BY <1>2, <1>t, <1>c, <3>1, <4>1, SMTT(40), SMTT(60) DEF Push, Queued, ControlEvents
    <3>2. CASE item[s] \notin ControlEvents
      <4>1. Len(ctrlQueue') = Len(ctrlQueue)
        BY <1>2, <3>2 DEF Push
      <4>2. \/ timers' = timers + 1 /\ UNCHANGED <<messages, events>>
            \/ messages' = messages + 1 /\ UNCHANGED <<timers, events>>
            \/ events' = events + 1 /\ UNCHANGED <<timers, messages>>
            \/ UNCHANGED <<timers, messages, events>>
        BY <1>2 DEF Push
      <4> QED BY <1>t, <1>c, <4>1, <4>2 DEF Queued
    <3> QED BY <3>1, <3>2
  <2>4. Queued' \in Int /\ Queued \in Int
    <3>1. Len(ctrlQueue') \in Nat
      BY <1>2, <1>q, <1>c DEF Push
    <3> QED BY <1>2, <1>t, <1>c, <3>1, SMTT(40) DEF Push, Queued
  <2> QED BY <1>t, <1>c, <1>2, <2>2, <2>3, <2>4, SMTT(40), SMTT(60) DEF Push, WorkCovered, word, lock
<1>3. ASSUME NEW s \in Senders, Schedule(s) PROVE WorkCovered'
  <2>1. Pushing' = Pushing
    BY <1>0, <1>3, SMTT(40) DEF Schedule, Pushing, TypeOK
  <2> QED BY <1>3, <2>1 DEF Schedule, WorkCovered, Queued, word, queues, lock
<1>4. ASSUME NEW w \in Workers, Execute(w) PROVE WorkCovered'
  <2>0. Pushing' = Pushing
    BY <1>4, Zenon DEF Pushing, sending, Execute, TakeTask, Reschedule, LoadState, Lock, LockPoisoned, CatchPanic,
      RunBlocking, FinishBlocking, Unblock, FinishUnblock, RunBlockingTask, PopControl,
      HandleControl, ControlEmpty, FireTimer, NoTimer, Receive, NoMessage, HandleEvent, NoEvent, Finish
  <2>1. CASE UNCHANGED <<work, count, queues>>
    BY <2>0, <2>1 DEF WorkCovered, Queued, queues
  <2>2. CASE FinishBlocking(w)
    <3>1. count' = 0
      BY <1>0, <2>2, EndShape, ReturnShape, Zenon DEF FinishBlocking
    <3> QED BY <1>t, <1>c, <2>0, <2>2, <3>1 DEF FinishBlocking, WorkCovered, Queued, queues
  <2>3. CASE FinishUnblock(w)
    <3>1. count' = 0
      BY <1>0, <2>3, EndShape, ReturnShape, Zenon DEF FinishUnblock
    <3> QED BY <1>t, <1>c, <2>0, <2>3, <3>1 DEF FinishUnblock, WorkCovered, Queued, queues
  <2>4. CASE Finish(w)
    BY <1>t, <1>c, <2>0, <2>4, SMTT(40), SMTT(60) DEF Finish, Return, WorkCovered, Queued, queues
  <2>5. CASE PopControl(w)
    <3>1. Len(ctrlQueue') = Len(ctrlQueue) - 1
      BY <1>q, <2>5 DEF PopControl
    <3> QED BY <1>t, <1>c, <2>0, <2>5, <3>1, SMTT(40), SMTT(60) DEF PopControl, WorkCovered, Queued
  <2>6. CASE HandleControl(w)
    <3>1. count' = count \/ count' = 0
      BY <1>0, <2>6, EndShape, ReturnShape, ZenonT(40) DEF HandleControl, ControlDone, ControlBlocks
    <3> QED BY <1>t, <1>c, <2>0, <2>6, <3>1, SMTT(40) DEF HandleControl, WorkCovered, Queued, queues
  <2>7. CASE NoTimer(w)
    BY <1>t, <1>c, <2>0, <2>7, SMTT(40), SMTT(60) DEF NoTimer, WorkCovered, Queued, word, lock
  <2>8. ASSUME NEW next, NEW afterBenign, HandleItem(w, next, afterBenign)
        PROVE  count' = count + 1 \/ count' = 0
    BY <1>0, <2>8, ItemShape, EndShape, Zenon
  <2>9. CASE FireTimer(w)
    <3>1. Queued' = Queued - 1
      BY <1>t, <1>c, <2>9 DEF FireTimer, Queued
    <3>2. work' = work /\ (count' = count + 1 \/ count' = 0)
      BY <2>8, <2>9, SMTT(40), SMTT(60) DEF FireTimer
    <3> QED BY <1>t, <1>c, <1>n, <2>0, <3>1, <3>2 DEF WorkCovered
  <2>10. CASE Receive(w)
    <3>1. Queued' = Queued - 1
      BY <1>t, <1>c, <2>10 DEF Receive, Queued
    <3>2. work' = work /\ (count' = count + 1 \/ count' = 0)
      BY <2>8, <2>10, SMTT(40) DEF Receive
    <3> QED BY <1>t, <1>c, <1>n, <2>0, <3>1, <3>2 DEF WorkCovered
  <2>11. CASE HandleEvent(w)
    <3>1. Queued' = Queued - 1
      BY <1>t, <1>c, <2>11 DEF HandleEvent, Queued
    <3>2. work' = work /\ (count' = count + 1 \/ count' = 0)
      BY <2>8, <2>11, SMTT(40) DEF HandleEvent
    <3> QED BY <1>t, <1>c, <1>n, <2>0, <3>1, <3>2 DEF WorkCovered
  <2> QED BY <1>4, <2>1, <2>2, <2>3, <2>4, <2>5, <2>6, <2>7, <2>9, <2>10, <2>11, ZenonT(40)
      DEF Execute, TakeTask, Reschedule, LoadState, Lock, LockPoisoned, CatchPanic, RunBlocking, Unblock,
        RunBlockingTask, ControlEmpty, NoMessage, NoEvent, word, lock
<1>5. CASE Wake \/ SetRecoveryFunction \/ UNCHANGED vars
  BY <1>5, Zenon DEF Wake, SetRecoveryFunction, vars, WorkCovered, Queued, Pushing, word, queues, lock, sending
<1> QED BY <1>1, <1>2, <1>3, <1>4, <1>5 DEF Next, Deliver

\* The work count of the lifecycle word always covers what is queued, being
\* pushed or taken, so decrement_work never underflows and aborts.
THEOREM WorkIsCovered == Spec => []WorkCovered
<1>1. Init => WorkCovered
  <2> SUFFICES ASSUME Init PROVE WorkCovered
    OBVIOUS
  <2>1. Pushing = {}
    BY DEF Init, Pushing
  <2>2. Cardinality(Pushing) = 0
    BY <2>1, FS_EmptySet
  <2>3. Queued = 0 /\ work = 0 /\ count = 0
    BY DEF Init, Queued
  <2> QED BY <2>2, <2>3 DEF WorkCovered
<1> QED BY <1>1, CoveredStep, IInvAlways, PTL DEF Spec
=============================================================================
