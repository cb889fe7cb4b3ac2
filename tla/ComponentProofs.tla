--------------------------- MODULE ComponentProofs ---------------------------
(***************************************************************************)
(* Proofs about Component for any number of senders and workers and any    *)
(* throughput, message limit, handler results and bounds.                  *)
(*                                                                         *)
(* The properties are not inductive by themselves: what decrement_work     *)
(* subtracts, who may change the lifecycle flag and whether the future and *)
(* the flag agree depend on who is inside the mutex and in which phase of  *)
(* inner_execute.  IInv (ComponentInvariant) says that.  It is proved here *)
(* with the properties that follow from it; CountingProofs,                *)
(* SchedulingProofs and SupervisionProofs show that theirs are preserved   *)
(* by every step from a state of IInv.                                     *)
(***************************************************************************)
EXTENDS ComponentInvariant

\* Every step preserves mutual exclusion.
LEMMA MutexStep == IInv /\ [Next]_vars => Mutex'
<1> SUFFICES ASSUME IInv, [Next]_vars PROVE Mutex'
  OBVIOUS
<1>0. TypeOK /\ Mutex BY DEF IInv
<1> pc \in [Workers -> Locations] BY <1>0 DEF TypeOK
<1> USE DEF Mutex, Holding, BlockingPoll, BlockingPolled, Running
<1>1. CASE UNCHANGED <<lock, pc>>
  BY <1>0, <1>1, SMTT(40), SMTT(60) DEF lock
<1>2. ASSUME NEW w \in Workers, Execute(w) PROVE Mutex'
  <2>1. CASE TakeTask(w) \/ Reschedule(w) \/ LoadState(w) \/ CatchPanic(w)
    BY <1>0, <2>1 DEF TakeTask, Reschedule, LoadState, CatchPanic, Goto, lock
  <2>2. CASE Lock(w) \/ LockPoisoned(w)
    BY <1>0, <2>2, ConstantsAssumption, SMTT(40), SMTT(60) DEF Lock, LockPoisoned, lock, Goto
  <2>3. CASE RunBlocking(w) \/ Unblock(w)
    <3>1. RunBlockingTask(w) /\ pc[w] \in BlockingPoll
          /\ (pc' = [pc EXCEPT ![w] = "ran_blocking"] \/ pc' = [pc EXCEPT ![w] = "unblocked"])
      BY <2>3 DEF RunBlocking, Unblock, Goto
    <3>2. UNCHANGED <<holder, poisoned, count>>
      BY <3>1, TaskShape, Zenon
    <3> QED BY <1>0, <3>1, <3>2
  <2>4. ASSUME NEW r, EndExecution(w, r), pc[w] \in Holding PROVE Mutex'
    <3>1. /\ holder' = NoWorker /\ count' = 0
          /\ \/ pc' = [pc EXCEPT ![w] = "idle"] /\ poisoned' = poisoned
             \/ pc' = [pc EXCEPT ![w] = "panicked"] /\ poisoned' = TRUE
      BY <1>0, <2>4, EndShape, Zenon
    <3> QED BY <1>0, <2>4, <3>1, ConstantsAssumption
  <2>5. ASSUME NEW d, Return(w, d), UNCHANGED poisoned, pc[w] \in Holding PROVE Mutex'
    <3>1. /\ holder' = NoWorker /\ count' = 0
          /\ \E l \in {"reschedule", "execute", "idle"} : pc' = [pc EXCEPT ![w] = l]
      BY <1>0, <2>5, ReturnShape
    <3> QED BY <1>0, <2>5, <3>1, ConstantsAssumption
  <2>6. CASE FinishBlocking(w) \/ FinishUnblock(w) \/ Finish(w)
    BY <2>4, <2>5, <2>6 DEF FinishBlocking, FinishUnblock, Finish
  <2>7. CASE PopControl(w) \/ ControlEmpty(w) \/ NoTimer(w) \/ NoMessage(w) \/ NoEvent(w)
    <3>1. /\ \E l \in Running : pc' = [pc EXCEPT ![w] = l]
          /\ pc[w] \in Running /\ UNCHANGED <<holder, poisoned>>
      BY <2>7 DEF PopControl, ControlEmpty, NoTimer, NoMessage, NoEvent, Goto, lock
    <3> QED BY <1>0, <3>1, ConstantsAssumption
  <2>8. CASE HandleControl(w)
    <3>1. CASE ControlDone(w) \/ ControlBlocks(w)
      BY <1>0, <2>8, <3>1, SMTT(40), SMTT(60) DEF HandleControl, ControlDone, ControlBlocks, SetBlocking, Goto
    <3> QED BY <2>4, <2>5, <2>8, <3>1, SMTT(40), SMTT(60) DEF HandleControl
  <2>9. ASSUME NEW next \in Running, NEW afterBenign \in Running,
               HandleItem(w, next, afterBenign), pc[w] \in Running PROVE Mutex'
    <3>1. \/ /\ pc' = [pc EXCEPT ![w] = next] \/ pc' = [pc EXCEPT ![w] = afterBenign]
             /\ UNCHANGED <<holder, poisoned>>
          \/ /\ pc' = [pc EXCEPT ![w] = "run_blocking"]
             /\ UNCHANGED <<holder, poisoned>>
          \/ \E r \in HandlerResults : EndExecution(w, r)
      BY <1>0, <2>9, ItemShape, SMTT(40), SMTT(60)
    <3> QED BY <1>0, <2>4, <2>9, <3>1, ConstantsAssumption
  <2>10. CASE FireTimer(w) \/ Receive(w) \/ HandleEvent(w)
    <3>1. CASE FireTimer(w)
      BY <2>9, <3>1, SMTT(40), SMTT(60) DEF FireTimer
    <3>2. CASE Receive(w)
      BY <2>9, <3>2, SMTT(40), SMTT(60) DEF Receive
    <3>3. CASE HandleEvent(w)
      BY <2>9, <3>3, SMTT(40), SMTT(60) DEF HandleEvent
    <3> QED BY <2>10, <3>1, <3>2, <3>3
  <2> QED BY <1>2, <2>1, <2>2, <2>3, <2>6, <2>7, <2>8, <2>10, SMTT(40) DEF Execute
<1> QED BY <1>1, <1>2 DEF Next, Deliver, IncrementWork, Push, Schedule, Wake, SetRecoveryFunction, vars, lock

\* Every step preserves the agreement of flag, future and phase.
LEMMA PhasesStep == IInv /\ [Next]_vars => Phases' /\ BlockingAgrees'
<1> SUFFICES ASSUME IInv, [Next]_vars PROVE Phases' /\ BlockingAgrees'
  OBVIOUS
<1>0. TypeOK /\ Mutex /\ Phases /\ BlockingAgrees BY DEF IInv
<1> pc \in [Workers -> Locations] /\ future \in Transitions \cup {"None"} BY <1>0 DEF TypeOK
<1> USE DEF Mutex, Phases, BlockingAgrees, Holding, BlockingPoll, BlockingPolled, Running
<1>1. CASE UNCHANGED <<life, lock, future, pc>>
  BY <1>0, <1>1, SMTT(40) DEF lock
<1>2. ASSUME NEW w \in Workers, Execute(w) PROVE Phases' /\ BlockingAgrees'
  <2>1. CASE TakeTask(w) \/ Reschedule(w) \/ LoadState(w)
    BY <1>0, <2>1, SMTT(40), SMTT(60) DEF TakeTask, Reschedule, LoadState, Goto, word, lock, blocking
  <2>2. CASE CatchPanic(w)
    BY <1>0, <2>2, ConstantsAssumption, SMTT(40), SMTT(60) DEF CatchPanic, Goto, word, lock, blocking
  <2>3. CASE Lock(w) \/ LockPoisoned(w)
    BY <1>0, <2>3, ConstantsAssumption, SMTT(40), SMTT(60) DEF Lock, LockPoisoned, Goto, word, lock, blocking
  <2>4. CASE RunBlocking(w) \/ Unblock(w)
    <3>1. RunBlockingTask(w)
      BY <2>4 DEF RunBlocking, Unblock
    <3>2. /\ pc' = [pc EXCEPT ![w] = "ran_blocking"] \/ pc' = [pc EXCEPT ![w] = "unblocked"]
          /\ pc[w] \in BlockingPoll
      BY <2>4 DEF RunBlocking, Unblock, Goto
    <3>3. \/ current' = "Pending" /\ UNCHANGED <<life, future>>
          \/ current' = "Ok" /\ life' # "Blocking" /\ future' = "None"
          \/ current' \notin {"Ok", "Pending"} /\ future' = "None"
      BY <3>1, TaskShape, ConstantsAssumption, SMTT(40), SMTT(60) DEF Transition, AllResults
    <3>4. holder = w /\ holder' = w /\ UNCHANGED poisoned
      BY <1>0, <3>1, <3>2 DEF RunBlockingTask
    <3> QED BY <1>0, <3>2, <3>3, <3>4, ConstantsAssumption
  <2>5. ASSUME NEW r, EndExecution(w, r), pc[w] \in Holding, future' = "None"
        PROVE  Phases' /\ BlockingAgrees'
    <3>1. /\ holder' = NoWorker /\ count' = 0 /\ current' = "None"
          /\ \/ /\ pc' = [pc EXCEPT ![w] = "idle"] /\ poisoned' = poisoned
                /\ life' \in {"Destroyed", "Faulty"}
             \/ pc' = [pc EXCEPT ![w] = "panicked"] /\ poisoned' = TRUE
      BY <1>0, <2>5, EndShape, ZenonT(40)
    <3> QED BY <1>0, <2>5, <3>1
  <2>6. ASSUME NEW d, Return(w, d), UNCHANGED poisoned, pc[w] \in Holding,
               life' = "Blocking" <=> future' # "None"
        PROVE Phases' /\ BlockingAgrees'
    <3>1. /\ holder' = NoWorker /\ count' = 0 /\ current' = "None"
          /\ \E l \in {"reschedule", "execute", "idle"} : pc' = [pc EXCEPT ![w] = l]
      BY <1>0, <2>6, ReturnShape
    <3> QED BY <1>0, <2>6, <3>1
  <2>7. CASE FinishBlocking(w) \/ FinishUnblock(w)
    <3>1. CASE EndExecution(w, current)
      <4>1. current # "Pending"
        BY <3>1, SMTT(40), SMTT(60) DEF EndExecution
      <4> QED BY <1>0, <2>5, <2>7, <3>1, <4>1 DEF FinishBlocking, FinishUnblock, blocking
    <3>2. ASSUME NEW d, current \in {"Pending", "Ok"}, Return(w, d), UNCHANGED <<life, poisoned>>
          PROVE  Phases' /\ BlockingAgrees'
      BY <1>0, <2>6, <2>7, <3>2, SMTT(40), SMTT(60) DEF FinishBlocking, FinishUnblock, blocking
    <3> QED BY <2>7, <3>1, <3>2, SMTT(40), SMTT(60) DEF FinishBlocking, FinishUnblock
  <2>8. CASE Finish(w)
    BY <1>0, <2>6, <2>8, SMTT(40), SMTT(60) DEF Finish, blocking
  <2>9. CASE PopControl(w)
    <3>1. ctrlQueue \in Seq(ControlEvents)
      BY <1>0 DEF TypeOK
    <3>2. current' \in ControlEvents
      BY <2>9, <3>1 DEF PopControl
    <3> QED BY <1>0, <2>9, <3>2, ConstantsAssumption, SMTT(40), SMTT(60) DEF PopControl, Goto, blocking
  <2>10. CASE ControlEmpty(w) \/ NoTimer(w) \/ NoMessage(w) \/ NoEvent(w)
    <3>1. /\ \E l \in Running \ {"handle"} : pc' = [pc EXCEPT ![w] = l]
          /\ pc[w] \in Running /\ UNCHANGED <<life, holder, poisoned, current, future>>
      <4>1. CASE ControlEmpty(w) \/ NoTimer(w)
        BY <4>1, SMTT(40), SMTT(60) DEF ControlEmpty, NoTimer, Goto, word, lock, blocking
      <4>2. CASE NoMessage(w) \/ NoEvent(w)
        BY <4>2, SMTT(40), SMTT(60) DEF NoMessage, NoEvent, Goto, word, lock, blocking
      <4> QED BY <2>10, <4>1, <4>2, Zenon
    <3> QED BY <1>0, <3>1
  <2>11. CASE HandleControl(w)
    <3>0. pc[w] = "handle"
      BY <2>11 DEF HandleControl
    <3>1. CASE ControlDone(w)
      BY <1>0, <3>0, <3>1, ConstantsAssumption, SMTT(40), SMTT(60) DEF ControlDone, Goto, blocking
    <3>2. CASE ControlBlocks(w)
      BY <1>0, <3>0, <3>2, ConstantsAssumption, SMTT(40), SMTT(60) DEF ControlBlocks, SetBlocking, Goto
    <3>3. CASE life' = "Destroyed" /\ Return(w, "NoWork") /\ UNCHANGED <<poisoned, blocking>>
      BY <1>0, <2>6, <3>0, <3>3, SMTT(40), SMTT(60) DEF blocking
    <3>4. ASSUME NEW r, EndExecution(w, r), UNCHANGED blocking PROVE Phases' /\ BlockingAgrees'
      BY <1>0, <2>5, <3>0, <3>4, SMTT(40), SMTT(60) DEF blocking
    <3> QED BY <2>11, <3>1, <3>2, <3>3, <3>4 DEF HandleControl
  <2>12. ASSUME NEW next \in Running \ {"handle"}, NEW afterBenign \in Running \ {"handle"},
                HandleItem(w, next, afterBenign), pc[w] \in Running
         PROVE  Phases' /\ BlockingAgrees'
    <3>1. \/ /\ pc' = [pc EXCEPT ![w] = next] \/ pc' = [pc EXCEPT ![w] = afterBenign]
             /\ UNCHANGED <<life, holder, poisoned, current, future>>
          \/ /\ pc' = [pc EXCEPT ![w] = "run_blocking"]
             /\ life' = "Blocking" /\ future' = "Active"
             /\ UNCHANGED <<holder, poisoned, current>>
          \/ \E r \in HandlerResults : EndExecution(w, r) /\ future' = future
      BY <1>0, <2>12, ItemShape, SMTT(40), SMTT(60)
    <3> QED BY <1>0, <2>5, <2>12, <3>1, ConstantsAssumption, SMTT(40), SMTT(60)
  <2>13. CASE FireTimer(w) \/ Receive(w) \/ HandleEvent(w)
    BY <2>12, <2>13 DEF FireTimer, Receive, HandleEvent
  <2> QED BY <1>2, <2>1, <2>2, <2>3, <2>4, <2>7, <2>8, <2>9, <2>10, <2>11, <2>13, ZenonT(40) DEF Execute
<1> QED BY <1>1, <1>2 DEF Next, Deliver, IncrementWork, Push, Schedule, Wake, SetRecoveryFunction, vars, lock, word, blocking

\* Every step preserves that a decided schedule is still to be made.
LEMMA SendingStep == IInv /\ [Next]_vars => Sending'
<1> SUFFICES ASSUME IInv, [Next]_vars PROVE Sending'
  OBVIOUS
<1>0. TypeOK /\ Sending BY SMTT(40), SMTT(60) DEF IInv
<1>1. ASSUME NEW s \in Senders, Deliver(s) \/ \E i \in Items : IncrementWork(s, i) PROVE Sending'
  BY <1>0, <1>1 DEF Deliver, IncrementWork, Push, Schedule, Sending, TypeOK
<1>2. CASE UNCHANGED sending
  BY <1>0, <1>2, SMTT(40) DEF Sending, sending
<1>3. ASSUME NEW w \in Workers, Execute(w) PROVE UNCHANGED sending
  BY <1>3, Zenon DEF Execute, TakeTask, Reschedule, LoadState, Lock, LockPoisoned, CatchPanic, RunBlocking,
    FinishBlocking, Unblock, FinishUnblock, RunBlockingTask, PopControl, HandleControl,
    ControlEmpty, FireTimer, NoTimer, Receive, NoMessage, HandleEvent, NoEvent, Finish
<1> QED BY <1>1, <1>2, <1>3 DEF Next, Wake, SetRecoveryFunction, vars

\* The inductive invariant holds of a newly created component.
LEMMA InitIInv == Init => IInv
<1> SUFFICES ASSUME Init PROVE IInv
  OBVIOUS
<1>1. TypeOK
  <2>1. life \in Lifecycle /\ poisoned \in BOOLEAN /\ started \in BOOLEAN
    BY Zenon DEF Init, Lifecycle
  <2>2. pc \in [Workers -> Locations]
    BY DEF Init, Locations
  <2>3. ctrlQueue \in Seq(ControlEvents)
    BY DEF Init
  <2>4. ReportedType
    BY Zenon DEF Init, Reports, ReportedType
  <2> QED BY <2>1, <2>2, <2>3, <2>4 DEF Init, TypeOK, ReportedType
<1>2. Mutex /\ Phases /\ BlockingAgrees /\ Sending
  BY ConstantsAssumption DEF Init, Mutex, Phases, BlockingAgrees, Sending, BlockingPoll,
    BlockingPolled, Running, Holding
<1> QED BY <1>1, <1>2 DEF IInv

\* The inductive invariant holds in every reachable state.
LEMMA IInvAlways == Spec => []IInv
<1>1. Init => IInv
  BY InitIInv
<1>2. IInv /\ [Next]_vars => IInv'
  BY TypeStep, MutexStep, PhasesStep, SendingStep DEF IInv
<1> QED BY <1>1, <1>2, PTL DEF Spec

\* Every variable keeps its type; in particular no queue is popped when it is
\* empty, whatever the workers and senders interleave.
THEOREM TypeCorrect == Spec => []TypeOK
<1>1. IInv => TypeOK
  BY DEF IInv
<1> QED BY <1>1, IInvAlways, PTL

\* Outside executions the BLOCKING flag and the blocking future agree.
THEOREM BlockingAgreement == Spec => []BlockingAgrees
<1>1. IInv => BlockingAgrees
  BY SMTT(40) DEF IInv
<1> QED BY <1>1, IInvAlways, PTL

\* No step takes anything from a queue of a blocked component (the first
\* check of inner_execute).
THEOREM BlockingSuspends == Spec => SuspendedWhileBlocking
<1>1. IInv /\ [Next]_vars => [life = "Blocking" => /\ Len(ctrlQueue') >= Len(ctrlQueue)
                                                   /\ timers' >= timers
                                                   /\ messages' >= messages /\ events' >= events]_vars
  <2> SUFFICES ASSUME IInv, Next, life = "Blocking"
               PROVE  /\ Len(ctrlQueue') >= Len(ctrlQueue)
                      /\ timers' >= timers
                      /\ messages' >= messages /\ events' >= events
    OBVIOUS
  <2>0. /\ TypeOK /\ Phases
    BY DEF IInv
  <2>t. /\ timers \in Nat /\ messages \in Nat /\ events \in Nat
        /\ ctrlQueue \in Seq(ControlEvents) /\ Len(ctrlQueue) \in Nat
    BY <2>0 DEF TypeOK
  <2>1. CASE UNCHANGED queues
    BY <2>1, <2>t, SMTT(40) DEF queues
  <2>2. ASSUME NEW s \in Senders, Push(s)
        PROVE  /\ Len(ctrlQueue') >= Len(ctrlQueue)
               /\ timers' >= timers
               /\ messages' >= messages /\ events' >= events
    <3>1. Len(ctrlQueue') >= Len(ctrlQueue)
      BY <2>2, <2>t, SMTT(40) DEF Push
    <3> QED BY <2>2, <2>t, <3>1, SMTT(40) DEF Push
  <2>3. ASSUME NEW w \in Workers, Execute(w) PROVE UNCHANGED queues
    <3>1. pc[w] \notin Running
      BY <2>0 DEF Phases
    <3> QED BY <2>3, <3>1, ZenonT(40) DEF Execute, TakeTask, Reschedule, LoadState, Lock, LockPoisoned, CatchPanic,
      RunBlocking, FinishBlocking, Unblock, FinishUnblock, RunBlockingTask, PopControl,
      HandleControl, ControlEmpty, FireTimer, NoTimer, Receive, NoMessage, HandleEvent, NoEvent,
      Finish, Running
  <2> QED BY <2>1, <2>2, <2>3 DEF Next, Deliver, IncrementWork, Schedule, Wake, SetRecoveryFunction
<1> QED BY <1>1, IInvAlways, PTL DEF Spec, SuspendedWhileBlocking
=============================================================================
