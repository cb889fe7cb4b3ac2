------------------------- MODULE ComponentInvariant -------------------------
(***************************************************************************)
(* The inductive invariant of Component and what it rests on: the types of *)
(* all variables are kept, and each operation leaves the mutex, the phase  *)
(* of the worker and the count in one of a few shapes.                     *)
(***************************************************************************)
EXTENDS Component, TLAPS

\* about to poll the blocking future
BlockingPoll == {"run_blocking", "unblock"}
\* the future has been polled, its result is not yet acted upon
BlockingPolled == {"ran_blocking", "unblocked"}
\* in inner_execute of a component that is not blocked
Running == {"control", "handle", "timers", "messages", "events", "more", "finish"}
\* inside the mutex
Holding == BlockingPoll \cup BlockingPolled \cup Running

\* The worker that holds mutable_core is the one inside inner_execute, items
\* are counted only there, and only a panic poisons the mutex.
Mutex ==
  /\ \A w \in Workers : pc[w] \in Holding <=> holder = w
  /\ holder = NoWorker => count = 0
  /\ poisoned => holder = NoWorker
  /\ \A w \in Workers : pc[w] \in {"panicked", "poisoned"} => poisoned

\* a sender that decided to schedule the component has not finished
Sending ==
  \A s \in Senders : spc[s] = "idle" => decision[s] # "Schedule"

\* What the code inside the mutex knows of the lifecycle flag and the blocking
\* future: nobody else changes them meanwhile.
Phases ==
  \A w \in Workers :
    /\ pc[w] \in BlockingPoll => life = "Blocking" /\ future # "None"
    /\ pc[w] \in BlockingPolled /\ current = "Pending" => life = "Blocking" /\ future # "None"
    /\ pc[w] \in BlockingPolled /\ current = "Ok" => life # "Blocking" /\ future = "None"
    /\ pc[w] \in BlockingPolled /\ current # "Pending" => future = "None"
    /\ pc[w] \in Running => life # "Blocking" /\ future = "None"
    /\ pc[w] = "handle" => current \in ControlEvents
    /\ pc[w] = "handle" /\ current = "Start" => life = "Active"

\* The inductive invariant.
IInv == TypeOK /\ Mutex /\ Sending /\ Phases /\ BlockingAgrees

\* the types of what the component told the outside
ReportedType == recovery \in {"default", "custom", "poisoned"} /\ told \in Reports /\ failed \in BOOLEAN

\* Notifying the supervisor, reporting a fault and a panic of the recovery
\* function keep types.
LEMMA NotifyType ==
  ASSUME NEW kind \in Reports, TypeOK
  PROVE  /\ Notify(kind) => told' \in Reports
         /\ ReportFault \/ RecoveryPanics =>
              recovery' \in {"default", "custom", "poisoned"} /\ told' \in Reports
BY DEF Notify, ReportFault, RecoveryPanics, TypeOK, Reports

\* Moving a worker keeps pc well typed.
LEMMA GotoType ==
  ASSUME NEW w \in Workers, NEW l \in Locations, TypeOK, Goto(w, l)
  PROVE  pc' \in [Workers -> Locations]
BY DEF Goto, TypeOK

\* Returning from inner_execute releases the mutex and types are kept.
LEMMA ReturnType ==
  ASSUME NEW w \in Workers, NEW d, TypeOK, Return(w, d)
  PROVE  /\ holder' = NoWorker /\ count' = 0 /\ current' = "None"
         /\ pc' \in [Workers -> Locations]
BY DEF Return, Goto, TypeOK, AfterExecute, Locations

\* The results that end an execution keep types and release the mutex.
LEMMA EndType ==
  ASSUME NEW w \in Workers, NEW r, TypeOK, EndExecution(w, r)
  PROVE  /\ life' \in Lifecycle
         /\ holder' = NoWorker /\ poisoned' \in BOOLEAN /\ count' = 0 /\ current' = "None"
         /\ pc' \in [Workers -> Locations]
         /\ ReportedType'
<1>0. "Killed" \in Reports /\ "SystemPoisoned" \in Reports
  BY DEF Reports
<1>1. ReportedType /\ poisoned \in BOOLEAN /\ life \in Lifecycle
  BY Zenon DEF TypeOK, ReportedType
<1>2. ASSUME Unwind(w)
      PROVE  /\ holder' = NoWorker /\ poisoned' \in BOOLEAN /\ count' = 0 /\ current' = "None"
             /\ pc' \in [Workers -> Locations] /\ failed' \in BOOLEAN
  <2>1. pc' \in [Workers -> Locations]
    BY <1>2 DEF Unwind, Goto, TypeOK, Locations
  <2> QED BY <1>2, <2>1, Zenon DEF Unwind
<1>3. CASE ShutdownFromHandler(w)
  <2>1. life' \in Lifecycle /\ told' \in Reports
    BY <1>0, <1>1, <1>3, NotifyType DEF ShutdownFromHandler, Lifecycle, ReportedType
  <2> QED BY <1>1, <1>2, <1>3, <2>1, ReturnType, ZenonT(40) DEF ShutdownFromHandler, ReportedType
<1>4. CASE HandleRecoverableError(w)
  <2>1. life' \in Lifecycle /\ told' \in Reports /\ recovery' \in {"default", "custom", "poisoned"}
    BY <1>0, <1>4, NotifyType DEF HandleRecoverableError, Lifecycle
  <2> QED BY <1>1, <1>2, <1>4, <2>1, ReturnType, ZenonT(40) DEF HandleRecoverableError, ReportedType
<1>5. CASE HandleUnrecoverableError(w)
  <2>1. life' \in Lifecycle /\ told' \in Reports
    BY <1>0, <1>5 DEF HandleUnrecoverableError, Lifecycle
  <2> QED BY <1>1, <1>5, <2>1, ReturnType, ZenonT(40) DEF HandleUnrecoverableError, ReportedType
<1>6. CASE Unwind(w) /\ UNCHANGED <<life, told, recovery>>
  BY <1>1, <1>2, <1>6, ZenonT(40) DEF ReportedType
<1> QED BY <1>3, <1>4, <1>5, <1>6, Zenon DEF EndExecution

\* set_blocking_with_state keeps types.
LEMMA BlockingType ==
  ASSUME NEW w \in Workers, NEW t \in Transitions, TypeOK, SetBlocking(w, t)
  PROVE  /\ life' \in Lifecycle
         /\ future' \in Transitions /\ pendings' \in Nat /\ wakers' \in Nat /\ blocks' \in Nat
         /\ pc' \in [Workers -> Locations]
BY DEF SetBlocking, Goto, TypeOK, Lifecycle, Locations

\* What one poll of the blocking future does, whatever its result means for
\* the supervisor.
LEMMA TaskShape ==
  ASSUME NEW w \in Workers, RunBlockingTask(w)
  PROVE  /\ \/ /\ current' = "Pending" /\ pendings' = pendings + 1
               /\ wakers' \in {n \in 1..WakerBound : n >= wakers}
               /\ UNCHANGED <<life, future, blocks>>
            \/ /\ current' = "Pending" /\ pendings' = 0 /\ blocks' = blocks + 1
               /\ UNCHANGED <<life, future, wakers>>
            \/ /\ current' = "Ok" /\ Transition /\ future' = "None"
               /\ UNCHANGED <<pendings, wakers, blocks>>
            \/ /\ current' \in FutureResults \ {"Ok", "Benign", "BlockOn"} /\ future' = "None"
               /\ UNCHANGED <<pendings, wakers, blocks>>
         /\ UNCHANGED <<holder, poisoned, count>>
BY ZenonT(40) DEF RunBlockingTask

\* Handling a timeout, message or event keeps types.
LEMMA ItemType ==
  ASSUME NEW w \in Workers, NEW next \in Locations, NEW afterBenign \in Locations, TypeOK,
         HandleItem(w, next, afterBenign)
  PROVE  /\ life' \in Lifecycle
         /\ holder' \in Workers \cup {NoWorker} /\ poisoned' \in BOOLEAN
         /\ count' \in Nat /\ current' \in ControlEvents \cup TaskResults \cup {"None"}
         /\ future' \in Transitions \cup {"None"}
         /\ pendings' \in Nat /\ wakers' \in Nat /\ blocks' \in Nat
         /\ pc' \in [Workers -> Locations]
         /\ ReportedType'
<1> PICK r \in HandlerResults :
      \/ /\ r \in {"Ok", "Benign"}
         /\ count' = count + 1
         /\ Goto(w, IF r = "Ok" THEN next ELSE afterBenign)
         /\ UNCHANGED <<life, holder, poisoned, current, blocking, reported>>
      \/ /\ r = "BlockOn"
         /\ SetBlocking(w, "Active")
         /\ count' = count + 1
         /\ UNCHANGED <<holder, poisoned, current, reported>>
      \/ EndExecution(w, r) /\ UNCHANGED blocking
  BY DEF HandleItem
<1>0. ReportedType
  BY Zenon DEF TypeOK, ReportedType
<1>1. CASE r \in {"Ok", "Benign"} /\ count' = count + 1
           /\ Goto(w, IF r = "Ok" THEN next ELSE afterBenign)
           /\ UNCHANGED <<life, holder, poisoned, current, blocking, reported>>
  BY <1>0, <1>1 DEF Goto, TypeOK, blocking, reported, ReportedType
<1>2. CASE SetBlocking(w, "Active") /\ count' = count + 1
           /\ UNCHANGED <<holder, poisoned, current, reported>>
  BY <1>0, <1>2, BlockingType DEF TypeOK, Transitions, reported, ReportedType
<1>3. CASE EndExecution(w, r) /\ UNCHANGED blocking
  BY <1>3, EndType DEF TypeOK, blocking
<1> QED BY <1>1, <1>2, <1>3, Zenon

\* Every step keeps the types of all variables.
LEMMA TypeStep == IInv /\ [Next]_vars => TypeOK'
<1> SUFFICES ASSUME IInv, [Next]_vars PROVE TypeOK'
  OBVIOUS
<1> TypeOK BY DEF IInv
<1>1. ASSUME NEW s \in Senders, NEW i \in Items, IncrementWork(s, i) PROVE TypeOK'
  BY <1>1, ConstantsAssumption DEF IncrementWork, TypeOK, queues, lock, blocking, outside, reported, IntoSchedulingDecision
<1>2. ASSUME NEW s \in Senders, Push(s) PROVE TypeOK'
  <2>1. ctrlQueue' \in Seq(ControlEvents)
    BY <1>2 DEF Push, TypeOK
  <2>2. spc' \in [Senders -> {"idle", "push", "schedule"}]
        /\ decision' \in [Senders -> {"Schedule", "AlreadyScheduled", "NoWork", "None"}]
    BY <1>2, Zenon DEF Push, TypeOK
  <2> QED BY <1>2, <2>1, <2>2 DEF Push, TypeOK, word, lock, blocking, outside, reported
<1>3. ASSUME NEW s \in Senders, Schedule(s) PROVE TypeOK'
  BY <1>3 DEF Schedule, TypeOK, word, queues, lock, blocking, outside, reported
<1>4. ASSUME NEW w \in Workers, Execute(w) PROVE TypeOK'
  <2>1. CASE TakeTask(w) \/ Reschedule(w) \/ LoadState(w)
    <3>1. pc' \in [Workers -> Locations]
      BY <2>1, SMTT(40), SMTT(60) DEF TakeTask, Reschedule, LoadState, TypeOK, Goto, Locations
    <3>2. runQueue' \in Nat
      BY <2>1 DEF TakeTask, Reschedule, LoadState, TypeOK
    <3>3. UNCHANGED <<word, queues, lock, blocking, sending, outside>>
      BY <2>1 DEF TakeTask, Reschedule, LoadState
    <3> QED BY <3>1, <3>2, <3>3 DEF TypeOK, word, queues, lock, blocking, sending, outside, reported
  <2>2. CASE Lock(w) \/ LockPoisoned(w)
    <3>1. pc' \in [Workers -> Locations]
      BY <2>2, SMTT(40), SMTT(60) DEF Lock, LockPoisoned, TypeOK, Goto, Locations
    <3>2. holder' \in Workers \cup {NoWorker}
      BY <2>2 DEF Lock, LockPoisoned, TypeOK, lock
    <3>3. UNCHANGED <<word, queues, poisoned, count, current, blocking, runQueue, sending, outside>>
      BY <2>2 DEF Lock, LockPoisoned, lock
    <3> QED BY <3>1, <3>2, <3>3 DEF TypeOK, word, queues, blocking, sending, outside, reported
  <2>3. CASE CatchPanic(w)
    <3>1. life' \in Lifecycle /\ recovery' \in {"default", "custom", "poisoned"} /\ told' \in Reports
      <4>1. "Killed" \in Reports
        BY DEF Reports
      <4> QED BY <2>3, <4>1, NotifyType DEF CatchPanic, Lifecycle
    <3>2. pc' \in [Workers -> Locations]
      BY <2>3, GotoType DEF CatchPanic, Locations
    <3> QED BY <2>3, <3>1, <3>2 DEF CatchPanic, TypeOK, queues, lock, blocking, sending
  <2>4. CASE RunBlocking(w) \/ Unblock(w)
    <3>1. pc' \in [Workers -> Locations]
      BY <2>4 DEF RunBlocking, Unblock, TypeOK, Goto, Locations
    <3>2. RunBlockingTask(w)
      BY <2>4 DEF RunBlocking, Unblock
    <3>3. life' \in Lifecycle /\ told' \in Reports
      <4>1. {"Started", "Stopped", "Killed"} \subseteq Reports
        BY DEF Reports
      <4> QED BY <3>2, <4>1, NotifyType, ZenonT(40) DEF RunBlockingTask, Transition, TypeOK, Lifecycle
    <3>6. failed' \in BOOLEAN /\ recovery' \in {"default", "custom", "poisoned"}
      BY <3>2, Zenon DEF RunBlockingTask, TypeOK
    <3>4. current' \in ControlEvents \cup TaskResults \cup {"None"}
      BY <3>2, ConstantsAssumption, Zenon DEF RunBlockingTask, TaskResults, AllResults
    <3>5. future' \in Transitions \cup {"None"} /\ pendings' \in Nat /\ wakers' \in Nat /\ blocks' \in Nat
      BY <3>2, TaskShape, ConstantsAssumption, SMTT(40), SMTT(60) DEF TypeOK
    <3> QED BY <3>1, <3>2, <3>3, <3>4, <3>5, <3>6 DEF RunBlockingTask, TypeOK, queues, sending
  <2>5. CASE FinishBlocking(w)
    BY <2>5, ReturnType, EndType, SMTT(40), SMTT(60) DEF FinishBlocking, TypeOK, ReportedType, queues, blocking, sending, reported
  <2>6. CASE FinishUnblock(w)
    BY <2>6, ReturnType, EndType, SMTT(40), SMTT(60) DEF FinishUnblock, TypeOK, ReportedType, queues, blocking, sending, reported
  <2>7. CASE PopControl(w)
    <3>1. pc' \in [Workers -> Locations]
      BY <2>7 DEF PopControl, TypeOK, Goto, Locations
    <3>2. ctrlQueue' \in Seq(ControlEvents) /\ current' \in ControlEvents
      BY <2>7 DEF PopControl, TypeOK
    <3>3. life' \in Lifecycle /\ count' \in Nat
      BY <2>7 DEF PopControl, TypeOK, Lifecycle
    <3>4. started' \in BOOLEAN
      BY <2>7, Zenon DEF PopControl, TypeOK
    <3> QED BY <2>7, <3>1, <3>2, <3>3, <3>4 DEF PopControl, TypeOK, blocking, sending, reported
  <2>8. CASE HandleControl(w)
    <3> DEFINE Kept == UNCHANGED <<work, queues, runQueue, sending, started>>
    <3>1. Kept
      BY <2>8 DEF HandleControl
    <3>2. CASE ControlDone(w)
      <4>1. life' \in Lifecycle /\ told' \in Reports
        <5>1. {"Started", "Stopped", "Killed"} \subseteq Reports
          BY DEF Reports
        <5> QED BY <3>2, <5>1, NotifyType DEF ControlDone, TypeOK, Lifecycle
      <4>2. pc' \in [Workers -> Locations]
        BY <3>2 DEF ControlDone, Goto, Locations, TypeOK
      <4> QED BY <3>1, <3>2, <4>1, <4>2 DEF ControlDone, TypeOK, queues, blocking, sending
    <3>3. CASE ControlBlocks(w)
      BY <3>1, <3>3, BlockingType DEF ControlBlocks, Transitions, TypeOK, queues, sending, reported
    <3>4. CASE life' = "Destroyed" /\ Notify("Killed") /\ Return(w, "NoWork")
               /\ UNCHANGED <<poisoned, blocking, recovery, failed>>
      BY <3>1, <3>4, ReturnType, NotifyType, SMTT(40), SMTT(60) DEF TypeOK, Lifecycle, Reports, queues, blocking, sending
    <3>5. ASSUME NEW r \in HandlerResults, EndExecution(w, r), UNCHANGED blocking PROVE TypeOK'
      BY <3>1, <3>5, EndType, SMTT(40), SMTT(60) DEF TypeOK, ReportedType, queues, blocking, sending
    <3> QED BY <2>8, <3>2, <3>3, <3>4, <3>5 DEF HandleControl
  <2>9. CASE ControlEmpty(w) \/ NoMessage(w) \/ NoEvent(w)
    <3>1. pc' \in [Workers -> Locations]
      BY <2>9, SMTT(40), SMTT(60) DEF ControlEmpty, NoMessage, NoEvent, TypeOK, Goto, Locations
    <3>2. UNCHANGED <<word, queues, lock, blocking, runQueue, sending, outside>>
      BY <2>9 DEF ControlEmpty, NoMessage, NoEvent
    <3> QED BY <3>1, <3>2 DEF TypeOK, word, queues, lock, blocking, sending, outside, reported
  <2>10. CASE NoTimer(w)
    BY <2>10, GotoType DEF NoTimer, TypeOK, word, lock, blocking, sending, outside, reported, Locations
  <2>11. CASE Finish(w)
    BY <2>11, ReturnType DEF Finish, TypeOK, queues, blocking, sending, outside, reported
  <2>12. CASE FireTimer(w)
    <3>1. HandleItem(w, "timers", "timers") /\ timers' \in Nat
      BY <2>12 DEF FireTimer, TypeOK
    <3>2. UNCHANGED <<work, ctrlQueue, messages, events, runQueue, sending, started>>
      BY <2>12, SMTT(40) DEF FireTimer
    <3> QED BY <3>1, <3>2, ItemType, ZenonT(40) DEF TypeOK, ReportedType, sending, Locations
  <2>13. CASE Receive(w)
    <3>1. HandleItem(w, pc[w], pc[w]) /\ messages' \in Nat /\ pc[w] \in Locations
      BY <2>13 DEF Receive, TypeOK
    <3>2. UNCHANGED <<work, ctrlQueue, timers, events, runQueue, sending, started>>
      BY <2>13 DEF Receive
    <3> QED BY <3>1, <3>2, ItemType, ZenonT(40) DEF TypeOK, ReportedType, sending
  <2>14. CASE HandleEvent(w)
    <3>1. HandleItem(w, "events", "more") /\ events' \in Nat
      BY <2>14 DEF HandleEvent, TypeOK
    <3>2. UNCHANGED <<work, ctrlQueue, timers, messages, runQueue, sending, started>>
      BY <2>14 DEF HandleEvent
    <3> QED BY <3>1, <3>2, ItemType, ZenonT(40) DEF TypeOK, ReportedType, sending, Locations
  <2> QED BY <1>4, <2>1, <2>2, <2>3, <2>4, <2>5, <2>6, <2>7, <2>8, <2>9, <2>10, <2>11, <2>12, <2>13, <2>14 DEF Execute
<1>5. CASE Wake
  BY <1>5 DEF Wake, TypeOK, word, queues, lock, sending, outside, reported
<1>7. CASE SetRecoveryFunction
  BY <1>7 DEF SetRecoveryFunction, TypeOK, word, queues, lock, blocking, sending
<1>6. CASE UNCHANGED vars
  BY <1>6 DEF vars, TypeOK, word, queues, lock, blocking, sending, outside, reported
<1> QED BY <1>1, <1>2, <1>3, <1>4, <1>5, <1>6, <1>7 DEF Next, Deliver

\* An execution that ends the component either leaves it destroyed or faulty
\* with the worker idle, or unwinds and poisons the mutex.
LEMMA EndShape ==
  ASSUME NEW w \in Workers, NEW r, TypeOK, EndExecution(w, r)
  PROVE  /\ holder' = NoWorker /\ count' = 0 /\ current' = "None"
         /\ \/ pc' = [pc EXCEPT ![w] = "idle"] /\ life' \in {"Destroyed", "Faulty"} /\ poisoned' = poisoned
            \/ pc' = [pc EXCEPT ![w] = "panicked"] /\ poisoned' = TRUE
BY SMTT(40), SMTT(60) DEF EndExecution, ShutdownFromHandler, HandleRecoverableError, HandleUnrecoverableError,
  Unwind, Return, AfterExecute, Goto

\* A return releases the mutex and the worker goes where maybe_reschedule
\* sends it.
LEMMA ReturnShape ==
  ASSUME NEW w \in Workers, NEW d, TypeOK, Return(w, d)
  PROVE  /\ holder' = NoWorker /\ count' = 0 /\ current' = "None"
         /\ \E l \in {"reschedule", "execute", "idle"} : pc' = [pc EXCEPT ![w] = l]
BY Zenon DEF Return, AfterExecute, Goto

\* After a handler the worker goes on, polls the future it blocks on, or
\* ends the execution.
LEMMA ItemShape ==
  ASSUME NEW w \in Workers, NEW next, NEW afterBenign, TypeOK,
         HandleItem(w, next, afterBenign)
  PROVE  \/ /\ pc' = [pc EXCEPT ![w] = next] \/ pc' = [pc EXCEPT ![w] = afterBenign]
            /\ count' = count + 1
            /\ UNCHANGED <<life, holder, poisoned, current, future, wakers>>
         \/ /\ pc' = [pc EXCEPT ![w] = "run_blocking"] /\ count' = count + 1
            /\ life' = "Blocking" /\ future' = "Active"
            /\ UNCHANGED <<holder, poisoned, current, wakers>>
         \/ /\ \E r \in HandlerResults : EndExecution(w, r)
            /\ UNCHANGED <<future, wakers>>
BY DEF HandleItem, SetBlocking, Goto, blocking
=============================================================================
