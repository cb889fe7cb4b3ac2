-------------------------- MODULE SchedulingProofs --------------------------
(***************************************************************************)
(* A component that has to run is scheduled, and one that is blocked can be *)
(* woken.                                                                  *)
(***************************************************************************)
EXTENDS ComponentProofs

\* How a worker can stop: only by rescheduling, because the component is
\* over, or with one of the three decisions computed from the work count.
LEMMA ExecuteShape ==
  ASSUME NEW w \in Workers, Execute(w), IInv
  PROVE  \/ \E l \in Locations \ {"idle"} : pc' = [pc EXCEPT ![w] = l]
         \/ Reschedule(w) \/ (LoadState(w) /\ Over) \/ CatchPanic(w)
         \/ /\ pc' = [pc EXCEPT ![w] = "idle"] /\ pc[w] \in Holding
            /\ life' \in {"Destroyed", "Faulty"}
         \/ Finish(w) \/ FinishBlocking(w) \/ FinishUnblock(w)
<1>0. TypeOK /\ Mutex BY DEF IInv
<1>8. CASE Reschedule(w) \/ CatchPanic(w)
  BY <1>8, Zenon
<1> USE DEF Locations, Goto, Holding, BlockingPoll, BlockingPolled, Running
<1>1. ASSUME NEW r, EndExecution(w, r), pc[w] \in Holding
      PROVE  \/ \E l \in Locations \ {"idle"} : pc' = [pc EXCEPT ![w] = l]
             \/ /\ pc' = [pc EXCEPT ![w] = "idle"] /\ pc[w] \in Holding
                /\ life' \in {"Destroyed", "Faulty"}
  BY <1>0, <1>1, EndShape, ZenonT(40)
<1>2. CASE TakeTask(w) \/ LoadState(w) \/ Lock(w) \/ LockPoisoned(w)
  <2>1. CASE TakeTask(w)
    <3>1. pc' = [pc EXCEPT ![w] = "execute"]
      BY <2>1 DEF TakeTask
    <3> QED BY <3>1, Zenon
  <2>2. CASE LoadState(w)
    BY <2>2, ZenonT(40) DEF LoadState, Over
  <2>3. CASE Lock(w) \/ LockPoisoned(w)
    BY <2>3 DEF Lock, LockPoisoned
  <2> QED BY <1>2, <2>1, <2>2, <2>3
<1>3. CASE RunBlocking(w) \/ Unblock(w)
  BY <1>3, SMTT(40), SMTT(60) DEF RunBlocking, Unblock
<1>4. CASE PopControl(w) \/ ControlEmpty(w) \/ NoTimer(w) \/ NoMessage(w) \/ NoEvent(w)
  BY <1>4, SMTT(40), SMTT(60) DEF PopControl, ControlEmpty, NoTimer, NoMessage, NoEvent
<1>5. CASE HandleControl(w)
  <2>1. CASE ControlDone(w) \/ ControlBlocks(w)
    BY <2>1 DEF ControlDone, ControlBlocks, SetBlocking
  <2>2. CASE Return(w, "NoWork") /\ life' = "Destroyed"
    BY <1>5, <2>2 DEF Return, AfterExecute, HandleControl
  <2> QED BY <1>1, <1>5, <2>1, <2>2, SMTT(40), SMTT(60) DEF HandleControl
<1>6. ASSUME NEW next \in Running, NEW afterBenign \in Running,
             HandleItem(w, next, afterBenign), pc[w] \in Running
      PROVE  \/ \E l \in Locations \ {"idle"} : pc' = [pc EXCEPT ![w] = l]
             \/ /\ pc' = [pc EXCEPT ![w] = "idle"] /\ pc[w] \in Holding
                /\ life' \in {"Destroyed", "Faulty"}
  <2>1. \/ /\ pc' = [pc EXCEPT ![w] = next] \/ pc' = [pc EXCEPT ![w] = afterBenign]
        \/ pc' = [pc EXCEPT ![w] = "run_blocking"]
        \/ \E r \in HandlerResults : EndExecution(w, r)
    BY <1>0, <1>6, ItemShape, SMTT(40), SMTT(60)
  <2> QED BY <1>1, <1>6, <2>1
<1>7. CASE FireTimer(w) \/ Receive(w) \/ HandleEvent(w)
  BY <1>6, <1>7 DEF FireTimer, Receive, HandleEvent
<1> QED BY <1>2, <1>3, <1>4, <1>5, <1>7, <1>8, Zenon DEF Execute

\* Every step preserves NoLostWakeup: the increment that raises the count
\* from zero schedules, and an execution that leaves a positive count behind
\* reschedules or resumes.
LEMMA WakeupStep == IInv /\ NoLostWakeup /\ [Next]_vars => NoLostWakeup'
<1> SUFFICES ASSUME IInv, NoLostWakeup, [Next]_vars,
                    life' \in {"Active", "Passive"}, work' > 0
             PROVE  Scheduled'
  BY DEF NoLostWakeup
<1>0. TypeOK /\ Sending /\ Phases BY DEF IInv
<1>t. /\ work \in Int /\ count \in Nat /\ runQueue \in Nat /\ pc \in [Workers -> Locations]
      /\ decision \in [Senders -> {"Schedule", "AlreadyScheduled", "NoWork", "None"}]
  BY <1>0 DEF TypeOK
<1>1. ASSUME NEW s \in Senders, NEW i \in Items, IncrementWork(s, i) PROVE Scheduled'
  <2>1. CASE work = 0
    BY <1>1, <1>t, <2>1 DEF IncrementWork, IntoSchedulingDecision, Scheduled
  <2>2. CASE work # 0
    <3>1. work > 0
      BY <1>1, <1>t, <2>2 DEF IncrementWork
    <3>2. Scheduled
      BY <1>1, <3>1 DEF IncrementWork, NoLostWakeup
    <3> QED BY <1>0, <1>1, <1>t, <3>2 DEF IncrementWork, Scheduled, Sending
  <2> QED BY <2>1, <2>2
<1>2. ASSUME NEW s \in Senders, Push(s) PROVE Scheduled'
  <2>1. Scheduled
    BY <1>2 DEF Push, word, NoLostWakeup
  <2> QED BY <1>2, <1>t, <2>1 DEF Push, Scheduled
<1>3. ASSUME NEW s \in Senders, Schedule(s) PROVE Scheduled'
  BY <1>3, <1>t DEF Schedule, Scheduled
<1>4. ASSUME NEW w \in Workers, Execute(w) PROVE Scheduled'
  <2>1. CASE \E l \in Locations \ {"idle"} : pc' = [pc EXCEPT ![w] = l]
    BY <1>t, <2>1 DEF Scheduled
  <2>2. CASE Reschedule(w)
    BY <1>t, <2>2 DEF Reschedule, Scheduled
  <2>3. CASE (LoadState(w) /\ Over) \/ CatchPanic(w)
    BY <2>3 DEF LoadState, Over, CatchPanic, word
  <2>4. CASE Finish(w)
    <3>1. pc' = [pc EXCEPT ![w] = "reschedule"]
      BY <2>4, <1>t DEF Finish, Remaining, Return, AfterExecute, Goto
    <3> QED BY <1>t, <3>1 DEF Scheduled
  <2>5. ASSUME NEW r, EndExecution(w, r) PROVE Scheduled'
    <3>1. pc' = [pc EXCEPT ![w] = "panicked"]
      BY <1>0, <2>5, EndShape, ZenonT(40)
    <3> QED BY <1>t, <3>1 DEF Scheduled
  <2>6. CASE FinishBlocking(w)
    <3>1. ASSUME current \in {"Pending", "Ok"}, UNCHANGED life,
                 Return(w, IF current = "Pending" THEN "Blocked"
                             ELSE NoWorkOr(Remaining(work - count)))
          PROVE  Scheduled'
      <4>1. current # "Pending" /\ work' = work - count
        BY <1>0, <2>6, <3>1 DEF FinishBlocking, Phases, BlockingPolled
      <4>2. pc' = [pc EXCEPT ![w] = "execute"]
        BY <1>t, <3>1, <4>1 DEF Remaining, NoWorkOr, Return, AfterExecute, Goto
      <4> QED BY <1>t, <4>2 DEF Scheduled
    <3> QED BY <2>5, <2>6, <3>1 DEF FinishBlocking
  <2>7. CASE FinishUnblock(w)
    <3>1. ASSUME current \in {"Pending", "Ok"}, UNCHANGED life,
                 Return(w, IF current = "Pending" THEN "Blocked"
                             ELSE NoWorkOr(IntoSchedulingDecision(life, work)))
          PROVE  Scheduled'
      <4>1. current # "Pending"
        BY <1>0, <2>7, <3>1 DEF FinishUnblock, Phases, BlockingPolled
      <4>2. pc' = [pc EXCEPT ![w] = "execute"]
        BY <1>t, <3>1, <4>1 DEF IntoSchedulingDecision, NoWorkOr, Return, AfterExecute, Goto
      <4> QED BY <1>t, <4>2 DEF Scheduled
    <3> QED BY <2>5, <2>7, <3>1, SMTT(40) DEF FinishUnblock
  <2> QED BY <1>4, <2>1, <2>2, <2>3, <2>4, <2>6, <2>7, ExecuteShape
<1>5. CASE Wake
  BY <1>5, <1>t DEF Wake, Scheduled
<1>6. CASE SetRecoveryFunction \/ UNCHANGED vars
  BY <1>6 DEF SetRecoveryFunction, vars, word, sending, NoLostWakeup, Scheduled
<1> QED BY <1>1, <1>2, <1>3, <1>4, <1>5, <1>6 DEF Next, Deliver

\* A component with counted work that is neither blocked nor over is always
\* scheduled: the increment / push / schedule protocol of the senders and the
\* decrement at the end of inner_execute lose no wakeup.
THEOREM NoWakeupIsLost == Spec => []NoLostWakeup
<1>1. Init => NoLostWakeup
  BY DEF Init, NoLostWakeup
<1> QED BY <1>1, WakeupStep, IInvAlways, PTL DEF Spec

\* somebody other than w, or a waker, will execute the component
Woken(w) == wakers > 0 \/ runQueue > 0 \/ \E v \in Workers \ {w} : pc[v] # "idle"

\* A worker that found the future pending leaves a way to wake the component:
\* the waker of the poll, or what that waker was already used for.
PendingIsWoken ==
  \A w \in Workers : pc[w] \in BlockingPolled /\ current = "Pending" => Woken(w)

\* Every step preserves that a blocked component can be woken, unless futures
\* return BlockOn themselves.
LEMMA UnblockStep ==
  ASSUME "BlockOn" \notin FutureResults,
         IInv, PendingIsWoken, NoLostUnblock, [Next]_vars
  PROVE  PendingIsWoken' /\ NoLostUnblock'
<1>0. TypeOK /\ Mutex /\ Phases BY DEF IInv
<1>t. wakers \in Nat /\ runQueue \in Nat /\ pc \in [Workers -> Locations]
  BY <1>0 DEF TypeOK
<1>h. \A w \in Workers : pc[w] \in Holding <=> holder = w
  BY <1>0 DEF Mutex
<1>p. \A w \in Workers : pc[w] \in BlockingPolled => pc[w] \in Holding /\ pc[w] # "idle"
  BY DEF Holding, BlockingPolled
<1>1. CASE runQueue' > 0
  BY <1>1 DEF PendingIsWoken, Woken, NoLostUnblock
<1>2. ASSUME NEW s \in Senders, Deliver(s) \/ \E i \in Items : IncrementWork(s, i)
      PROVE  PendingIsWoken' /\ NoLostUnblock'
  <2>1. CASE Schedule(s)
    BY <1>1, <1>t, <2>1, SMTT(40), SMTT(60) DEF Schedule
  <2>2. CASE Push(s) \/ \E i \in Items : IncrementWork(s, i)
    BY <2>2 DEF Push, IncrementWork, PendingIsWoken, Woken, NoLostUnblock, word, lock, blocking
  <2> QED BY <1>2, <2>1, <2>2 DEF Deliver
<1>3. ASSUME NEW w \in Workers, Execute(w) PROVE PendingIsWoken' /\ NoLostUnblock'
  <2>1. ASSUME NEW l \in Locations \ {"idle"}, pc' = [pc EXCEPT ![w] = l]
        PROVE  PendingIsWoken' /\ NoLostUnblock'
    <3>1. pc'[w] # "idle"
      BY <1>t, <2>1
    <3>2. NoLostUnblock'
      BY <3>1 DEF NoLostUnblock
    <3>3. ASSUME NEW v \in Workers, pc'[v] \in BlockingPolled, current' = "Pending" PROVE Woken(v)'
      <4>1. CASE v # w
        BY <3>1, <4>1 DEF Woken
      <4>2. CASE v = w
        <5>1. RunBlocking(w) \/ Unblock(w)
          <6>1. ASSUME NEW next, NEW afterBenign, HandleItem(w, next, afterBenign),
                       next \notin BlockingPolled, afterBenign \notin BlockingPolled
                PROVE  pc'[w] \notin BlockingPolled
            <7>1. \/ /\ pc' = [pc EXCEPT ![w] = next] \/ pc' = [pc EXCEPT ![w] = afterBenign]
                  \/ pc' = [pc EXCEPT ![w] = "run_blocking"]
                  \/ pc' = [pc EXCEPT ![w] = "idle"] \/ pc' = [pc EXCEPT ![w] = "panicked"]
              BY <1>0, <6>1, ItemShape, EndShape, Zenon
            <7> QED BY <1>t, <6>1, <7>1 DEF BlockingPolled
          <6>2. ASSUME NEW r, EndExecution(w, r) PROVE pc'[w] \notin BlockingPolled
            <7>1. pc' = [pc EXCEPT ![w] = "idle"] \/ pc' = [pc EXCEPT ![w] = "panicked"]
              BY <1>0, <6>2, EndShape, ZenonT(40)
            <7> QED BY <1>t, <7>1 DEF BlockingPolled
          <6>3. ASSUME NEW d, Return(w, d) PROVE pc'[w] \notin BlockingPolled
            <7>1. \E k \in {"reschedule", "execute", "idle"} : pc' = [pc EXCEPT ![w] = k]
              BY <1>0, <6>3, ReturnShape, SMTT(40), SMTT(60)
            <7> QED BY <1>t, <7>1 DEF BlockingPolled
          <6>4. ~(FireTimer(w) \/ Receive(w) \/ HandleEvent(w))
            BY <3>3, <4>2, <6>1, SMTT(40) DEF FireTimer, Receive, HandleEvent, BlockingPolled
          <6>5. ~(FinishBlocking(w) \/ FinishUnblock(w) \/ Finish(w))
            BY <3>3, <4>2, <6>2, <6>3, ZenonT(40) DEF FinishBlocking, FinishUnblock, Finish
          <6>6. ~HandleControl(w)
            <7>1. CASE ControlDone(w) \/ ControlBlocks(w)
              BY <1>t, <3>3, <4>2, <7>1, SMTT(40) DEF ControlDone, ControlBlocks, SetBlocking, Goto, BlockingPolled
            <7> QED BY <3>3, <4>2, <6>2, <6>3, <7>1, ZenonT(40) DEF HandleControl
          <6>7. ~(\/ TakeTask(w) \/ Reschedule(w) \/ LoadState(w) \/ Lock(w) \/ LockPoisoned(w) \/ CatchPanic(w)
                  \/ PopControl(w) \/ ControlEmpty(w) \/ NoTimer(w) \/ NoMessage(w) \/ NoEvent(w))
            BY <1>t, <3>3, <4>2, Zenon DEF TakeTask, Reschedule, LoadState, Lock, LockPoisoned, CatchPanic, PopControl,
              ControlEmpty, NoTimer, NoMessage, NoEvent, Goto, BlockingPolled
          <6> QED BY <1>3, <6>4, <6>5, <6>6, <6>7 DEF Execute
        <5>2. wakers' > 0
          <6>1. RunBlockingTask(w)
            BY <5>1 DEF RunBlocking, Unblock
          <6>2. WakerBound \in Nat /\ "Pending" \notin FutureResults
            BY ConstantsAssumption DEF AllResults
          <6>3. wakers' \in 1 .. WakerBound
            BY <3>3, <6>1, <6>2, Zenon DEF RunBlockingTask
          <6> QED BY <6>2, <6>3
        <5> QED BY <5>2 DEF Woken
      <4> QED BY <4>1, <4>2
    <3> QED BY <3>2, <3>3 DEF PendingIsWoken
  <2>2. CASE Reschedule(w)
    BY <1>1, <1>t, <2>2, SMTT(40) DEF Reschedule
  <2>3. CASE LoadState(w) /\ Over
    <3>1. life \notin {"Blocking"} /\ UNCHANGED <<life, current>>
      BY <2>3, SMTT(40) DEF LoadState, Over, word, lock
    <3>2. ASSUME NEW v \in Workers, pc'[v] \in BlockingPolled, current' = "Pending" PROVE FALSE
      <4>1. pc[v] \in BlockingPolled
        BY <1>t, <2>3, <3>2, SMTT(40) DEF LoadState, Goto, BlockingPolled
      <4> QED BY <1>0, <3>1, <3>2, <4>1 DEF Phases
    <3> QED BY <3>1, <3>2, Zenon DEF PendingIsWoken, NoLostUnblock
  <2>4. CASE CatchPanic(w)
    <3>1. holder = NoWorker /\ life' = "Faulty"
      BY <1>0, <2>4 DEF CatchPanic, Mutex
    <3>2. ASSUME NEW v \in Workers, pc'[v] \in BlockingPolled PROVE FALSE
      <4>1. pc[v] \in BlockingPolled
        BY <1>t, <2>4, <3>2, SMTT(40) DEF CatchPanic, Goto, BlockingPolled
      <4> QED BY <1>h, <1>p, <3>1, <4>1, ConstantsAssumption, SMTT(40)
    <3> QED BY <3>1, <3>2 DEF PendingIsWoken, NoLostUnblock
  <2>5. ASSUME pc[w] \in Holding, NEW l \in {"idle", "reschedule", "execute"},
               pc' = [pc EXCEPT ![w] = l]
        PROVE  PendingIsWoken'
    <3>1. ASSUME NEW v \in Workers, pc'[v] \in BlockingPolled PROVE FALSE
      <4>1. v # w /\ pc[v] \in BlockingPolled
        BY <1>t, <2>5, <3>1 DEF BlockingPolled
      <4> QED BY <1>h, <1>p, <2>5, <4>1
    <3> QED BY <3>1 DEF PendingIsWoken
  <2>6. CASE pc' = [pc EXCEPT ![w] = "idle"] /\ pc[w] \in Holding /\ life' \in {"Destroyed", "Faulty"}
    BY <2>5, <2>6 DEF NoLostUnblock
  <2>7. CASE Finish(w)
    <3>1. pc[w] \in Running /\ life' = life /\ pc[w] \in Holding
      BY <2>7 DEF Finish, Running, Holding
    <3>2. life' # "Blocking"
      BY <1>0, <3>1 DEF Phases
    <3>3. \E l \in {"reschedule", "execute", "idle"} : pc' = [pc EXCEPT ![w] = l]
      BY <1>0, <2>7, ReturnShape, SMTT(40), SMTT(60) DEF Finish
    <3> QED BY <2>5, <3>1, <3>2, <3>3, Zenon DEF NoLostUnblock
  <2>8. CASE FinishBlocking(w) \/ FinishUnblock(w)
    <3>1. pc[w] \in BlockingPolled /\ UNCHANGED <<wakers, runQueue>>
      BY <2>8 DEF FinishBlocking, FinishUnblock, BlockingPolled, blocking
    <3>2. CASE EndExecution(w, current)
      <4>1. \/ pc' = [pc EXCEPT ![w] = "idle"] /\ life' \in {"Destroyed", "Faulty"}
            \/ pc' = [pc EXCEPT ![w] = "panicked"]
        BY <1>0, <3>2, EndShape, Zenon
      <4> QED BY <1>p, <2>1, <2>6, <3>1, <4>1 DEF Locations
    <3>3. ASSUME NEW d, Return(w, d), current \in {"Pending", "Ok"}, UNCHANGED life
          PROVE  PendingIsWoken' /\ NoLostUnblock'
      <4>1. PICK l \in {"reschedule", "execute", "idle"} : pc' = [pc EXCEPT ![w] = l]
        BY <1>0, <3>3, ReturnShape
      <4>2. PendingIsWoken'
        BY <1>p, <2>5, <3>1, <4>1, ZenonT(40)
      <4>3. CASE current = "Ok"
        <5>1. life' # "Blocking"
          BY <1>0, <3>1, <3>3, <4>3 DEF Phases
        <5> QED BY <4>2, <5>1 DEF NoLostUnblock
      <4>4. CASE current = "Pending"
        <5>1. wakers > 0 \/ runQueue > 0 \/ \E v \in Workers \ {w} : pc[v] # "idle"
          BY <3>1, <4>4 DEF PendingIsWoken, Woken
        <5>2. NoLostUnblock'
          BY <1>t, <3>1, <4>1, <5>1 DEF NoLostUnblock
        <5> QED BY <4>2, <5>2
      <4> QED BY <3>3, <4>3, <4>4
    <3> QED BY <2>8, <3>2, <3>3, SMTT(40), SMTT(60) DEF FinishBlocking, FinishUnblock
  <2> QED BY <1>3, <2>1, <2>2, <2>3, <2>4, <2>6, <2>7, <2>8, ExecuteShape, SMTT(40), SMTT(60)
<1>4. CASE Wake
  BY <1>1, <1>4, <1>t, SMTT(40) DEF Wake
<1>5. CASE SetRecoveryFunction \/ UNCHANGED vars
  BY <1>5 DEF SetRecoveryFunction, vars, PendingIsWoken, Woken, NoLostUnblock, word, lock, blocking
<1> QED BY <1>2, <1>3, <1>4, <1>5 DEF Next

\* A blocked component always has a waker or an execution under way, if no
\* blocking future completes with another BlockOn: run_blocking_task does not
\* poll such a future, so that nothing has a waker for it.
THEOREM NoUnblockIsLost == "BlockOn" \notin FutureResults => (Spec => []NoLostUnblock)
<1> SUFFICES ASSUME "BlockOn" \notin FutureResults PROVE Spec => []NoLostUnblock
  OBVIOUS
<1>1. Init => PendingIsWoken /\ NoLostUnblock
  BY DEF Init, PendingIsWoken, NoLostUnblock, BlockingPolled
<1>2. IInv /\ (PendingIsWoken /\ NoLostUnblock) /\ [Next]_vars => PendingIsWoken' /\ NoLostUnblock'
  BY UnblockStep
<1> QED BY <1>1, <1>2, IInvAlways, PTL DEF Spec
=============================================================================
