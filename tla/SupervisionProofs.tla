------------------------- MODULE SupervisionProofs --------------------------
(***************************************************************************)
(* The supervisor knows what became of its component.                      *)
(***************************************************************************)
EXTENDS ComponentProofs

\* what SupervisorIsTold says of the state between executions
Settled ==
  /\ life = "Destroyed" => told = "Killed"
  /\ life = "Faulty" => told = "Faulty" \/ recovery = "poisoned"
  /\ life = "Passive" => told \in {"None", "Stopped"}

\* a panic has not reached catch_unwind yet
Unwinding == \E w \in Workers : pc[w] \in {"panicked", "poisoned"}

\* the handler of a Stop or Kill, whose flag is already set, is running
Ending == \E w \in Workers : pc[w] = "handle" /\ current \in {"Stop", "Kill"}

\* What the supervisor does not know yet is still being dealt with.
ToldOrPending == Supervised => Settled \/ Unwinding \/ Ending

\* A fault is settled once it is reported, or once its recovery function has
\* panicked.
LEMMA FaultSettles ==
  ASSUME TypeOK, Supervised, life' = "Faulty", ReportFault \/ RecoveryPanics
  PROVE  Settled'
BY DEF ReportFault, RecoveryPanics, Settled

\* A notification of the lifecycle state that has just been set settles it.
LEMMA NotifySettles ==
  ASSUME Supervised,
         \/ life' = "Active" \/ life' = "Blocking"
         \/ life' = "Passive" /\ Notify("Stopped")
         \/ life' = "Destroyed" /\ Notify("Killed")
  PROVE  Settled'
BY DEF Notify, Settled

\* What ends an execution is told, unless it unwinds to catch_unwind.
LEMMA EndSettles ==
  ASSUME NEW w \in Workers, NEW r, TypeOK, Supervised, EndExecution(w, r)
  PROVE  Settled' \/ pc' = [pc EXCEPT ![w] = "panicked"]
<1>1. CASE Unwind(w)
  BY <1>1 DEF Unwind, Goto
<1>2. CASE life' = "Destroyed" /\ Notify("Killed")
  BY <1>2, NotifySettles
<1>3. CASE HandleUnrecoverableError(w)
  BY <1>3 DEF HandleUnrecoverableError, Settled
<1>4. CASE life' = "Faulty" /\ ReportFault
  BY <1>4, FaultSettles
<1> QED BY <1>1, <1>2, <1>3, <1>4, Zenon DEF EndExecution, ShutdownFromHandler, HandleRecoverableError

\* Every step leaves the supervisor informed, or somebody to inform it.
LEMMA ToldStep ==
  ASSUME IInv, ToldOrPending, [Next]_vars
  PROVE  ToldOrPending'
<1> SUFFICES ASSUME Supervised PROVE Settled' \/ Unwinding' \/ Ending'
  BY DEF ToldOrPending
<1>0. TypeOK /\ Mutex /\ Phases /\ (Settled \/ Unwinding \/ Ending)
  BY DEF IInv, ToldOrPending
<1> pc \in [Workers -> Locations] BY <1>0 DEF TypeOK
<1>1. CASE /\ UNCHANGED <<life, told, current>>
           /\ recovery' = "poisoned" <=> recovery = "poisoned"
           /\ \A v \in Workers : pc[v] \in {"panicked", "poisoned", "handle"} => pc'[v] = pc[v]
  <2>1. CASE Settled
    BY <1>1, <2>1 DEF Settled
  <2>2. CASE Unwinding
    BY <1>1, <2>2 DEF Unwinding
  <2>3. CASE Ending
    BY <1>1, <2>3 DEF Ending
  <2> QED BY <1>0, <2>1, <2>2, <2>3
<1>2. CASE life' \in {"Active", "Blocking"}
  BY <1>2, NotifySettles
<1>3. ASSUME NEW w \in Workers, Execute(w) PROVE Settled' \/ Unwinding' \/ Ending'
  <2>1. CASE TakeTask(w) \/ Reschedule(w) \/ LoadState(w)
    BY <1>1, <2>1, SMTT(40), SMTT(60) DEF TakeTask, Reschedule, LoadState, Goto, word, lock, outside, reported
  <2>2. CASE Lock(w) \/ LockPoisoned(w)
    BY <1>1, <2>2, SMTT(40), SMTT(60) DEF Lock, LockPoisoned, Goto, word, lock, outside, reported
  <2>3. CASE CatchPanic(w)
    BY <1>0, <2>3, FaultSettles, SMTT(40), SMTT(60) DEF CatchPanic
  <2>4. ASSUME pc[w] \in Holding, pc[w] # "handle" \/ current \notin {"Stop", "Kill"} PROVE Settled
    <3>1. holder = w /\ ~poisoned /\ holder # NoWorker
      BY <1>0, <2>4, ConstantsAssumption DEF Mutex
    <3>2. ~Unwinding
      BY <1>0, <3>1 DEF Mutex, Unwinding
    <3>3. ~Ending
      BY <1>0, <2>4, <3>1 DEF Mutex, Holding, Running, Ending
    <3> QED BY <1>0, <3>2, <3>3
  <2>5. ASSUME pc[w] \in Holding, pc[w] # "handle" \/ current \notin {"Stop", "Kill"},
               UNCHANGED <<life, told, recovery>>
        PROVE  Settled'
    BY <2>4, <2>5 DEF Settled
  <2>6. ASSUME NEW r, EndExecution(w, r) PROVE Settled' \/ Unwinding'
    <3>1. CASE pc' = [pc EXCEPT ![w] = "panicked"]
      BY <3>1 DEF Unwinding
    <3> QED BY <1>0, <2>6, <3>1, EndSettles, SMTT(40), SMTT(60)
  <2>7. CASE RunBlocking(w) \/ Unblock(w)
    <3>1. RunBlockingTask(w) /\ pc[w] \in Holding /\ pc[w] # "handle" /\ UNCHANGED recovery
      BY <2>7, ZenonT(40) DEF RunBlocking, Unblock, RunBlockingTask, Holding, BlockingPoll
    <3>2. CASE UNCHANGED <<life, told>>
      BY <2>5, <3>1, <3>2
    <3>3. CASE Transition
      BY <3>3, NotifySettles DEF Transition
    <3> QED BY <3>1, <3>2, <3>3, Zenon DEF RunBlockingTask
  <2>8. CASE FinishBlocking(w) \/ FinishUnblock(w)
    <3>1. pc[w] \in Holding /\ pc[w] # "handle"
      BY <2>8 DEF FinishBlocking, FinishUnblock, Holding, BlockingPolled
    <3>2. CASE UNCHANGED <<life, poisoned, reported>>
      BY <2>5, <3>1, <3>2 DEF reported
    <3> QED BY <2>6, <2>8, <3>2, ZenonT(40) DEF FinishBlocking, FinishUnblock
  <2>9. CASE Finish(w)
    BY <2>5, <2>9, SMTT(40), SMTT(60) DEF Finish, outside, reported, Holding, Running
  <2>10. CASE ControlEmpty(w) \/ NoTimer(w) \/ NoMessage(w) \/ NoEvent(w)
    BY <2>5, <2>10, SMTT(40), SMTT(60) DEF ControlEmpty, NoTimer, NoMessage, NoEvent, word, outside, reported, Holding, Running
  <2>11. CASE PopControl(w)
    <3>1. pc[w] = "control" /\ pc' = [pc EXCEPT ![w] = "handle"] /\ UNCHANGED <<told, recovery>>
      BY <2>11 DEF PopControl, Goto, reported
    <3>2. CASE life' = "Active"
      BY <1>2, <3>2
    <3>3. CASE current' \in {"Stop", "Kill"}
      BY <3>1, <3>3 DEF Ending
    <3>4. CASE UNCHANGED life
      BY <2>5, <3>1, <3>4 DEF Holding, Running
    <3> QED BY <2>11, <3>2, <3>3, <3>4 DEF PopControl
  <2>12. CASE HandleControl(w)
    <3>0. pc[w] = "handle" /\ pc[w] \in Holding
      BY <2>12 DEF HandleControl, Holding, Running
    <3>1. CASE ControlDone(w)
      <4>1. CASE current = "Start" /\ UNCHANGED life
        BY <1>0, <1>2, <3>0, <4>1 DEF Phases
      <4>2. CASE (life' = "Passive" /\ Notify("Stopped")) \/ (life' = "Destroyed" /\ Notify("Killed"))
        BY <4>2, NotifySettles
      <4>3. CASE current = "Poll" /\ UNCHANGED <<life, told, recovery>>
        BY <2>5, <3>0, <4>3
      <4> QED BY <3>1, <4>1, <4>2, <4>3, ZenonT(40) DEF ControlDone
    <3>2. CASE ControlBlocks(w)
      BY <1>2, <3>2, SMTT(40), SMTT(60) DEF ControlBlocks, SetBlocking
    <3>3. CASE life' = "Destroyed" /\ Notify("Killed")
      BY <3>3, NotifySettles
    <3> QED BY <2>6, <2>12, <3>1, <3>2, <3>3, ZenonT(40) DEF HandleControl
  <2>13. ASSUME NEW next, NEW afterBenign, HandleItem(w, next, afterBenign),
                pc[w] \in Holding \ {"handle"}
         PROVE  Settled' \/ Unwinding'
    <3>1. CASE UNCHANGED <<life, told, recovery>>
      BY <2>5, <2>13, <3>1
    <3>2. CASE SetBlocking(w, "Active")
      BY <3>2, NotifySettles, SMTT(40), SMTT(60) DEF SetBlocking
    <3> QED BY <2>6, <2>13, <3>1, <3>2, ZenonT(40) DEF HandleItem, reported
  <2>14. CASE FireTimer(w) \/ Receive(w) \/ HandleEvent(w)
    BY <2>13, <2>14 DEF FireTimer, Receive, HandleEvent, Holding, Running
  <2> QED BY <1>3, <2>1, <2>2, <2>3, <2>7, <2>8, <2>9, <2>10, <2>11, <2>12, <2>14, ZenonT(40) DEF Execute
<1>4. CASE UNCHANGED <<life, told, recovery, current, pc>>
  BY <1>1, <1>4
<1>5. ASSUME NEW s \in Senders, Deliver(s) \/ \E i \in Items : IncrementWork(s, i)
      PROVE  UNCHANGED <<life, lock, pc, outside>>
  BY <1>5, Zenon DEF Deliver, IncrementWork, Push, Schedule, word
<1>6. CASE UNCHANGED <<life, lock, pc, outside>>
  BY <1>4, <1>6 DEF lock, outside, reported
<1>7. CASE Wake \/ UNCHANGED vars
  <2>1. UNCHANGED <<word, lock, pc, outside>>
    BY <1>7, Zenon DEF Wake, vars
  <2> QED BY <1>6, <2>1 DEF word
<1>8. CASE SetRecoveryFunction
  BY <1>1, <1>8 DEF SetRecoveryFunction, word, lock
<1> QED BY <1>3, <1>5, <1>6, <1>7, <1>8, Zenon DEF Next

\* The supervisor knows how its component stopped or ended: whatever panics,
\* errors, blocking futures, revivals by a late Start and overlapping
\* executions occur, the last message it was sent agrees with the lifecycle
\* flag between executions, unless the recovery function panicked.
THEOREM SupervisorGetsTold == Spec => []SupervisorIsTold
<1>1. Init => ToldOrPending
  BY DEF Init, ToldOrPending, Settled
<1>2. IInv /\ ToldOrPending /\ [Next]_vars => ToldOrPending'
  BY ToldStep
<1>3. IInv /\ ToldOrPending => SupervisorIsTold
  <2> SUFFICES ASSUME IInv, ToldOrPending, Supervised, holder = NoWorker,
                      \A w \in Workers : pc[w] \notin {"panicked", "poisoned"}
               PROVE  Settled
    BY DEF SupervisorIsTold, Settled
  <2>1. \A w \in Workers : pc[w] # "handle"
    BY ConstantsAssumption DEF IInv, Mutex, Holding, Running
  <2> QED BY <2>1 DEF ToldOrPending, Unwinding, Ending
<1> QED BY <1>1, <1>2, <1>3, IInvAlways, PTL DEF Spec
=============================================================================
