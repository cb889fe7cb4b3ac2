----------------------------- MODULE Component -----------------------------
(***************************************************************************)
(* One Kompact component on the thread pool of its system: the atomic      *)
(* lifecycle word (flag and work count), the queues that feed the          *)
(* component, the mutex around its mutable core, its blocking future and   *)
(* the threads that enqueue work or execute it.                            *)
(*                                                                         *)
(* Sender threads run the enqueue protocol (increment, push, schedule).    *)
(* Worker threads run maybe_reschedule, execute and inner_execute.  A step *)
(* of a worker covers the code up to the next access to state that another *)
(* thread can change.                                                      *)
(***************************************************************************)
EXTENDS Integers, Sequences, FiniteSets

CONSTANTS
  Senders,         \* threads that enqueue control events, messages, ...
  Workers,         \* threads of the executor pool
  NoWorker,        \* "nobody holds the mutex"
  Throughput,      \* system.throughput(): events handled per execution
  MaxMessages,     \* system.max_messages(): messages handled before events
  Supervised,      \* FALSE for a top level component (supervisor: None)
  Items,           \* what senders may enqueue in this instance
  HandlerResults,  \* the results the component's handlers may return
  FutureResults,   \* the results its blocking futures may complete with
  CancelTimers,    \* may a handler cancel a timer whose timeout is queued?
  CustomRecovery,  \* may a recovery function, which may panic, be registered?
  WorkBound,       \* FLAG_MASK: the largest work count that is not an abort
  QueueBound,      \* senders pause when their queue holds this many items
  BlockBound,      \* number of BlockOn results in a behaviour
  PendingBound,    \* number of times a blocking future is still pending
  WakerBound       \* wakers a pending future may have handed out

ControlEvents == {"Start", "Stop", "Kill", "Poll"}
AllItems == ControlEvents \cup {"timeout", "message", "event"}
AllResults == {"Ok", "Benign", "BlockOn", "Shutdown", "Recoverable", "Unrecoverable", "Panic"}

ASSUME ConstantsAssumption ==
  /\ IsFiniteSet(Senders) /\ IsFiniteSet(Workers) /\ NoWorker \notin Workers
  /\ Throughput \in Nat \ {0} /\ MaxMessages \in 0..Throughput
  /\ Supervised \in BOOLEAN /\ CancelTimers \in BOOLEAN /\ CustomRecovery \in BOOLEAN
  /\ Items \subseteq AllItems
  /\ HandlerResults \subseteq AllResults /\ FutureResults \subseteq AllResults
  /\ WorkBound \in Nat /\ QueueBound \in Nat /\ BlockBound \in Nat
  /\ PendingBound \in Nat /\ WakerBound \in Nat \ {0}

VARIABLES
  life,        \* flag bits of the lifecycle word
  work,        \* count bits of the lifecycle word
  ctrlQueue,   \* ctrl_queue
  timers,      \* length of the timer manager's timer_queue
  messages,    \* length of msg_queue
  events,      \* events queued at all ports together
  holder,      \* owner of the mutable_core mutex
  poisoned,    \* the mutex was poisoned by a panic
  count,       \* items taken by the current execution (count in inner_execute)
  current,     \* the control event whose handler runs
  future,      \* unblock_state of the blocking future, or "None"
  pendings,    \* how often the current blocking future was found pending
  wakers,      \* outstanding wakers of the blocking future
  blocks,      \* BlockOn results so far (bounds the behaviours)
  runQueue,    \* executions of the component queued at the executor
  pc,          \* where each worker is
  spc,         \* where each sender is
  item,        \* what each sender enqueues
  decision,    \* the scheduling decision of each sender's increment
  recovery,    \* recovery_function: default, custom or behind a poisoned mutex
  told,        \* the last message sent to the supervisor, or "SystemPoisoned"
  failed,      \* history: a handler or a future returned an error or panicked
  started      \* history: the last lifecycle event handled was a Start

word     == <<life, work>>
queues   == <<ctrlQueue, timers, messages, events>>
lock     == <<holder, poisoned, count, current>>
blocking == <<future, pendings, wakers, blocks>>
sending  == <<spc, item, decision>>
reported == <<recovery, told, failed>>
outside  == <<reported, started>>
vars     == <<word, queues, lock, blocking, runQueue, pc, sending, outside>>

Reports == {"None", "Started", "Stopped", "Killed", "Faulty", "SystemPoisoned"}
Lifecycle == {"Active", "Passive", "Destroyed", "Faulty", "Blocking"}
Transitions == {"Active", "Started", "Passive", "Destroyed"}
-----------------------------------------------------------------------------
(* The lifecycle word and scheduling decisions.                            *)

\* LifecycleState::into_scheduling_decision of the state (l, n)
IntoSchedulingDecision(l, n) ==
  IF l \in {"Active", "Passive"}
    THEN IF n = 0 THEN "Schedule" ELSE "AlreadyScheduled"
    ELSE "NoWork"

\* mutant: AlreadyScheduled is not taken for work to resume
NoWorkOrScheduled(d) == IF d \in {"Schedule", "Resume"} THEN "Resume" ELSE d

\* SchedulingDecision::or_use and or_from, applied to NoWork
NoWorkOr(d) == IF d \in {"Schedule", "Resume", "AlreadyScheduled"} THEN "Resume" ELSE d

\* mutant: off by one
RemainingOffByOne(n) == IF n > 1 THEN "Schedule" ELSE "NoWork"

\* mutant: a component without work is scheduled
RemainingNone(n) == IF n >= 0 THEN "Schedule" ELSE "NoWork"

\* the decision that decrement_work takes for the remaining count
Remaining(n) == IF n > 0 THEN "Schedule" ELSE "NoWork"

\* What maybe_reschedule does with the decision of execute: queue the
\* component again, execute it again at once, or let the thread go.
AfterExecute(d) ==
  IF d = "Schedule" THEN "reschedule" ELSE IF d = "Resume" THEN "execute" ELSE "idle"

Goto(w, l) == pc' = [pc EXCEPT ![w] = l]

\* supervisor.enqueue, if there is a supervisor
Notify(kind) == told' = IF Supervised THEN kind ELSE told

\* A fault goes to the supervisor with the handler that the recovery function
\* makes; the function is used once.  Behind a poisoned mutex it cannot be
\* called, and the fault is only logged.  A fault of a top level component
\* poisons the whole system instead.
ReportFault ==
  \/ ~Supervised /\ told' = "SystemPoisoned" /\ UNCHANGED recovery
  \/ Supervised /\ recovery # "poisoned" /\ told' = "Faulty" /\ recovery' = "default"
  \/ Supervised /\ recovery = "poisoned" /\ UNCHANGED <<told, recovery>>

\* The recovery function panics under its mutex, before supervisor.enqueue.
RecoveryPanics ==
  /\ Supervised
  /\ recovery = "custom"
  /\ recovery' = "poisoned"
  /\ UNCHANGED told

\* return from inner_execute: the guard and the local count are dropped
Return(w, d) ==
  /\ holder' = NoWorker
  /\ count' = 0
  /\ current' = "None"
  /\ Goto(w, AfterExecute(d))
-----------------------------------------------------------------------------
(* The enqueue protocol: enqueue_control, ActorRef, ports, timers.         *)

Pause(i) ==
  \/ i \in ControlEvents /\ Len(ctrlQueue) >= QueueBound
  \/ i = "timeout" /\ timers >= QueueBound
  \/ i = "message" /\ messages >= QueueBound
  \/ i = "event" /\ events >= QueueBound

\* is_valid_add: beyond FLAG_MASK validate_add aborts the process
IsValidAdd(n) == n < WorkBound

\* mutant: work for a blocked component is not counted
IncrementUnlessBlocking(s, i) ==
  /\ spc[s] = "idle"
  /\ ~Pause(i)
  /\ IsValidAdd(work)
  /\ work' = IF life = "Blocking" THEN work ELSE work + 1
  /\ decision' = [decision EXCEPT ![s] = IntoSchedulingDecision(life, work)]
  /\ item' = [item EXCEPT ![s] = i]
  /\ spc' = [spc EXCEPT ![s] = "push"]
  /\ UNCHANGED <<life, queues, lock, blocking, runQueue, pc, outside>>

\* increment_work: the decision is taken from the old state
IncrementWork(s, i) ==
  /\ spc[s] = "idle"
  /\ ~Pause(i)
  /\ IsValidAdd(work)
  /\ work' = work + 1
  /\ decision' = [decision EXCEPT ![s] = IntoSchedulingDecision(life, work)]
  /\ item' = [item EXCEPT ![s] = i]
  /\ spc' = [spc EXCEPT ![s] = "push"]
  /\ UNCHANGED <<life, queues, lock, blocking, runQueue, pc, outside>>

Push(s) ==
  /\ spc[s] = "push"
  /\ ctrlQueue' = IF item[s] \in ControlEvents THEN Append(ctrlQueue, item[s]) ELSE ctrlQueue
  /\ timers' = IF item[s] = "timeout" THEN timers + 1 ELSE timers
  /\ messages' = IF item[s] = "message" THEN messages + 1 ELSE messages
  /\ events' = IF item[s] = "event" THEN events + 1 ELSE events
  /\ item' = [item EXCEPT ![s] = "None"]
  /\ IF decision[s] = "Schedule"
       THEN /\ spc' = [spc EXCEPT ![s] = "schedule"]
            /\ UNCHANGED decision
       ELSE /\ spc' = [spc EXCEPT ![s] = "idle"]
            /\ decision' = [decision EXCEPT ![s] = "None"]
  /\ UNCHANGED <<word, lock, blocking, runQueue, pc, outside>>

Schedule(s) ==
  /\ spc[s] = "schedule"
  /\ runQueue' = runQueue + 1
  /\ spc' = [spc EXCEPT ![s] = "idle"]
  /\ decision' = [decision EXCEPT ![s] = "None"]
  /\ UNCHANGED <<word, queues, lock, blocking, pc, item, outside>>
-----------------------------------------------------------------------------
(* execute, up to the mutex.                                               *)

\* a pool thread takes the component from the executor's queue
TakeTask(w) ==
  /\ pc[w] = "idle"
  /\ runQueue > 0
  /\ runQueue' = runQueue - 1
  /\ Goto(w, "execute")
  /\ UNCHANGED <<word, queues, lock, blocking, sending, outside>>

Reschedule(w) ==
  /\ pc[w] = "reschedule"
  /\ runQueue' = runQueue + 1
  /\ Goto(w, "idle")
  /\ UNCHANGED <<word, queues, lock, blocking, sending, outside>>

\* mutant: a blocked component is not executed
LoadStateNotBlocked(w) ==
  /\ pc[w] = "execute"
  /\ Goto(w, IF life \in {"Destroyed", "Faulty", "Blocking"} THEN "idle" ELSE "lock")
  /\ UNCHANGED <<word, queues, lock, blocking, runQueue, sending, outside>>

\* mutant: only an active component is executed
LoadStateActive(w) ==
  /\ pc[w] = "execute"
  /\ Goto(w, IF life \in {"Destroyed", "Faulty", "Passive"} THEN "idle" ELSE "lock")
  /\ UNCHANGED <<word, queues, lock, blocking, runQueue, sending, outside>>

\* the state is read before the mutex is taken
LoadState(w) ==
  /\ pc[w] = "execute"
  /\ Goto(w, IF life \in {"Destroyed", "Faulty"} THEN "idle" ELSE "lock")
  /\ UNCHANGED <<word, queues, lock, blocking, runQueue, sending, outside>>

\* mutant: is_blocking is not checked
LockNotBlocked(w) ==
  /\ pc[w] = "lock"
  /\ holder = NoWorker
  /\ ~poisoned
  /\ holder' = w
  /\ Goto(w, "control")
  /\ UNCHANGED <<word, queues, poisoned, count, current, blocking, runQueue, sending, outside>>

Lock(w) ==
  /\ pc[w] = "lock"
  /\ holder = NoWorker
  /\ ~poisoned
  /\ holder' = w
  /\ Goto(w, IF future # "None" THEN "unblock" ELSE "control")
  /\ UNCHANGED <<word, queues, poisoned, count, current, blocking, runQueue, sending, outside>>

\* the panic "Component is poisoned but not faulty!"
LockPoisoned(w) ==
  /\ pc[w] = "lock"
  /\ holder = NoWorker
  /\ poisoned
  /\ Goto(w, "poisoned")
  /\ UNCHANGED <<word, queues, lock, blocking, runQueue, sending, outside>>

\* catch_unwind in execute: the component becomes faulty.  If the recovery
\* function panics here, nothing catches that in execute: the panic ends the
\* task of the pool thread, which goes on with the next one.
CatchPanic(w) ==
  /\ pc[w] \in {"panicked", "poisoned"}
  /\ life' = "Faulty"
  /\ ReportFault \/ RecoveryPanics
  /\ Goto(w, "idle")
  /\ UNCHANGED <<work, queues, lock, blocking, runQueue, sending, failed, started>>

\* set_recovery_function, from any thread; on a poisoned mutex the caller panics
SetRecoveryFunction ==
  /\ CustomRecovery
  /\ recovery = "default"
  /\ recovery' = "custom"
  /\ UNCHANGED <<word, queues, lock, blocking, runQueue, pc, sending, told, failed, started>>
-----------------------------------------------------------------------------
(* Results that end an execution.  Return without decrement_work: the      *)
(* items taken stay in the work count of a component that is over.         *)

\* a panic unwinds through the guard, which poisons the mutex
Unwind(w) ==
  /\ poisoned' = TRUE
  /\ holder' = NoWorker
  /\ count' = 0
  /\ current' = "None"
  /\ failed' = TRUE
  /\ Goto(w, "panicked")

\* mutant: the second set_destroyed, which notifies the supervisor, is missing
ShutdownQuietly(w) ==
  /\ life' = "Destroyed"
  /\ \/ Return(w, "NoWork") /\ UNCHANGED <<poisoned, told, failed>>
     \/ HandlerResults \cap {"BlockOn", "Panic"} # {} /\ Unwind(w) /\ UNCHANGED told
  /\ UNCHANGED recovery

\* shutdown_from_handler: on_kill runs once more, and a BlockOn from it is a
\* panic of handle_secondary_lifecycle_result
ShutdownFromHandler(w) ==
  /\ life' = "Destroyed"
  /\ \/ Notify("Killed") /\ Return(w, "NoWork") /\ UNCHANGED <<poisoned, failed>>
     \/ HandlerResults \cap {"BlockOn", "Panic"} # {} /\ Unwind(w) /\ UNCHANGED told
  /\ UNCHANGED recovery

\* handle_recoverable_error; a panic of the recovery function unwinds through
\* the guard of the mutable core as well
HandleRecoverableError(w) ==
  /\ life' = "Faulty"
  /\ \/ ReportFault /\ Return(w, "NoWork") /\ failed' = TRUE /\ UNCHANGED poisoned
     \/ RecoveryPanics /\ Unwind(w)


HandleUnrecoverableError(w) ==
  /\ life' = "Destroyed"
  /\ told' = IF Supervised THEN "Killed" ELSE "SystemPoisoned"
  /\ failed' = TRUE
  /\ Return(w, "NoWork")
  /\ UNCHANGED <<poisoned, recovery>>

EndExecution(w, r) ==
  \/ r = "Shutdown" /\ ShutdownFromHandler(w)
  \/ r = "Recoverable" /\ HandleRecoverableError(w)
  \/ r = "Unrecoverable" /\ HandleUnrecoverableError(w)
  \/ r = "Panic" /\ Unwind(w) /\ UNCHANGED <<life, told, recovery>>
-----------------------------------------------------------------------------
(* Blocking futures.                                                       *)

\* set_blocking_with_state; the future is polled before the handler's
\* execution ends (run_blocking!)
SetBlocking(w, unblockState) ==
  /\ blocks < BlockBound
  /\ blocks' = blocks + 1
  /\ future' = unblockState
  /\ pendings' = 0
  /\ life' = "Blocking"
  /\ Goto(w, "run_blocking")
  /\ UNCHANGED wakers

\* mutant: set_active is missing for a future of an ordinary handler
TransitionWithoutActive ==
  \/ future = "Active" /\ UNCHANGED <<life, told>>
  \/ future = "Started" /\ life' = "Active" /\ Notify("Started")
  \/ future = "Passive" /\ life' = "Passive" /\ Notify("Stopped")
  \/ future = "Destroyed" /\ life' = "Destroyed" /\ Notify("Killed")

\* The lifecycle change of a future that completed normally.
Transition ==
  \/ future = "Active" /\ life' = "Active" /\ UNCHANGED told
  \/ future = "Started" /\ life' = "Active" /\ Notify("Started")
  \/ future = "Passive" /\ life' = "Passive" /\ Notify("Stopped")
  \/ future = "Destroyed" /\ life' = "Destroyed" /\ Notify("Killed")

\* run_blocking_task: one poll of the blocking future, with the result in
\* current.  A future that completes with another BlockOn is replaced by the
\* new one, which is reported as pending without having been polled.
RunBlockingTask(w) ==
  /\ \/ /\ pendings < PendingBound
        /\ current' = "Pending"
        /\ pendings' = pendings + 1
        /\ wakers' \in {n \in 1..WakerBound : n >= wakers}
        /\ UNCHANGED <<life, future, blocks, told, failed>>
     \/ /\ "BlockOn" \in FutureResults
        /\ blocks < BlockBound
        /\ blocks' = blocks + 1
        /\ current' = "Pending"
        /\ pendings' = 0
        /\ UNCHANGED <<life, future, wakers, told, failed>>
     \/ /\ \/ {"Ok", "Benign"} \cap FutureResults # {}
           \/ "Shutdown" \in FutureResults /\ future = "Destroyed"
        /\ current' = "Ok"
        /\ Transition
        /\ future' = "None"
        /\ UNCHANGED <<pendings, wakers, blocks, failed>>
     \/ /\ current' \in FutureResults \ {"Ok", "Benign", "BlockOn"}
        /\ ~(current' = "Shutdown" /\ future = "Destroyed")
        /\ future' = "None"
        /\ failed' = IF current' = "Shutdown" THEN failed ELSE TRUE
        /\ UNCHANGED <<life, pendings, wakers, blocks, told>>
  /\ UNCHANGED <<work, queues, holder, poisoned, count, runQueue, sending, recovery, started>>

\* first poll, right after the handler returned BlockOn
RunBlocking(w) ==
  /\ pc[w] = "run_blocking"
  /\ RunBlockingTask(w)
  /\ Goto(w, "ran_blocking")

\* mutant: the work of an execution that blocks is not subtracted
FinishBlockingWithoutDecrement(w) ==
  /\ pc[w] = "ran_blocking"
  /\ \/ /\ current \in {"Pending", "Ok"}
        /\ Return(w, IF current = "Pending" THEN "Blocked" ELSE NoWorkOr(Remaining(work)))
        /\ UNCHANGED <<life, poisoned, reported>>
     \/ EndExecution(w, current)
  /\ UNCHANGED <<work, queues, blocking, runQueue, sending, started>>

\* then decrement_work and the result of the poll (run_blocking!); a panic in
\* the future unwinds before the decrement
FinishBlocking(w) ==
  /\ pc[w] = "ran_blocking"
  /\ work' = IF current = "Panic" THEN work ELSE work - count
  /\ \/ /\ current \in {"Pending", "Ok"}
        /\ Return(w, IF current = "Pending" THEN "Blocked" ELSE NoWorkOr(Remaining(work - count)))
        /\ UNCHANGED <<life, poisoned, reported>>
     \/ EndExecution(w, current)
  /\ UNCHANGED <<queues, blocking, runQueue, sending, started>>

\* a later poll, when a blocked component is executed
Unblock(w) ==
  /\ pc[w] = "unblock"
  /\ RunBlockingTask(w)
  /\ Goto(w, "unblocked")

\* the state is read again after the future changed it
FinishUnblock(w) ==
  /\ pc[w] = "unblocked"
  /\ \/ /\ current \in {"Pending", "Ok"}
        /\ Return(w, IF current = "Pending"
                       THEN "Blocked" ELSE NoWorkOr(IntoSchedulingDecision(life, work)))
        /\ UNCHANGED <<life, poisoned, reported>>
     \/ EndExecution(w, current)
  /\ UNCHANGED <<work, queues, blocking, runQueue, sending, started>>

\* mutant: a waker schedules only a component that increment_work would
WakeIfSchedulable ==
  /\ wakers > 0
  /\ wakers' = wakers - 1
  /\ runQueue' = IF IntoSchedulingDecision(life, work) = "Schedule" THEN runQueue + 1 ELSE runQueue
  /\ UNCHANGED <<word, queues, lock, future, pendings, blocks, pc, sending, outside>>

\* wake_by_ref of a waker that the future handed out, possibly a stale one
Wake ==
  /\ wakers > 0
  /\ wakers' = wakers - 1
  /\ runQueue' = runQueue + 1
  /\ UNCHANGED <<word, queues, lock, future, pendings, blocks, pc, sending, outside>>
-----------------------------------------------------------------------------
(* inner_execute of a component that is not blocked.                       *)

\* the control loop ignores max_events; the flag is set before the handler
PopControl(w) ==
  /\ pc[w] = "control"
  /\ ctrlQueue # <<>>
  /\ current' = Head(ctrlQueue)
  /\ ctrlQueue' = Tail(ctrlQueue)
  /\ count' = count + 1
  /\ \/ current' = "Start" /\ life' = "Active" /\ started' = TRUE
     \/ current' = "Stop" /\ life' = "Passive" /\ started' = FALSE
     \/ current' = "Kill" /\ life' = "Destroyed" /\ started' = FALSE
     \/ current' = "Poll" /\ UNCHANGED <<life, started>>
  /\ Goto(w, "handle")
  /\ UNCHANGED <<work, timers, messages, events, holder, poisoned, blocking, runQueue,
                 sending, reported>>

\* what follows a lifecycle handler that returned normally
ControlDone(w) ==
  /\ \/ current = "Start" /\ Notify("Started") /\ UNCHANGED life
     \/ current = "Stop" /\ Notify("Stopped") /\ life' = "Passive"
     \/ current = "Kill" /\ Notify("Killed") /\ life' = "Destroyed"
     \/ current = "Poll" /\ UNCHANGED <<life, told>>
  /\ current' = "None"
  /\ Goto(w, "control")
  /\ UNCHANGED <<holder, poisoned, count, blocking, recovery, failed>>

\* the lifecycle change of a control event is completed by its future
ControlBlocks(w) ==
  /\ \/ current = "Start" /\ SetBlocking(w, "Started")
     \/ current = "Stop" /\ SetBlocking(w, "Passive")
     \/ current = "Kill" /\ SetBlocking(w, "Destroyed")
     \/ current = "Poll" /\ SetBlocking(w, "Active")
  /\ current' = "None"
  /\ UNCHANGED <<holder, poisoned, count, reported>>

HandleControl(w) ==
  /\ pc[w] = "handle"
  /\ \E r \in HandlerResults :
       \/ r \in {"Ok", "Benign"} /\ ControlDone(w)
       \/ r = "BlockOn" /\ ControlBlocks(w)
       \/ /\ r = "Shutdown" /\ current = "Kill"
          /\ life' = "Destroyed"
          /\ Notify("Killed")
          /\ Return(w, "NoWork")
          /\ UNCHANGED <<poisoned, blocking, recovery, failed>>
       \/ /\ ~(r = "Shutdown" /\ current = "Kill")
          /\ EndExecution(w, r)
          /\ UNCHANGED blocking
  /\ UNCHANGED <<work, queues, runQueue, sending, started>>

\* mutant: an inactive component goes on
ControlEmptyInactive(w) ==
  /\ pc[w] = "control"
  /\ ctrlQueue = <<>>
  /\ Goto(w, "timers")
  /\ UNCHANGED <<word, queues, lock, blocking, runQueue, sending, outside>>

\* the control queue is empty: an inactive component goes no further
ControlEmpty(w) ==
  /\ pc[w] = "control"
  /\ ctrlQueue = <<>>
  /\ Goto(w, IF life = "Active" THEN "timers" ELSE "finish")
  /\ UNCHANGED <<word, queues, lock, blocking, runQueue, sending, outside>>

\* the result of a timer, message or port handler
HandleItem(w, next, afterBenign) ==
  \E r \in HandlerResults :
    \/ /\ r \in {"Ok", "Benign"}
       /\ count' = count + 1
       /\ Goto(w, IF r = "Ok" THEN next ELSE afterBenign)
       /\ UNCHANGED <<life, holder, poisoned, current, blocking, reported>>
    \/ /\ r = "BlockOn"
       /\ SetBlocking(w, "Active")
       /\ count' = count + 1
       /\ UNCHANGED <<holder, poisoned, current, reported>>
    \/ EndExecution(w, r) /\ UNCHANGED blocking

\* try_action of the timer manager found a handle for the timeout
FireTimer(w) ==
  /\ pc[w] = "timers"
  /\ count < Throughput
  /\ timers > 0
  /\ timers' = timers - 1
  /\ HandleItem(w, "timers", "timers")
  /\ UNCHANGED <<work, ctrlQueue, messages, events, runQueue, sending, started>>

\* No more timers.  A timeout whose handle cancel_timer removed is taken from
\* the queue and dropped: it is not counted, and it ends the loop.
NoTimer(w) ==
  /\ pc[w] = "timers"
  /\ \/ /\ timers = 0 \/ count >= Throughput
        /\ UNCHANGED timers
     \/ /\ CancelTimers /\ timers > 0 /\ count < Throughput
        /\ timers' = timers - 1
  /\ Goto(w, "messages")
  /\ UNCHANGED <<word, ctrlQueue, messages, events, lock, blocking, runQueue, sending, outside>>

\* mutant: off by one
MessageLimitOffByOne(w) == IF pc[w] = "messages" THEN MaxMessages - 1 ELSE Throughput

\* the two message loops: before the ports and, with what is left, after them
MessageLimit(w) == IF pc[w] = "messages" THEN MaxMessages ELSE Throughput

\* mutant: the queue is not checked
ReceiveUnchecked(w) ==
  /\ pc[w] \in {"messages", "more"}
  /\ count < MessageLimit(w)
  /\ messages' = messages - 1
  /\ HandleItem(w, pc[w], pc[w])
  /\ UNCHANGED <<work, ctrlQueue, timers, events, runQueue, sending, started>>

Receive(w) ==
  /\ pc[w] \in {"messages", "more"}
  /\ messages > 0
  /\ count < MessageLimit(w)
  /\ messages' = messages - 1
  /\ HandleItem(w, pc[w], pc[w])
  /\ UNCHANGED <<work, ctrlQueue, timers, events, runQueue, sending, started>>

NoMessage(w) ==
  /\ pc[w] \in {"messages", "more"}
  /\ messages = 0 \/ count >= MessageLimit(w)
  /\ Goto(w, IF pc[w] = "messages" THEN "events" ELSE "finish")
  /\ UNCHANGED <<word, queues, lock, blocking, runQueue, sending, outside>>

\* the definition's execute over its ports, which any handler error ends
HandleEvent(w) ==
  /\ pc[w] = "events"
  /\ events > 0
  /\ count < Throughput
  /\ events' = events - 1
  /\ HandleItem(w, "events", "more")
  /\ UNCHANGED <<work, ctrlQueue, timers, messages, runQueue, sending, started>>

NoEvent(w) ==
  /\ pc[w] = "events"
  /\ events = 0 \/ count >= Throughput
  /\ Goto(w, "more")
  /\ UNCHANGED <<word, queues, lock, blocking, runQueue, sending, outside>>

\* decrement_work at the end of inner_execute
Finish(w) ==
  /\ pc[w] = "finish"
  /\ work' = work - count
  /\ Return(w, Remaining(work - count))
  /\ UNCHANGED <<life, queues, poisoned, blocking, runQueue, sending, outside>>
-----------------------------------------------------------------------------
Init ==
  /\ life = "Passive" /\ work = 0
  /\ ctrlQueue = <<>> /\ timers = 0 /\ messages = 0 /\ events = 0
  /\ holder = NoWorker /\ poisoned = FALSE /\ count = 0 /\ current = "None"
  /\ future = "None" /\ pendings = 0 /\ wakers = 0 /\ blocks = 0
  /\ runQueue = 0
  /\ pc = [w \in Workers |-> "idle"]
  /\ spc = [s \in Senders |-> "idle"]
  /\ item = [s \in Senders |-> "None"]
  /\ decision = [s \in Senders |-> "None"]
  /\ recovery = "default" /\ told = "None"
  /\ failed = FALSE /\ started = FALSE

Deliver(s) == Push(s) \/ Schedule(s)

Execute(w) ==
  \/ TakeTask(w) \/ Reschedule(w) \/ LoadState(w) \/ Lock(w) \/ LockPoisoned(w)
  \/ CatchPanic(w) \/ RunBlocking(w) \/ FinishBlocking(w) \/ Unblock(w) \/ FinishUnblock(w)
  \/ PopControl(w) \/ HandleControl(w) \/ ControlEmpty(w)
  \/ FireTimer(w) \/ NoTimer(w) \/ Receive(w) \/ NoMessage(w)
  \/ HandleEvent(w) \/ NoEvent(w) \/ Finish(w)

Next ==
  \/ \E s \in Senders : Deliver(s) \/ \E i \in Items : IncrementWork(s, i)
  \/ \E w \in Workers : Execute(w)
  \/ Wake \/ SetRecoveryFunction

Spec == Init /\ [][Next]_vars

\* Threads are not stopped by the operating system, an enqueue that has begun
\* is completed, and a future that handed out a waker uses it.  Nobody has to
\* enqueue anything.
Fairness ==
  /\ \A s \in Senders : WF_vars(Deliver(s))
  /\ \A w \in Workers : WF_vars(Execute(w))
  /\ WF_vars(Wake)

FairSpec == Spec /\ Fairness
-----------------------------------------------------------------------------
(* Properties.                                                             *)

Locations ==
  {"idle", "reschedule", "execute", "lock", "panicked", "poisoned", "unblock", "unblocked",
   "run_blocking", "ran_blocking", "control", "handle", "timers", "messages", "events",
   "more", "finish"}
TaskResults == AllResults \cup {"Pending"}

TypeOK ==
  /\ life \in Lifecycle /\ work \in Int
  /\ ctrlQueue \in Seq(ControlEvents)
  /\ timers \in Nat /\ messages \in Nat /\ events \in Nat
  /\ holder \in Workers \cup {NoWorker} /\ poisoned \in BOOLEAN
  /\ count \in Nat /\ current \in ControlEvents \cup TaskResults \cup {"None"}
  /\ future \in Transitions \cup {"None"}
  /\ pendings \in Nat /\ wakers \in Nat /\ blocks \in Nat
  /\ runQueue \in Nat
  /\ pc \in [Workers -> Locations]
  /\ spc \in [Senders -> {"idle", "push", "schedule"}]
  /\ item \in [Senders -> AllItems \cup {"None"}]
  /\ decision \in [Senders -> {"Schedule", "AlreadyScheduled", "NoWork", "None"}]
  /\ recovery \in {"default", "custom", "poisoned"} /\ told \in Reports
  /\ failed \in BOOLEAN /\ started \in BOOLEAN

Queued == Len(ctrlQueue) + timers + messages + events
Pushing == {s \in Senders : spc[s] = "push"}

\* The work count covers everything that is queued, about to be queued by a
\* thread that already incremented it, or taken by the running execution
\* ("must do it in this order to maintain counting guarantees",
\* enqueue_control).  Hence decrement_work never finds less than it
\* subtracts, which would abort the process.
WorkCovered == work >= Queued + Cardinality(Pushing) + count

\* Some thread will still execute the component: it is in the executor's
\* queue, a worker is on its way, or a sender decided to schedule it.
Scheduled ==
  \/ runQueue > 0
  \/ \E w \in Workers : pc[w] # "idle"
  \/ \E s \in Senders : decision[s] = "Schedule"

\* No lost wakeup: a component that is neither blocked nor over and has
\* counted work is scheduled, whatever increments, pushes, lifecycle changes
\* and decrements overlap.  Otherwise every later sender would find
\* AlreadyScheduled and the component would never run again.
NoLostWakeup == life \in {"Active", "Passive"} /\ work > 0 => Scheduled

\* A blocked component can be woken: its future holds a waker or an
\* execution is already under way.  Senders do not schedule it
\* (into_scheduling_decision gives NoWork), so nothing else would.
NoLostUnblock ==
  life = "Blocking" => wakers > 0 \/ runQueue > 0 \/ \E w \in Workers : pc[w] # "idle"

\* Between executions the BLOCKING flag in the lifecycle word and the
\* blocking future in the component context, two pieces of state that are
\* written at different times, say the same.
BlockingAgrees ==
  holder = NoWorker /\ ~poisoned => (life = "Blocking" <=> future # "None")

\* The work count is exact as long as no execution ended the component, so
\* that a component without work is not scheduled for ever.  (Stated for
\* instances without cancelled timers, which try_action drops uncounted.)
WorkExact ==
  life \in {"Active", "Passive", "Blocking"} =>
    work = Queued + Cardinality(Pushing) + count

\* Blocking suspends the component: no control event, timeout, message or
\* event is taken from a queue while the blocking future is not complete
\* (Handled::BlockOn).
SuspendedWhileBlocking ==
  [][life = "Blocking" => /\ Len(ctrlQueue') >= Len(ctrlQueue)
                          /\ timers' >= timers
                          /\ messages' >= messages /\ events' >= events]_vars

\* Messages, events and timeouts are handled only by a component whose last
\* lifecycle event was a Start ("A component only handles events/messages
\* once it is started", KompactSystem::start).
HandledOnlyWhenStarted ==
  [][~started => /\ timers' >= timers
                 /\ messages' >= messages /\ events' >= events]_vars

Over == life \in {"Destroyed", "Faulty"}

\* A component that was destroyed or became faulty stays so ("don't execute
\* anything", execute).
OverIsFinal ==
  [][Over => Over']_vars

\* No execution meets the mutex of a panicked component ("Component {} is
\* poisoned but not faulty!", inner_execute).
NeverPoisonedButNotFaulty == \A w \in Workers : pc[w] # "poisoned"

\* The supervisor knows what became of its component: between executions, and
\* once no panic is on its way to catch_unwind, the last message it was sent
\* is Killed for a destroyed component, Faulty for a faulty one, and not
\* Started for a stopped one, also when a component is revived and ends again.
\* It waits for these messages when the system shuts down.  The exception is
\* what the code can only log: a fault of a component whose recovery function
\* panicked.
SupervisorIsTold ==
  Supervised /\ holder = NoWorker /\ (\A w \in Workers : pc[w] \notin {"panicked", "poisoned"}) =>
    /\ life = "Destroyed" => told = "Killed"
    /\ life = "Faulty" => told = "Faulty" \/ recovery = "poisoned"
    /\ life = "Passive" => told \in {"None", "Stopped"}


\* Messages of an active component are handled whatever the stream of events:
\* if from some point on it stays active with messages queued, but without
\* control events and timeouts, which go first, it keeps receiving.
MessagesAreReceived ==
  \/ []<>(messages = 0 \/ life # "Active" \/ ctrlQueue # <<>> \/ timers > 0)
  \/ []<><<\E w \in Workers : Receive(w)>>_vars

\* The same in the presence of timeouts: a message limit of at least one
\* leaves messages a share of the throughput ("this setting will not allow
\* either type to be completely starved out", MESSAGE_PRIORITY).
MessagesKeepTheirShare ==
  \/ []<>(messages = 0 \/ life # "Active" \/ ctrlQueue # <<>>)
  \/ []<><<\E w \in Workers : Receive(w)>>_vars

\* Control events are handled unless the component is blocked or over.
ControlIsHandled ==
  \/ []<>(ctrlQueue = <<>> \/ life \notin {"Active", "Passive"})
  \/ []<><<\E w \in Workers : PopControl(w)>>_vars

\* A blocking future that completes unblocks the component.
BlockingEnds == life = "Blocking" ~> life # "Blocking"

\* An active component that has nothing left to handle is in the end not
\* scheduled any more ("Don't schedule the component, because it has nothing to
\* do", SchedulingDecision::NoWork): the work count falls back to zero.
IdleIsNotScheduled ==
  <>[](life = "Active" /\ Queued = 0 /\ \A s \in Senders : spc[s] = "idle") => <>[]~Scheduled

\* A component that stays passive, never started or stopped again, with no
\* lifecycle event outstanding is in the end not scheduled any more ("a
\* component that isn't started shouldn't be scheduled", KompactSystem::start).
StoppedIsNotScheduled ==
  <>[](life = "Passive" /\ ctrlQueue = <<>> /\ \A s \in Senders : spc[s] = "idle")
    => <>[]~Scheduled
=============================================================================
