----------------------------- MODULE WaitQueue -----------------------------
(***************************************************************************)
(* A wait queue (task/wait_queue.c) with the two scheduler calls that      *)
(* connect it to task states, at the granularity of its spin lock.         *)
(*                                                                         *)
(* Semaphore and Mutex extend this module: both test a condition under     *)
(* waiters.lock, block on the queue with the lock still held, and hand the *)
(* lock over to scheduler_block_current_wait, which drops it only once the *)
(* task's state is published under scheduler_lock.  A waker pops under     *)
(* waiters.lock and calls scheduler_wake after releasing it.               *)
(*                                                                         *)
(* A READY or RUNNING task may take its next step at any time, whatever    *)
(* CPU it is on: which one runs is the scheduler's choice.                 *)
(***************************************************************************)
EXTENDS Naturals, Sequences, FiniteSets

CONSTANTS
    Task,   \* tasks that use the object
    Irq,    \* interrupt handlers: they may release it but never block
    NULL

ASSUME ContextAssumption == NULL \notin Task \cup Irq /\ Task \cap Irq = {}
                            /\ IsFiniteSet(Task)

VARIABLES
    waitq,       \* queue->head .. queue->tail
    waiting_on,  \* task->waiting_on is this queue
    state,       \* task->state; a runnable task is "READY"
    wlock,       \* holder of queue->lock across steps, or NULL
    pc,          \* where in a call each context is
    popped       \* the task a releaser has popped and still has to wake

wqVars == <<waitq, waiting_on, state, wlock, pc, popped>>

Ctx == Task \cup Irq

\* "out": in no call.  "loop": at the top of the for (;;) of a waiting call.
\* "pushed": in the queue and holding its lock, on the way to
\* scheduler_block_current_wait.  "asleep": inside it.  "wake": about to call
\* scheduler_wake.
PC == {"out", "loop", "pushed", "asleep", "wake"}

WQInit ==
    /\ waitq = <<>>
    /\ waiting_on = [t \in Task |-> FALSE]
    /\ state = [t \in Task |-> "READY"]
    /\ wlock = NULL
    /\ pc = [x \in Ctx |-> "out"]
    /\ popped = [x \in Ctx |-> NULL]

-----------------------------------------------------------------------------
Runnable(x) == x \in Task => state[x] = "READY"

\* spin_lock_irqsave(&queue->lock) in a section that ends with its release.
Free == wlock = NULL

\* The waiting call is entered.
Enter(t) ==
    /\ Runnable(t) /\ pc[t] = "out"
    /\ pc' = [pc EXCEPT ![t] = "loop"]
    /\ UNCHANGED <<waitq, waiting_on, state, wlock, popped>>

\* A woken task returns from wait_queue_block_locked to the top of the loop.
Resume(t) ==
    /\ Runnable(t) /\ pc[t] = "asleep"
    /\ pc' = [pc EXCEPT ![t] = "loop"]
    /\ UNCHANGED <<waitq, waiting_on, state, wlock, popped>>

\* Who holds queue->lock after the push (KeepNothing: nobody): the task itself, until its state is
\* published.
KeepNothing(t) == NULL
KeepLock(t) == t

\* wait_queue_block_locked: the caller has found that it must wait.
wait_queue_block_locked(t) ==
    /\ Runnable(t) /\ Free /\ pc[t] = "loop"
    /\ IF waiting_on[t]
         THEN UNCHANGED wqVars
         ELSE /\ waiting_on' = [waiting_on EXCEPT ![t] = TRUE]
              /\ waitq' = Append(waitq, t)
              /\ wlock' = KeepLock(t)
              /\ pc' = [pc EXCEPT ![t] = "pushed"]
              /\ UNCHANGED <<state, popped>>

\* scheduler_block_current_wait: BLOCKED is published under scheduler_lock and
\* only then is the wait lock released.
scheduler_block_current_wait(t) ==
    /\ Runnable(t) /\ pc[t] = "pushed"
    /\ state' = [state EXCEPT ![t] = "BLOCKED"]
    /\ wlock' = NULL
    /\ pc' = [pc EXCEPT ![t] = "asleep"]
    /\ UNCHANGED <<waitq, waiting_on, popped>>

\* wait_queue_pop_locked by a releaser: nobody to wake, or the first waiter.
wait_queue_pop_locked(x) ==
    \/ /\ waitq = <<>>
       /\ UNCHANGED wqVars
    \/ /\ waitq # <<>>
       /\ waitq' = Tail(waitq)
       /\ waiting_on' = [waiting_on EXCEPT ![Head(waitq)] = FALSE]
       /\ popped' = [popped EXCEPT ![x] = Head(waitq)]
       /\ pc' = [pc EXCEPT ![x] = "wake"]
       /\ UNCHANGED <<state, wlock>>

\* scheduler_wake(task): only a blocked task becomes READY.
scheduler_wake(x) ==
    /\ Runnable(x) /\ pc[x] = "wake"
    /\ state' = [state EXCEPT ![popped[x]] = "READY"]
    /\ popped' = [popped EXCEPT ![x] = NULL]
    /\ pc' = [pc EXCEPT ![x] = "out"]
    /\ UNCHANGED <<waitq, waiting_on, wlock>>

-----------------------------------------------------------------------------
\* Tasks that have been popped and have not yet tested the condition again.
InFlight == {t \in Task : \/ pc[t] = "asleep" /\ ~waiting_on[t]
                          \/ pc[t] = "loop"}

WQTypeOK ==
    /\ waitq \in Seq(Task)
    /\ waiting_on \in [Task -> BOOLEAN]
    /\ state \in [Task -> {"READY", "BLOCKED"}]
    /\ wlock \in Task \cup {NULL}
    /\ pc \in [Ctx -> PC]
    /\ popped \in [Ctx -> Task \cup {NULL}]

\* task->waiting_on says exactly which tasks are in the queue, each once, and
\* they are there only on the way to sleep or asleep.
QueueExact ==
    /\ \A i, j \in 1..Len(waitq) : waitq[i] = waitq[j] => i = j
    /\ \A t \in Task : waiting_on[t] <=> \E i \in 1..Len(waitq) : waitq[i] = t
    /\ \A t \in Task : waiting_on[t] => pc[t] \in {"pushed", "asleep"}

\* No lost wake-up: a blocked task is in the queue, where the next release
\* finds it, or some releaser has popped it and is about to wake it.
BlockedIsReachable ==
    \A t \in Task : state[t] = "BLOCKED" =>
        waiting_on[t] \/ \E x \in Ctx : pc[x] = "wake" /\ popped[x] = t
=============================================================================
