------------------------------- MODULE Mutex -------------------------------
(***************************************************************************)
(* The mutex of task/mutex.c on its wait queue.  mutex_unlock frees the    *)
(* mutex before it wakes a waiter, so the waiter competes for it with      *)
(* every task that calls mutex_lock or mutex_try_lock in between.          *)
(***************************************************************************)
EXTENDS WaitQueue

VARIABLES
    locked,  \* mutex->locked
    owner    \* mutex->owner

mutexVars == <<wqVars, locked, owner>>
mtxVars == <<locked, owner>>

MutexInit == WQInit /\ locked = FALSE /\ owner = NULL

Take(t) == locked' = TRUE /\ owner' = t

\* One round of mutex_lock: refused to the owner, taken when free, else block.
mutex_lock(t) ==
    \/ /\ Runnable(t) /\ Free /\ pc[t] = "loop"
       /\ IF locked THEN owner = t /\ UNCHANGED mtxVars ELSE Take(t)
       /\ pc' = [pc EXCEPT ![t] = "out"]
       /\ UNCHANGED <<waitq, waiting_on, state, wlock, popped>>
    \/ /\ locked /\ owner # t
       /\ wait_queue_block_locked(t)
       /\ UNCHANGED mtxVars

\* mutex_try_lock without the test of locked.
try_lock_blind(t) ==
    /\ Runnable(t) /\ Free /\ pc[t] = "out"
    /\ Take(t)
    /\ UNCHANGED wqVars
\* mutex_try_lock that succeeds.
mutex_try_lock(t) ==
    /\ Runnable(t) /\ Free /\ pc[t] = "out"
    /\ ~locked
    /\ Take(t)
    /\ UNCHANGED wqVars

\* mutex_unlock by the owner, up to the release of the lock; to anybody else it
\* returns false.
unlock_no_wake(t) ==
    /\ Runnable(t) /\ Free /\ pc[t] = "out"
    /\ locked /\ owner = t
    /\ owner' = NULL /\ locked' = FALSE
    /\ UNCHANGED wqVars
mutex_unlock(t) ==
    /\ Runnable(t) /\ Free /\ pc[t] = "out"
    /\ locked /\ owner = t
    /\ owner' = NULL /\ locked' = FALSE
    /\ wait_queue_pop_locked(t)

MutexStep(t) ==
    \/ mutex_lock(t)
    \/ /\ Resume(t) \/ scheduler_block_current_wait(t) \/ scheduler_wake(t)
       /\ UNCHANGED mtxVars

MutexNext ==
    \E t \in Task : \/ MutexStep(t)
                    \/ Enter(t) /\ UNCHANGED mtxVars
                    \/ mutex_try_lock(t)
                    \/ mutex_unlock(t)

\* A task goes on with a call it has begun while it is runnable.
MutexSpec == MutexInit /\ [][MutexNext]_mutexVars /\ \A t \in Task : WF_mutexVars(MutexStep(t))

-----------------------------------------------------------------------------
\* Types.
MutexTypeOK == WQTypeOK /\ locked \in BOOLEAN /\ owner \in Task \cup {NULL}

\* locked and owner say the same thing in every state another CPU can see.
OwnerExact == locked <=> owner # NULL

\* A free mutex with sleeping waiters is about to be tried by an awake task.
NoStrandedWaiter == waitq # <<>> /\ ~locked => InFlight # {}

\* The mutex implements the lock service: no step takes it from its owner or
\* gives it to two.
Service == INSTANCE LockService WITH owner <- owner
ServiceSpec == Service!Spec

\* The mutex does not stay free while somebody waits for it.
WaitersGetOn == (waitq # <<>> /\ ~locked) ~> (locked \/ waitq = <<>>)
=============================================================================
