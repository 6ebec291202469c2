----------------------------- MODULE Semaphore -----------------------------
(***************************************************************************)
(* The counting semaphore of task/semaphore.c on its wait queue.  A signal *)
(* always leaves its permit in count and wakes one waiter to compete for   *)
(* it, so a task that never slept may take the permit first.               *)
(***************************************************************************)
EXTENDS WaitQueue

CONSTANT MaxCount   \* SIZE_MAX

ASSUME CountAssumption == MaxCount \in Nat \ {0}

VARIABLE count      \* semaphore->count

semaphoreVars == <<wqVars, count>>

SemaphoreInit == WQInit /\ count = 0

\* One round of semaphore_wait: take a permit or block.
semaphore_wait(t) ==
    \/ /\ Runnable(t) /\ Free /\ pc[t] = "loop"
       /\ count # 0
       /\ count' = count - 1
       /\ pc' = [pc EXCEPT ![t] = "out"]
       /\ UNCHANGED <<waitq, waiting_on, state, wlock, popped>>
    \/ /\ count = 0
       /\ wait_queue_block_locked(t)
       /\ UNCHANGED count

\* semaphore_try_wait that finds a permit (the other outcome changes nothing).
semaphore_try_wait(t) ==
    /\ Runnable(t) /\ Free /\ pc[t] = "out"
    /\ count # 0
    /\ count' = count - 1
    /\ UNCHANGED wqVars

\* A signal that looks for a waiter only when there was no permit.
wake_on_first_permit(x) ==
    /\ Runnable(x) /\ Free /\ pc[x] = "out"
    /\ count # MaxCount
    /\ count' = count + 1
    /\ IF count = 0 THEN wait_queue_pop_locked(x) ELSE UNCHANGED wqVars
\* semaphore_signal up to the release of the lock; at SIZE_MAX it returns false.
semaphore_signal(x) ==
    /\ Runnable(x) /\ Free /\ pc[x] = "out"
    /\ count # MaxCount
    /\ count' = count + 1
    /\ wait_queue_pop_locked(x)

SemaphoreStep(x) ==
    \/ /\ x \in Task
       /\ Resume(x) \/ scheduler_block_current_wait(x)
       /\ UNCHANGED count
    \/ x \in Task /\ semaphore_wait(x)
    \/ scheduler_wake(x) /\ UNCHANGED count

SemaphoreNext ==
    \E x \in Ctx : \/ SemaphoreStep(x)
                   \/ x \in Task /\ Enter(x) /\ UNCHANGED count
                   \/ x \in Task /\ semaphore_try_wait(x)
                   \/ semaphore_signal(x)

\* A context that has begun a call goes on with it while it is runnable;
\* nobody is obliged to make a call.
SemaphoreSpec ==
    SemaphoreInit /\ [][SemaphoreNext]_semaphoreVars /\ \A x \in Ctx : WF_semaphoreVars(SemaphoreStep(x))

-----------------------------------------------------------------------------
\* Types, and the count stays a size_t.
SemaphoreTypeOK == WQTypeOK /\ count \in 0..MaxCount

\* While somebody sleeps in the queue, no more permits are available than
\* there are awake tasks about to test the count: a permit never lies unused
\* next to a sleeping waiter.
NoIdlePermit == waitq # <<>> => count <= Cardinality(InFlight)

\* No wake-up is lost in semaphore_wait: neither by the sleeper, which stays within
\* reach of the next signal, nor by a permit that nobody comes for.
NoLostWakeup == BlockedIsReachable /\ NoIdlePermit

\* If permits are available and tasks sleep, the permits are taken or the
\* sleepers are gone: the woken tasks do come back for them.
PermitsAreUsed == (count > 0 /\ waitq # <<>>) ~> (count = 0 \/ waitq = <<>>)
=============================================================================
