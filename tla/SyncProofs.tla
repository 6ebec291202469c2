----------------------------- MODULE SyncProofs -----------------------------
(***************************************************************************)
(* The wait queue, the semaphore and the mutex for any number of tasks:    *)
(* first what every operation of a wait queue preserves, which both share; *)
(* then that the semaphore loses no wake-up and leaves no permit unused    *)
(* next to a sleeping waiter; then that the mutex implements LockService,  *)
(* loses no wake-up and never lies free next to a waiter nobody wakes.     *)
(***************************************************************************)
EXTENDS Semaphore, Mutex, SequenceTheorems, FiniteSetTheorems, TLAPS

\* The queue lock is held across steps exactly by a task between its push and
\* the publication of its state.
LockExact ==
    \A t \in Task : /\ pc[t] = "pushed" <=> wlock = t
                    /\ pc[t] = "pushed" => waiting_on[t]

\* Which calls go with which states: only a task inside
\* scheduler_block_current_wait is blocked, and it returns from it only when
\* it is out of the queue.
SleepExact ==
    \A t \in Task : /\ state[t] = "BLOCKED" => pc[t] = "asleep"
                    /\ pc[t] = "asleep" /\ state[t] = "READY" => ~waiting_on[t]

\* A popped task sleeps outside the queue, and one releaser answers for it.
PoppedExact ==
    /\ \A x \in Ctx : pc[x] = "wake" =>
          /\ popped[x] \in Task /\ ~waiting_on[popped[x]]
          /\ state[popped[x]] = "BLOCKED"
    /\ \A x, y \in Ctx : pc[x] = "wake" /\ pc[y] = "wake" /\ popped[x] = popped[y] => x = y

WQInv == WQTypeOK /\ QueueExact /\ BlockedIsReachable
            /\ LockExact /\ SleepExact /\ PoppedExact

\* An empty queue and nobody in a call.
LEMMA WQInitInv == WQInit => WQInv
<1> SUFFICES ASSUME WQInit PROVE WQInv
  OBVIOUS
<1>1. WQTypeOK
  BY ContextAssumption, EmptySeq DEF WQInit, WQTypeOK, PC
<1>2. QueueExact
  BY EmptySeq DEF WQInit, QueueExact, Ctx
<1>3. LockExact
  BY ContextAssumption DEF WQInit, LockExact, Ctx
<1>4. SleepExact /\ BlockedIsReachable /\ PoppedExact
  BY DEF WQInit, SleepExact, BlockedIsReachable, PoppedExact, Ctx
<1> QED BY <1>1, <1>2, <1>3, <1>4 DEF WQInv

\* A task that moves between "out" and "loop", or from sleep back to "loop".
LEMMA MoveInv ==
    ASSUME WQInv, NEW t \in Task, NEW p \in {"out", "loop"},
           Runnable(t), pc[t] \in {"out", "loop", "asleep"},
           pc' = [pc EXCEPT ![t] = p],
           UNCHANGED <<waitq, waiting_on, state, wlock, popped>>
    PROVE  WQInv'
<1>0. t \in Ctx /\ Task \subseteq Ctx /\ state[t] = "READY" /\ pc \in [Ctx -> PC]
  BY DEF Ctx, Runnable, WQInv, WQTypeOK
<1>1. WQTypeOK'
  BY <1>0 DEF WQInv, WQTypeOK, PC
<1>2. QueueExact'
  <2>1. ~waiting_on[t]
    BY <1>0 DEF WQInv, QueueExact, SleepExact
  <2>2. \A u \in Task : u # t => pc'[u] = pc[u]
    BY <1>0
  <2> QED BY <2>1, <2>2 DEF WQInv, QueueExact
<1>3. LockExact'
  BY <1>0 DEF WQInv, LockExact
<1>4. SleepExact'
  BY <1>0 DEF WQInv, SleepExact
<1>5. BlockedIsReachable'
  BY <1>0 DEF WQInv, BlockedIsReachable
<1>6. PoppedExact'
  BY <1>0 DEF WQInv, PoppedExact
<1> QED BY <1>1, <1>2, <1>3, <1>4, <1>5, <1>6 DEF WQInv

\* wait_queue_block_locked keeps the lock, so nobody sees the task in the queue
\* before it is BLOCKED.
LEMMA BlockLockedInv ==
    ASSUME WQInv, NEW t \in Task, wait_queue_block_locked(t)
    PROVE  WQInv'
<1>0. t \in Ctx /\ Task \subseteq Ctx /\ pc[t] = "loop" /\ wlock = NULL /\ state[t] = "READY"
  BY DEF Ctx, wait_queue_block_locked, Runnable, Free
<1>1. ~waiting_on[t]
  BY <1>0 DEF WQInv, QueueExact
<1>2. /\ waiting_on' = [waiting_on EXCEPT ![t] = TRUE] /\ waitq' = Append(waitq, t)
      /\ wlock' = t /\ pc' = [pc EXCEPT ![t] = "pushed"] /\ UNCHANGED <<state, popped>>
  BY <1>1 DEF wait_queue_block_locked, KeepLock
<1>3. /\ waitq \in Seq(Task) /\ waiting_on \in [Task -> BOOLEAN] /\ pc \in [Ctx -> PC]
      /\ Len(waitq) \in Nat
  BY LenProperties DEF WQInv, WQTypeOK
<1>4. /\ waitq' \in Seq(Task) /\ Len(waitq') = Len(waitq) + 1
      /\ \A i \in 1..Len(waitq) : waitq'[i] = waitq[i]
      /\ waitq'[Len(waitq) + 1] = t
  BY <1>2, <1>3, AppendProperties
<1>5. WQTypeOK'
  BY <1>0, <1>2, <1>3, <1>4 DEF WQInv, WQTypeOK, PC
<1>6. QueueExact'
  <2>1. \A i \in 1..Len(waitq) : waitq[i] # t
    BY <1>1 DEF WQInv, QueueExact
  <2>2. \A i \in 1..Len(waitq') : i \in 1..Len(waitq) \/ i = Len(waitq) + 1
    BY <1>3, <1>4
  <2>3. \A i, j \in 1..Len(waitq') : waitq'[i] = waitq'[j] => i = j
    BY <1>4, <2>1, <2>2 DEF WQInv, QueueExact
  <2>4. \A u \in Task : waiting_on'[u] <=> \E i \in 1..Len(waitq') : waitq'[i] = u
    <3> TAKE u \in Task
    <3>1. CASE u = t
      <4>1. waiting_on'[u]
        BY <1>2, <1>3, <3>1
      <4>2. Len(waitq) + 1 \in 1..Len(waitq')
        BY <1>3, <1>4
      <4> QED BY <1>4, <3>1, <4>1, <4>2
    <3>2. CASE u # t
      <4>1. waiting_on'[u] <=> waiting_on[u]
        BY <1>2, <1>3, <3>2
      <4>2. waiting_on[u] <=> \E i \in 1..Len(waitq) : waitq[i] = u
        BY DEF WQInv, QueueExact
      <4>3. (\E i \in 1..Len(waitq) : waitq[i] = u)
              <=> \E i \in 1..Len(waitq') : waitq'[i] = u
        BY <1>3, <1>4, <2>2, <3>2
      <4> QED BY <4>1, <4>2, <4>3
    <3> QED BY <3>1, <3>2
  <2>5. \A u \in Task : waiting_on'[u] => pc'[u] \in {"pushed", "asleep"}
    BY <1>0, <1>2, <1>3 DEF WQInv, QueueExact
  <2> QED BY <2>3, <2>4, <2>5 DEF QueueExact
<1>7. LockExact'
  BY <1>0, <1>2, <1>3, ContextAssumption DEF WQInv, LockExact
<1>8. SleepExact'
  BY <1>0, <1>2, <1>3 DEF WQInv, SleepExact
<1>9. BlockedIsReachable'
  BY <1>0, <1>2, <1>3 DEF WQInv, BlockedIsReachable
<1>10. PoppedExact'
  BY <1>0, <1>2, <1>3 DEF WQInv, PoppedExact
<1> QED BY <1>5, <1>6, <1>7, <1>8, <1>9, <1>10 DEF WQInv

\* scheduler_block_current_wait publishes a state that matches the queue.
LEMMA BlockCurrentInv ==
    ASSUME WQInv, NEW t \in Task, scheduler_block_current_wait(t)
    PROVE  WQInv'
<1>0. /\ t \in Ctx /\ Task \subseteq Ctx /\ pc[t] = "pushed" /\ state[t] = "READY"
      /\ state' = [state EXCEPT ![t] = "BLOCKED"] /\ wlock' = NULL
      /\ pc' = [pc EXCEPT ![t] = "asleep"] /\ UNCHANGED <<waitq, waiting_on, popped>>
      /\ pc \in [Ctx -> PC] /\ state \in [Task -> {"READY", "BLOCKED"}]
  BY DEF Ctx, scheduler_block_current_wait, Runnable, WQInv, WQTypeOK
<1>1. WQTypeOK'
  BY <1>0 DEF WQInv, WQTypeOK, PC
<1>a. waiting_on[t]
  BY <1>0 DEF WQInv, LockExact
<1>2. QueueExact'
  BY <1>0 DEF WQInv, QueueExact
<1>3. LockExact'
  BY <1>0, ContextAssumption DEF WQInv, LockExact
<1>4. SleepExact'
  BY <1>0 DEF WQInv, SleepExact
<1>5. BlockedIsReachable'
  BY <1>0, <1>a DEF WQInv, BlockedIsReachable
<1>6. PoppedExact'
  BY <1>0 DEF WQInv, PoppedExact
<1> QED BY <1>1, <1>2, <1>3, <1>4, <1>5, <1>6 DEF WQInv

\* With the queue lock free nobody is between its push and its sleep.
LEMMA FreeNotPushed ==
    ASSUME WQInv, Free
    PROVE  \A u \in Task : pc[u] # "pushed" /\ wlock # u
<1>1. \A u \in Task : wlock # u
  BY ContextAssumption DEF Free
<1> QED BY <1>1 DEF WQInv, LockExact

\* A releaser that holds no popped task takes the first waiter out.
LEMMA PopInv ==
    ASSUME WQInv, NEW x \in Ctx, Free, pc[x] = "out", wait_queue_pop_locked(x)
    PROVE  /\ WQInv'
           /\ waitq # <<>> => /\ Head(waitq) \in InFlight' /\ Head(waitq) \notin InFlight
                              /\ InFlight' = InFlight \cup {Head(waitq)}
           /\ waitq = <<>> => InFlight' = InFlight
<1>1. CASE waitq = <<>>
  <2>1. UNCHANGED wqVars
    BY <1>1 DEF wait_queue_pop_locked
  <2> QED BY <1>1, <2>1 DEF wqVars, WQInv, WQTypeOK, QueueExact, BlockedIsReachable,
                            LockExact, SleepExact, PoppedExact, InFlight
<1>2. CASE waitq # <<>>
  <2> DEFINE h == Head(waitq)
  <2>0. /\ waitq' = Tail(waitq) /\ waiting_on' = [waiting_on EXCEPT ![h] = FALSE]
        /\ popped' = [popped EXCEPT ![x] = h] /\ pc' = [pc EXCEPT ![x] = "wake"]
        /\ UNCHANGED <<state, wlock>>
    BY <1>2 DEF wait_queue_pop_locked
  <2>1. /\ waitq \in Seq(Task) /\ Len(waitq) \in Nat \ {0} /\ h = waitq[1] /\ h \in Task
        /\ waiting_on \in [Task -> BOOLEAN] /\ pc \in [Ctx -> PC]
        /\ popped \in [Ctx -> Task \cup {NULL}] /\ state \in [Task -> {"READY", "BLOCKED"}]
    BY <1>2, EmptySeq, HeadTailProperties DEF WQInv, WQTypeOK
  <2>2. /\ waitq' \in Seq(Task) /\ Len(waitq') = Len(waitq) - 1
        /\ \A i \in 1..Len(waitq') : waitq'[i] = waitq[i + 1]
    BY <1>2, <2>0, <2>1, HeadTailProperties
  <2>3. h \in Ctx /\ Task \subseteq Ctx /\ 1 \in 1..Len(waitq)
    BY <2>1 DEF Ctx
  <2>4. waiting_on[h] /\ pc[h] = "asleep" /\ state[h] = "BLOCKED" /\ h # x
    <3>1. waiting_on[h]
      BY <2>1, <2>3 DEF WQInv, QueueExact
    <3>2. pc[h] \in {"pushed", "asleep"} /\ pc[h] # "pushed"
      BY <2>1, <3>1, FreeNotPushed DEF WQInv, QueueExact
    <3> QED BY <2>1, <3>1, <3>2 DEF WQInv, SleepExact
  <2> HIDE DEF h
  <2>5. WQTypeOK'
    BY <2>0, <2>1, <2>2, <2>3 DEF WQInv, WQTypeOK, PC
  <2>6. QueueExact'
    <3>1. \A i \in 1..Len(waitq') : i + 1 \in 1..Len(waitq) /\ i + 1 # 1
      BY <2>1, <2>2
    <3>2. \A i \in 1..Len(waitq) : i = 1 \/ (i - 1 \in 1..Len(waitq') /\ waitq'[i - 1] = waitq[i])
      BY <2>1, <2>2
    <3>3. \A i, j \in 1..Len(waitq') : waitq'[i] = waitq'[j] => i = j
      BY <2>1, <2>2, <3>1 DEF WQInv, QueueExact
    <3>4. \A u \in Task : waiting_on'[u] <=> \E i \in 1..Len(waitq') : waitq'[i] = u
      <4> TAKE u \in Task
      <4>1. CASE u = h
        <5>1. ~waiting_on'[u]
          BY <2>0, <2>1, <4>1
        <5>2. \A i \in 1..Len(waitq') : waitq'[i] # u
          BY <2>1, <2>2, <2>3, <3>1, <4>1 DEF WQInv, QueueExact
        <5> QED BY <5>1, <5>2
      <4>2. CASE u # h
        <5>1. waiting_on'[u] <=> waiting_on[u]
          BY <2>0, <2>1, <4>2
        <5>2. waiting_on[u] <=> \E i \in 1..Len(waitq) : waitq[i] = u
          BY DEF WQInv, QueueExact
        <5>3. (\E i \in 1..Len(waitq) : waitq[i] = u)
                <=> \E i \in 1..Len(waitq') : waitq'[i] = u
          BY <2>1, <2>2, <3>1, <3>2, <4>2, ZenonT(60)
        <5> QED BY <5>1, <5>2, <5>3
      <4> QED BY <4>1, <4>2
    <3>5. \A u \in Task : waiting_on'[u] => pc'[u] \in {"pushed", "asleep"}
      <4> SUFFICES ASSUME NEW u \in Task, waiting_on'[u] PROVE pc'[u] \in {"pushed", "asleep"}
        OBVIOUS
      <4>1. waiting_on[u]
        BY <2>0, <2>1
      <4>2. pc[u] \in {"pushed", "asleep"}
        BY <4>1 DEF WQInv, QueueExact
      <4> QED BY <2>0, <2>1, <2>3, <4>2
    <3> QED BY <3>3, <3>4, <3>5 DEF QueueExact
  <2>7. LockExact'
    <3>1. \A u \in Task : pc[u] # "pushed" /\ pc'[u] # "pushed" /\ wlock' # u
      BY <2>0, <2>1, <2>3, FreeNotPushed
    <3> QED BY <3>1 DEF LockExact
  <2>8. SleepExact'
    BY <2>0, <2>1, <2>3, <2>4 DEF WQInv, SleepExact
  <2>9. BlockedIsReachable'
    <3> SUFFICES ASSUME NEW u \in Task, state'[u] = "BLOCKED"
                 PROVE  waiting_on'[u] \/ \E y \in Ctx : pc'[y] = "wake" /\ popped'[y] = u
      BY DEF BlockedIsReachable
    <3>1. CASE u = h
      <4>1. pc'[x] = "wake" /\ popped'[x] = h
        BY <2>0, <2>1
      <4> QED BY <3>1, <4>1
    <3>2. CASE u # h /\ waiting_on[u]
      BY <2>0, <2>1, <3>2
    <3>3. CASE u # h /\ ~waiting_on[u]
      <4>1. PICK y \in Ctx : pc[y] = "wake" /\ popped[y] = u
        BY <2>0, <3>3 DEF WQInv, BlockedIsReachable
      <4>2. pc'[y] = "wake" /\ popped'[y] = u
        BY <2>0, <2>1, <4>1
      <4> QED BY <4>2
    <3> QED BY <3>1, <3>2, <3>3
  <2>10. PoppedExact'
    <3>1. \A y \in Ctx : pc'[y] = "wake" => (y = x /\ popped'[y] = h)
              \/ (y # x /\ pc[y] = "wake" /\ popped'[y] = popped[y])
      BY <2>0, <2>1
    <3>2. \A y \in Ctx : pc[y] = "wake" => popped[y] # h
      BY <2>4 DEF WQInv, PoppedExact
    <3>3. \A y \in Ctx : pc'[y] = "wake" =>
             /\ popped'[y] \in Task /\ ~waiting_on'[popped'[y]]
             /\ state'[popped'[y]] = "BLOCKED"
      BY <2>0, <2>1, <2>4, <3>1 DEF WQInv, PoppedExact
    <3>4. \A y, z \in Ctx : pc'[y] = "wake" /\ pc'[z] = "wake" /\ popped'[y] = popped'[z] => y = z
      BY <3>1, <3>2 DEF WQInv, PoppedExact
    <3> QED BY <3>3, <3>4 DEF PoppedExact
  <2>11. InFlight' = InFlight \cup {h} /\ h \in InFlight' /\ h \notin InFlight
    <3>1. \A u \in Task : pc'[u] = IF u = x THEN "wake" ELSE pc[u]
      BY <2>0, <2>1, <2>3
    <3>2. \A u \in Task : waiting_on'[u] = IF u = h THEN FALSE ELSE waiting_on[u]
      BY <2>0, <2>1
    <3>3. \A u \in Task : u \in InFlight' <=> u \in InFlight \/ u = h
      BY <2>1, <2>4, <3>1, <3>2 DEF InFlight
    <3> QED BY <2>1, <2>4, <3>3 DEF InFlight
  <2> QED BY <1>2, <2>5, <2>6, <2>7, <2>8, <2>9, <2>10, <2>11 DEF WQInv, h
<1> QED BY <1>1, <1>2

\* scheduler_wake makes READY a task that nobody else is about to wake.
LEMMA WakeInv ==
    ASSUME WQInv, NEW x \in Ctx, scheduler_wake(x)
    PROVE  WQInv' /\ InFlight' = InFlight
<1> DEFINE h == popped[x]
<1>0. /\ pc[x] = "wake" /\ state' = [state EXCEPT ![h] = "READY"]
      /\ popped' = [popped EXCEPT ![x] = NULL] /\ pc' = [pc EXCEPT ![x] = "out"]
      /\ UNCHANGED <<waitq, waiting_on, wlock>>
  BY DEF scheduler_wake
<1>1. /\ h \in Task /\ ~waiting_on[h] /\ state[h] = "BLOCKED" /\ pc[h] = "asleep" /\ h # x
      /\ pc \in [Ctx -> PC] /\ popped \in [Ctx -> Task \cup {NULL}]
      /\ state \in [Task -> {"READY", "BLOCKED"}] /\ Task \subseteq Ctx
  BY <1>0 DEF WQInv, PoppedExact, SleepExact, WQTypeOK, Ctx
<1> HIDE DEF h
<1>2. WQTypeOK'
  BY <1>0, <1>1 DEF WQInv, WQTypeOK, PC
<1>3. QueueExact'
  BY <1>0, <1>1 DEF WQInv, QueueExact
<1>4. LockExact'
  BY <1>0, <1>1 DEF WQInv, LockExact
<1>5. SleepExact'
  BY <1>0, <1>1 DEF WQInv, SleepExact
<1>6. BlockedIsReachable'
  <2> SUFFICES ASSUME NEW u \in Task, state'[u] = "BLOCKED"
               PROVE  waiting_on'[u] \/ \E y \in Ctx : pc'[y] = "wake" /\ popped'[y] = u
    BY DEF BlockedIsReachable
  <2>1. u # h /\ state[u] = "BLOCKED"
    BY <1>0, <1>1
  <2>2. CASE waiting_on[u]
    BY <1>0, <2>2
  <2>3. CASE ~waiting_on[u]
    <3>1. PICK y \in Ctx : pc[y] = "wake" /\ popped[y] = u
      BY <2>1, <2>3 DEF WQInv, BlockedIsReachable
    <3>2. y # x
      BY <2>1, <3>1 DEF h
    <3>3. pc'[y] = "wake" /\ popped'[y] = u
      BY <1>0, <1>1, <3>1, <3>2
    <3> QED BY <3>3
  <2> QED BY <2>2, <2>3
<1>7. PoppedExact'
  <2>1. \A y \in Ctx : pc'[y] = "wake" => y # x /\ pc[y] = "wake" /\ popped'[y] = popped[y]
    BY <1>0, <1>1
  <2>2. \A y \in Ctx : pc'[y] = "wake" => popped[y] # h
    BY <1>0, <2>1 DEF WQInv, PoppedExact, h
  <2> QED BY <1>0, <1>1, <2>1, <2>2 DEF WQInv, PoppedExact
<1>8. InFlight' = InFlight
  BY <1>0, <1>1 DEF InFlight
<1> QED BY <1>2, <1>3, <1>4, <1>5, <1>6, <1>7, <1>8 DEF WQInv

-----------------------------------------------------------------------------
(* The semaphore.                                                          *)
SemaphoreInv == WQInv /\ SemaphoreTypeOK /\ NoIdlePermit

\* The set of tasks about to test the count is finite.
LEMMA FlightFinite == IsFiniteSet(InFlight) /\ Cardinality(InFlight) \in Nat
<1>1. InFlight \subseteq Task /\ IsFiniteSet(Task)
  BY ContextAssumption DEF InFlight
<1> QED BY <1>1, FS_Subset, FS_CardinalityType

\* No permit and nobody waiting.
LEMMA SemaphoreInitInv == SemaphoreInit => SemaphoreInv
<1> SUFFICES ASSUME SemaphoreInit PROVE SemaphoreInv
  OBVIOUS
<1>1. WQInv
  BY WQInitInv DEF SemaphoreInit
<1>2. SemaphoreTypeOK /\ NoIdlePermit
  BY <1>1, CountAssumption DEF SemaphoreInit, WQInit, SemaphoreTypeOK, WQInv, NoIdlePermit
<1> QED BY <1>1, <1>2 DEF SemaphoreInv

\* Every step preserves the invariant.
LEMMA SemaphoreNextInv ==
    ASSUME SemaphoreInv, [SemaphoreNext]_semaphoreVars
    PROVE  SemaphoreInv'
<1>0. /\ SemaphoreTypeOK /\ WQInv /\ NoIdlePermit /\ count \in Nat /\ MaxCount \in Nat
      /\ count \in 0..MaxCount /\ pc \in [Ctx -> PC] /\ Task \subseteq Ctx
  BY CountAssumption DEF SemaphoreInv, SemaphoreTypeOK, WQInv, WQTypeOK, Ctx
<1>1. Cardinality(InFlight) \in Nat /\ Cardinality(InFlight') \in Nat
      /\ IsFiniteSet(InFlight) /\ IsFiniteSet(InFlight')
  <2>1. IsFiniteSet(InFlight') /\ Cardinality(InFlight') \in Nat
    <3>1. InFlight' \subseteq Task /\ IsFiniteSet(Task)
      BY ContextAssumption DEF InFlight
    <3> QED BY <3>1, FS_Subset, FS_CardinalityType
  <2> QED BY <2>1, FlightFinite
<1>2. CASE UNCHANGED semaphoreVars
  <2>1. WQInv'
    BY <1>0, <1>2 DEF semaphoreVars, wqVars, WQInv, WQTypeOK, QueueExact, BlockedIsReachable,
                      LockExact, SleepExact, PoppedExact
  <2>2. SemaphoreTypeOK' /\ NoIdlePermit'
    BY <1>0, <1>2, <2>1 DEF semaphoreVars, wqVars, SemaphoreTypeOK, WQInv, NoIdlePermit, InFlight
  <2> QED BY <2>1, <2>2 DEF SemaphoreInv
<1>3. ASSUME NEW t \in Task, semaphore_wait(t) PROVE SemaphoreInv'
  <2>1. CASE /\ Runnable(t) /\ Free /\ pc[t] = "loop" /\ count # 0 /\ count' = count - 1
             /\ pc' = [pc EXCEPT ![t] = "out"]
             /\ UNCHANGED <<waitq, waiting_on, state, wlock, popped>>
    <3>1. WQInv'
      BY <1>0, <2>1, MoveInv
    <3>2. count' \in 0..MaxCount
      BY <1>0, <2>1
    <3>3. InFlight' = InFlight \ {t} /\ t \in InFlight
      BY <1>0, <2>1 DEF InFlight
    <3>4. Cardinality(InFlight') = Cardinality(InFlight) - 1
      BY <1>1, <3>3, FS_RemoveElement
    <3>5. NoIdlePermit'
      BY <1>0, <1>1, <2>1, <3>4 DEF NoIdlePermit
    <3> QED BY <3>1, <3>2, <3>5 DEF SemaphoreInv, SemaphoreTypeOK, WQInv
  <2>2. CASE count = 0 /\ wait_queue_block_locked(t) /\ count' = count
    <3>1. WQInv'
      BY <1>0, <2>2, BlockLockedInv
    <3>2. SemaphoreTypeOK' /\ NoIdlePermit'
      BY <1>0, <1>1, <2>2, <3>1 DEF SemaphoreTypeOK, WQInv, NoIdlePermit
    <3> QED BY <3>1, <3>2 DEF SemaphoreInv
  <2> QED BY <1>3, <2>1, <2>2 DEF semaphore_wait
<1>4. ASSUME NEW t \in Task, Resume(t) \/ Enter(t), count' = count PROVE SemaphoreInv'
  <2>1. WQInv'
    BY <1>0, <1>4, MoveInv DEF Resume, Enter
  <2>2. InFlight \subseteq InFlight' /\ waitq' = waitq
    <3>1. pc' = [pc EXCEPT ![t] = "loop"] /\ waiting_on' = waiting_on /\ waitq' = waitq
      BY <1>4 DEF Resume, Enter
    <3> QED BY <1>0, <3>1 DEF InFlight
  <2>3. Cardinality(InFlight) <= Cardinality(InFlight')
    BY <1>1, <2>2, FS_Subset
  <2>4. SemaphoreTypeOK' /\ NoIdlePermit'
    BY <1>0, <1>1, <1>4, <2>1, <2>2, <2>3 DEF SemaphoreTypeOK, WQInv, NoIdlePermit
  <2> QED BY <2>1, <2>4 DEF SemaphoreInv
<1>5. ASSUME NEW t \in Task, scheduler_block_current_wait(t), count' = count PROVE SemaphoreInv'
  <2>1. WQInv'
    BY <1>0, <1>5, BlockCurrentInv
  <2>2. InFlight' = InFlight /\ waitq' = waitq
    <3>1. /\ waiting_on[t] /\ waiting_on' = waiting_on /\ pc[t] = "pushed"
          /\ pc' = [pc EXCEPT ![t] = "asleep"] /\ waitq' = waitq
      BY <1>0, <1>5 DEF scheduler_block_current_wait, WQInv, LockExact
    <3> QED BY <1>0, <3>1 DEF InFlight
  <2>3. SemaphoreTypeOK' /\ NoIdlePermit'
    BY <1>0, <1>5, <2>1, <2>2 DEF SemaphoreTypeOK, WQInv, NoIdlePermit
  <2> QED BY <2>1, <2>3 DEF SemaphoreInv
<1>6. ASSUME NEW x \in Ctx, scheduler_wake(x), count' = count PROVE SemaphoreInv'
  <2>1. WQInv' /\ InFlight' = InFlight /\ waitq' = waitq
    BY <1>0, <1>6, WakeInv DEF scheduler_wake
  <2>2. SemaphoreTypeOK' /\ NoIdlePermit'
    BY <1>0, <1>6, <2>1 DEF SemaphoreTypeOK, WQInv, NoIdlePermit
  <2> QED BY <2>1, <2>2 DEF SemaphoreInv
<1>7. ASSUME NEW t \in Task, semaphore_try_wait(t) PROVE SemaphoreInv'
  <2>1. count # 0 /\ count' = count - 1 /\ UNCHANGED wqVars
    BY <1>7 DEF semaphore_try_wait
  <2>2. WQInv'
    BY <1>0, <2>1 DEF wqVars, WQInv, WQTypeOK, QueueExact, BlockedIsReachable,
                      LockExact, SleepExact, PoppedExact
  <2>3. InFlight' = InFlight /\ waitq' = waitq
    BY <2>1 DEF wqVars, InFlight
  <2>4. count' \in 0..MaxCount /\ count' <= count
    BY <1>0, <2>1
  <2>5. NoIdlePermit'
    BY <1>0, <1>1, <2>3, <2>4 DEF NoIdlePermit
  <2> QED BY <2>2, <2>4, <2>5 DEF SemaphoreInv, SemaphoreTypeOK, WQInv
<1>8. ASSUME NEW x \in Ctx, semaphore_signal(x) PROVE SemaphoreInv'
  <2>1. /\ Free /\ pc[x] = "out" /\ count # MaxCount /\ count' = count + 1
        /\ wait_queue_pop_locked(x)
    BY <1>8 DEF semaphore_signal
  <2>2. WQInv'
    BY <1>0, <2>1, PopInv
  <2>3. count' \in 0..MaxCount
    BY <1>0, <2>1
  <2>4. NoIdlePermit'
    <3>1. CASE waitq = <<>>
      BY <2>1, <3>1 DEF wait_queue_pop_locked, wqVars, NoIdlePermit
    <3>2. CASE waitq # <<>>
      <4>1. Head(waitq) \notin InFlight /\ InFlight' = InFlight \cup {Head(waitq)}
        BY <1>0, <2>1, <3>2, PopInv
      <4>2. Cardinality(InFlight') = Cardinality(InFlight) + 1
        BY <1>1, <4>1, FS_AddElement
      <4> QED BY <1>0, <1>1, <2>1, <3>2, <4>2 DEF NoIdlePermit
    <3> QED BY <3>1, <3>2
  <2> QED BY <2>2, <2>3, <2>4 DEF SemaphoreInv, SemaphoreTypeOK, WQInv
<1> QED BY <1>2, <1>3, <1>4, <1>5, <1>6, <1>7, <1>8 DEF SemaphoreNext, SemaphoreStep

\* The invariant holds in every reachable state.
LEMMA SemaphoreSpecInv == SemaphoreSpec => []SemaphoreInv
<1>1. SemaphoreInv /\ [SemaphoreNext]_semaphoreVars => SemaphoreInv'
  BY SemaphoreNextInv
<1> QED BY <1>1, SemaphoreInitInv, PTL DEF SemaphoreSpec

\* For any number of tasks: a task blocked in semaphore_wait is in the queue or
\* is being woken.
THEOREM SemaphoreNoLostWakeup == SemaphoreSpec => []BlockedIsReachable
<1>1. SemaphoreInv => BlockedIsReachable
  BY DEF SemaphoreInv, WQInv
<1> QED BY <1>1, SemaphoreSpecInv, PTL

\* For any number of tasks: while one sleeps, no more permits are available
\* than awake tasks are about to take.
THEOREM SemaphoreNoStrandedWaiter == SemaphoreSpec => []NoIdlePermit
<1>1. SemaphoreInv => NoIdlePermit
  BY DEF SemaphoreInv
<1> QED BY <1>1, SemaphoreSpecInv, PTL

\* Both together, for any number of tasks: semaphore_wait loses no wake-up.
THEOREM SemaphoreWakeups == SemaphoreSpec => []NoLostWakeup
<1>1. SemaphoreInv => NoLostWakeup
  BY DEF SemaphoreInv, WQInv, NoLostWakeup
<1> QED BY <1>1, SemaphoreSpecInv, PTL

\* The count stays within a size_t and the variables keep their types.
THEOREM SemaphoreTypes == SemaphoreSpec => []SemaphoreTypeOK
<1>1. SemaphoreInv => SemaphoreTypeOK
  BY DEF SemaphoreInv
<1> QED BY <1>1, SemaphoreSpecInv, PTL

-----------------------------------------------------------------------------
(* The mutex.                                                              *)
MutexInv == WQInv /\ MutexTypeOK /\ OwnerExact /\ NoStrandedWaiter

\* Initially free and with an empty queue.
LEMMA MutexInitInv == MutexInit => MutexInv
<1> SUFFICES ASSUME MutexInit PROVE MutexInv
  OBVIOUS
<1>1. WQInv
  BY WQInitInv DEF MutexInit
<1>2. MutexTypeOK /\ OwnerExact /\ NoStrandedWaiter
  BY <1>1 DEF MutexInit, WQInit, MutexTypeOK, WQInv, OwnerExact, NoStrandedWaiter
<1> QED BY <1>1, <1>2 DEF MutexInv

\* A task that leaves the loop or enters it, with what that does to InFlight.
LEMMA MoveFlight ==
    ASSUME MutexInv, NEW t \in Task, NEW p \in {"out", "loop"},
           Runnable(t), pc[t] \in {"out", "loop", "asleep"},
           pc' = [pc EXCEPT ![t] = p],
           UNCHANGED <<waitq, waiting_on, state, wlock, popped>>
    PROVE  WQInv' /\ (p = "loop" => t \in InFlight')
<1>1. WQInv'
  BY MoveInv DEF MutexInv
<1>2. p = "loop" => t \in InFlight'
  BY DEF InFlight, MutexInv, MutexTypeOK, WQTypeOK, Ctx
<1> QED BY <1>1, <1>2

\* Every step preserves the invariant and is a step of the lock service.
LEMMA MutexNextInv ==
    ASSUME MutexInv, [MutexNext]_mutexVars
    PROVE  MutexInv' /\ [Service!Next]_owner
<1> USE DEF mtxVars
<1>0. /\ MutexTypeOK /\ WQInv /\ OwnerExact /\ NULL \notin Task
  BY ContextAssumption DEF MutexInv
<1>1. CASE UNCHANGED mutexVars
  <2>1. WQInv'
    BY <1>1 DEF mutexVars, wqVars, MutexInv, WQInv, WQTypeOK, QueueExact, BlockedIsReachable,
                LockExact, SleepExact, PoppedExact
  <2>2. MutexTypeOK' /\ OwnerExact' /\ NoStrandedWaiter'
    BY <1>1, <2>1 DEF mutexVars, wqVars, MutexInv, MutexTypeOK, WQInv, OwnerExact, NoStrandedWaiter, InFlight
  <2> QED BY <1>1, <2>1, <2>2 DEF mutexVars, MutexInv
<1>2. ASSUME NEW t \in Task, mutex_lock(t) PROVE MutexInv' /\ [Service!Next]_owner
  <2>1. CASE /\ Runnable(t) /\ Free /\ pc[t] = "loop"
             /\ IF locked THEN owner = t /\ UNCHANGED mtxVars ELSE Take(t)
             /\ pc' = [pc EXCEPT ![t] = "out"]
             /\ UNCHANGED <<waitq, waiting_on, state, wlock, popped>>
    <3>1. WQInv'
      BY <2>1, MoveFlight
    <3>2. locked' = TRUE /\ owner' = t
      BY <2>1 DEF Take
    <3>3. MutexTypeOK' /\ OwnerExact' /\ NoStrandedWaiter'
      BY <1>0, <3>1, <3>2 DEF MutexTypeOK, WQInv, OwnerExact, NoStrandedWaiter
    <3>4. [Service!Next]_owner
      BY <1>0, <2>1, <3>2 DEF OwnerExact, Service!Next, Service!Acquire
    <3> QED BY <3>1, <3>3, <3>4 DEF MutexInv
  <2>2. CASE locked /\ owner # t /\ wait_queue_block_locked(t) /\ UNCHANGED mtxVars
    <3>1. WQInv'
      BY <1>0, <2>2, BlockLockedInv
    <3>2. MutexTypeOK' /\ OwnerExact' /\ NoStrandedWaiter'
      BY <1>0, <2>2, <3>1 DEF MutexTypeOK, WQInv, OwnerExact, NoStrandedWaiter
    <3> QED BY <2>2, <3>1, <3>2 DEF MutexInv
  <2> QED BY <1>2, <2>1, <2>2 DEF mutex_lock
<1>3. ASSUME NEW t \in Task, Resume(t) \/ Enter(t), UNCHANGED mtxVars
      PROVE  MutexInv' /\ [Service!Next]_owner
  <2>1. WQInv' /\ t \in InFlight'
    BY <1>3, MoveFlight DEF Resume, Enter
  <2>2. MutexTypeOK' /\ OwnerExact' /\ NoStrandedWaiter'
    BY <1>0, <1>3, <2>1 DEF MutexTypeOK, WQInv, OwnerExact, NoStrandedWaiter
  <2> QED BY <1>3, <2>1, <2>2 DEF MutexInv
<1>4. ASSUME NEW t \in Task, scheduler_block_current_wait(t), UNCHANGED mtxVars
      PROVE  MutexInv' /\ [Service!Next]_owner
  <2>1. WQInv'
    BY <1>0, <1>4, BlockCurrentInv
  <2>2. InFlight' = InFlight /\ waitq' = waitq
    <3>1. waiting_on[t] /\ waiting_on' = waiting_on /\ pc[t] = "pushed" /\ pc' = [pc EXCEPT ![t] = "asleep"]
      BY <1>0, <1>4 DEF scheduler_block_current_wait, WQInv, LockExact
    <3> QED BY <1>0, <1>4, <3>1 DEF InFlight, scheduler_block_current_wait, WQInv, WQTypeOK, Ctx
  <2>3. MutexTypeOK' /\ OwnerExact' /\ NoStrandedWaiter'
    BY <1>0, <1>4, <2>1, <2>2 DEF MutexInv, MutexTypeOK, WQInv, OwnerExact, NoStrandedWaiter
  <2> QED BY <1>4, <2>1, <2>3 DEF MutexInv
<1>5. ASSUME NEW t \in Task, scheduler_wake(t), UNCHANGED mtxVars
      PROVE  MutexInv' /\ [Service!Next]_owner
  <2>1. WQInv' /\ InFlight' = InFlight /\ waitq' = waitq
    BY <1>0, <1>5, WakeInv DEF Ctx, scheduler_wake
  <2>2. MutexTypeOK' /\ OwnerExact' /\ NoStrandedWaiter'
    BY <1>0, <1>5, <2>1 DEF MutexInv, MutexTypeOK, WQInv, OwnerExact, NoStrandedWaiter
  <2> QED BY <1>5, <2>1, <2>2 DEF MutexInv
<1>6. ASSUME NEW t \in Task, mutex_try_lock(t) PROVE MutexInv' /\ [Service!Next]_owner
  <2>1. locked' = TRUE /\ owner' = t /\ owner = NULL /\ UNCHANGED wqVars
    BY <1>0, <1>6 DEF mutex_try_lock, Take, OwnerExact
  <2>2. WQInv'
    BY <1>0, <2>1 DEF wqVars, WQInv, WQTypeOK, QueueExact, BlockedIsReachable,
                      LockExact, SleepExact, PoppedExact
  <2>3. MutexTypeOK' /\ OwnerExact' /\ NoStrandedWaiter'
    BY <1>0, <2>1, <2>2 DEF MutexTypeOK, WQInv, OwnerExact, NoStrandedWaiter
  <2>4. [Service!Next]_owner
    BY <2>1 DEF Service!Next, Service!Acquire
  <2> QED BY <2>2, <2>3, <2>4 DEF MutexInv
<1>7. ASSUME NEW t \in Task, mutex_unlock(t) PROVE MutexInv' /\ [Service!Next]_owner
  <2>1. /\ Free /\ pc[t] = "out" /\ t \in Ctx /\ wait_queue_pop_locked(t)
        /\ owner = t /\ owner' = NULL /\ locked' = FALSE
    BY <1>7 DEF mutex_unlock, Ctx
  <2>2. /\ WQInv' /\ (waitq # <<>> => Head(waitq) \in InFlight')
        /\ (waitq = <<>> => waitq' = waitq)
    BY <1>0, <2>1, PopInv DEF wait_queue_pop_locked, wqVars
  <2>3. MutexTypeOK' /\ OwnerExact' /\ NoStrandedWaiter'
    BY <1>0, <2>1, <2>2 DEF MutexTypeOK, WQInv, OwnerExact, NoStrandedWaiter
  <2>4. [Service!Next]_owner
    BY <2>1 DEF Service!Next, Service!Release
  <2> QED BY <2>2, <2>3, <2>4 DEF MutexInv
<1> QED BY <1>1, <1>2, <1>3, <1>4, <1>5, <1>6, <1>7 DEF MutexNext, MutexStep

\* The invariant holds in every reachable state.
LEMMA MutexSpecInv == MutexSpec => []MutexInv
<1>1. MutexInv /\ [MutexNext]_mutexVars => MutexInv'
  BY MutexNextInv
<1> QED BY <1>1, MutexInitInv, PTL DEF MutexSpec

\* For any number of tasks, task/mutex.c implements the lock service: mutual
\* exclusion with ownership, whatever lock, try_lock, unlock and wake-up steps
\* are interleaved.
THEOREM MutexImplementsLock == MutexSpec => ServiceSpec
<1>1. MutexInit => Service!Init
  BY DEF MutexInit, Service!Init
<1>2. MutexInv /\ [MutexNext]_mutexVars => [Service!Next]_owner
  BY MutexNextInv
<1> QED BY <1>1, <1>2, MutexSpecInv, PTL DEF MutexSpec, ServiceSpec, Service!Spec

\* For any number of tasks: a blocked locker is in the queue or is being woken.
THEOREM MutexNoLostWakeup == MutexSpec => []BlockedIsReachable
<1>1. MutexInv => BlockedIsReachable
  BY DEF MutexInv, WQInv
<1> QED BY <1>1, MutexSpecInv, PTL

\* For any number of tasks: a free mutex with waiters is about to be tried.
THEOREM MutexNoStrandedWaiter == MutexSpec => []NoStrandedWaiter
<1>1. MutexInv => NoStrandedWaiter
  BY DEF MutexInv
<1> QED BY <1>1, MutexSpecInv, PTL
=============================================================================
