-------------------------- MODULE InterruptProofs --------------------------
(***************************************************************************)
(* What the handlers of the timer and of the keyboard leave behind.        *)
(* SleepQueue: the queue the tick handler trusts is right at every step,   *)
(* and no sleeper is woken two ticks too early.  Console: the decoder      *)
(* agrees with the keys held, every queued entry has its permit, and what  *)
(* a shell writes does not move the text of a user who has scrolled back.  *)
(***************************************************************************)
EXTENDS SleepQueue, Console, WellFoundedInduction, SequenceTheorems, TLAPS

-----------------------------------------------------------------------------
(* The inductive invariant.                                                *)

Pending == IF irq_pending THEN 1 ELSE 0
InQueue(t) == \E i \in 1..Len(sleepq) : sleepq[i] = t

\* system_ticks follows real time, but for a tick that is still pending.
ClockExact ==
    /\ time <= MaxTime
    /\ (system_ticks + Pending) * TickMs <= time
    /\ time < (system_ticks + Pending + 1) * TickMs

\* sleep_lock is held across steps by the task that has queued its deadline and
\* not yet published its state.
LockExact == \A t \in Task : sleep_lock = t <=> state[t] = "INSERTED"

\* The task the handler has popped is asleep, due and no longer queued.
PoppedExact ==
    /\ popped # NULL <=> handler = "wake"
    /\ popped # NULL => /\ ~InQueue(popped) /\ state[popped] = "SLEEPING"
                        /\ wake_tick[popped] <= system_ticks

\* The deadline is not two ticks before the end of the time asked for.
DeadlineCovers ==
    \A t \in Task : state[t] # "READY" => since[t] + asked[t] < (wake_tick[t] + 2) * TickMs

\* The parts of SleepersTracked beside its types and the order of the queue.
NoDuplicates == \A i, j \in 1..Len(sleepq) : sleepq[i] = sleepq[j] => i = j
Tracked == \A t \in Task : state[t] \in {"INSERTED", "SLEEPING"} <=> InQueue(t) \/ popped = t
NobodyDue == handler = "idle" => \A i \in 1..Len(sleepq) : wake_tick[sleepq[i]] > system_ticks

SleepInv ==
    /\ TypeOK /\ SortedByDeadline /\ NoDuplicates /\ Tracked /\ NobodyDue
    /\ ClockExact /\ LockExact /\ PoppedExact /\ DeadlineCovers

-----------------------------------------------------------------------------
(* Ticks and milliseconds.                                                 *)

\* The period of the timer is a whole number of milliseconds.
LEMMA TickPeriod ==
    TickMs \in Nat \ {0} /\ Frequency \in Nat \ {0} /\ Frequency * TickMs = 1000
BY TimerAssumption DEF TickMs

\* Multiplication by the period keeps the order.
LEMMA TicksMonotone ==
    ASSUME NEW a \in Nat, NEW b \in Nat
    PROVE  /\ a * TickMs \in Nat
           /\ (a <= b) => (a * TickMs <= b * TickMs)
           /\ (a * TickMs < b * TickMs) => (a < b)
           /\ (a + b) * TickMs = a * TickMs + b * TickMs
           /\ (a + 1) * TickMs = a * TickMs + TickMs
           /\ (a + 2) * TickMs = a * TickMs + 2 * TickMs
<1> DEFINE M == TickMs
<1>1. M \in Nat \ {0}
  BY TickPeriod
<1> HIDE DEF M
<1>2. /\ a * M \in Nat /\ (a + b) * M = a * M + b * M
      /\ (a + 1) * M = a * M + M /\ (a + 2) * M = a * M + 2 * M
  BY <1>1
<1>3. (a <= b) => (a * M <= b * M)
  BY <1>1
<1>4. (a * M < b * M) => (a < b)
  BY <1>1
<1> QED BY <1>2, <1>3, <1>4 DEF M

\* timer_ms_to_ticks rounds up: the ticks it returns last at least as long.
LEMMA RoundsUp ==
    ASSUME NEW ms \in Nat
    PROVE  timer_ms_to_ticks(ms) \in Nat /\ ms <= timer_ms_to_ticks(ms) * TickMs
<1> DEFINE M == TickMs  q == ms \div 1000  r == ms % 1000  e == r * Frequency + 999  c == e \div 1000
<1>1. /\ M \in Nat \ {0} /\ Frequency \in Nat \ {0} /\ Frequency * M = 1000
  BY TickPeriod
<1>2. q \in Nat /\ r \in Nat /\ ms = 1000 * q + r
  OBVIOUS
<1>3. timer_ms_to_ticks(ms) = q * Frequency + c
  BY DEF timer_ms_to_ticks
<1> HIDE DEF M, q, r
<1>4. e \in Nat /\ r * Frequency \in Nat
  BY <1>1, <1>2
<1>5. c \in Nat /\ r * Frequency <= 1000 * c
  BY <1>4
<1> HIDE DEF c, e
<1>6. r * Frequency <= (c * M) * Frequency
  BY <1>1, <1>5
<1>7. c * M \in Nat /\ (q * Frequency) * M = q * 1000
  BY <1>1, <1>2, <1>5
<1>8. r <= c * M
  <2> DEFINE d == c * M
  <2>1. d \in Nat /\ r * Frequency <= d * Frequency
    BY <1>6, <1>7
  <2> HIDE DEF d
  <2>2. r <= d
    BY <1>1, <1>2, <2>1
  <2> QED BY <2>2 DEF d
<1>9. q * Frequency \in Nat /\ (q * Frequency + c) * M = q * 1000 + c * M
  <2>1. q * Frequency \in Nat
    BY <1>1, <1>2
  <2> QED BY <1>1, <1>2, <1>5, <1>7, <2>1
<1> QED BY <1>2, <1>3, <1>5, <1>7, <1>8, <1>9 DEF M
\* What task_sleep stores: a deadline after the current tick, as long as the
\* counter is not full, that covers the time asked for up to two ticks.
LEMMA DeadlineBounds ==
    ASSUME NEW now \in 0..TickMax, NEW ms \in Nat, NEW at \in Nat, now < TickMax,
           at < (now + 2) * TickMs, at + ms < (TickMax + 2) * TickMs
    PROVE  /\ Deadline(now, ms) \in 0..TickMax /\ Deadline(now, ms) > now
           /\ at + ms < (Deadline(now, ms) + 2) * TickMs
<1> DEFINE d == timer_ms_to_ticks(ms)
           delay == IF d = 0 THEN 1 ELSE d
<1>1. d \in Nat /\ ms <= d * TickMs /\ TickMs \in Nat \ {0} /\ TickMax \in Nat
  BY RoundsUp, TickPeriod, TimerAssumption
<1>2. Deadline(now, ms) = IF TickMax - now < delay THEN TickMax ELSE now + delay
  BY DEF Deadline
<1> HIDE DEF d
<1>3. delay \in Nat \ {0} /\ d <= delay
  BY <1>1
<1>4. d * TickMs <= delay * TickMs
  BY <1>1, <1>3, TicksMonotone
<1> HIDE DEF delay
<1>5. CASE TickMax - now < delay
  BY <1>1, <1>2, <1>5
<1>6. CASE ~(TickMax - now < delay)
  <2>1. Deadline(now, ms) = now + delay
    BY <1>2, <1>6
  <2>2. (now + delay) * TickMs = now * TickMs + delay * TickMs /\ now * TickMs \in Nat
        /\ delay * TickMs \in Nat
    BY <1>3, TicksMonotone
  <2>3. (now + 2) * TickMs = now * TickMs + 2 * TickMs
    BY TicksMonotone
  <2>4. ((now + delay) + 2) * TickMs = (now + delay) * TickMs + 2 * TickMs
    BY <1>3, TicksMonotone
  <2>5. d * TickMs \in Nat
    BY <1>1, TicksMonotone
  <2>6. at + ms < ((now + delay) + 2) * TickMs
    BY <1>1, <1>4, <2>2, <2>3, <2>4, <2>5
  <2> QED BY <1>1, <1>3, <1>6, <2>1, <2>6
<1> QED BY <1>5, <1>6

-----------------------------------------------------------------------------
(* sleep_queue_insert.                                                     *)

\* A non-empty set of natural numbers has a least member.
LEMMA LeastMember ==
    ASSUME NEW S \in SUBSET Nat, S # {}
    PROVE  \E i \in S : \A j \in S : i <= j
<1> DEFINE R == OpToRel(<, Nat)
<1>1. IsWellFoundedOn(R, Nat)
  BY NatLessThanWellFounded
<1>2. \A x, y \in Nat : x < y => <<x, y>> \in R
  BY DEF OpToRel
<1> HIDE DEF R
<1>3. \E i \in S : \A j \in S : ~(<<j, i>> \in R)
  BY <1>1, WFMin
<1>4. PICK i \in S : \A j \in S : ~(<<j, i>> \in R)
  BY <1>3
<1>5. ASSUME NEW j \in S PROVE i <= j
  <2>1. i \in Nat /\ j \in Nat /\ ~(<<j, i>> \in R)
    BY <1>4
  <2>2. ~(j < i)
    BY <1>2, <2>1
  <2> QED BY <2>1, <2>2
<1> QED BY <1>5

\* The new task stands at one place, the others keep their order around it; those
\* before it are due no later, and the one after it, if any, is due later.
Inserted(ins, q, w, t) ==
    /\ ins \in Seq(Task) /\ Len(ins) = Len(q) + 1
    /\ \E k \in 1..(Len(q) + 1) :
          /\ ins[k] = t
          /\ \A i \in 1..(k - 1) : ins[i] = q[i] /\ w[q[i]] <= w[t]
          /\ \A i \in (k + 1)..(Len(q) + 1) : ins[i] = q[i - 1]
          /\ k <= Len(q) => w[q[k]] > w[t]

\* That is what sleep_queue_insert does.
LEMMA InsertInOrder ==
    ASSUME NEW q \in Seq(Task), NEW w \in [Task -> Nat], NEW t \in Task
    PROVE  Inserted(sleep_queue_insert(q, w, t), q, w, t)
<1> DEFINE later == {i \in 1..Len(q) : w[q[i]] > w[t]}
           at == IF later = {} THEN Len(q) + 1 ELSE CHOOSE i \in later : \A j \in later : i <= j
           r == SubSeq(q, 1, at - 1) \o <<t>> \o SubSeq(q, at, Len(q))
<1>1. sleep_queue_insert(q, w, t) = r
  BY DEF sleep_queue_insert
<1>2. /\ at \in 1..(Len(q) + 1)
      /\ \A i \in 1..(at - 1) : w[q[i]] <= w[t]
      /\ at <= Len(q) => w[q[at]] > w[t]
  <2>0. \A i \in 1..Len(q) : w[q[i]] \in Nat
    OBVIOUS
  <2>1. CASE later = {}
    BY <2>0, <2>1, SMTT(30)
  <2>2. CASE later # {}
    <3>1. later \in SUBSET Nat
      OBVIOUS
    <3>2. \E i \in later : \A j \in later : i <= j
      BY <2>2, <3>1, LeastMember
    <3>3. at \in later /\ \A j \in later : at <= j
      BY <2>2, <3>2
    <3> HIDE DEF at
    <3> QED BY <2>0, <3>3
  <2> QED BY <2>1, <2>2
<1> HIDE DEF at
<1>3. /\ SubSeq(q, 1, at - 1) \in Seq(Task) /\ Len(SubSeq(q, 1, at - 1)) = at - 1
      /\ \A i \in 1..(at - 1) : SubSeq(q, 1, at - 1)[i] = q[i]
  BY <1>2, SubSeqProperties
<1>4. /\ SubSeq(q, at, Len(q)) \in Seq(Task) /\ Len(SubSeq(q, at, Len(q))) = Len(q) - at + 1
      /\ \A i \in 1..(Len(q) - at + 1) : SubSeq(q, at, Len(q))[i] = q[at + i - 1]
  BY <1>2, SubSeqProperties
<1>5. /\ r \in Seq(Task) /\ Len(r) = Len(q) + 1 /\ r[at] = t
      /\ \A i \in 1..(at - 1) : r[i] = q[i]
      /\ \A i \in (at + 1)..(Len(q) + 1) : r[i] = q[i - 1]
  <2> DEFINE x == SubSeq(q, 1, at - 1)  z == SubSeq(q, at, Len(q))
  <2>1. x \in Seq(Task) /\ z \in Seq(Task) /\ <<t>> \in Seq(Task) /\ Len(<<t>>) = 1 /\ <<t>>[1] = t
    BY <1>3, <1>4
  <2> HIDE DEF x, z
  <2>2. x \o <<t>> \in Seq(Task) /\ Len(x \o <<t>>) = Len(x) + 1
        /\ \A i \in 1..Len(x) : (x \o <<t>>)[i] = x[i]
        /\ (x \o <<t>>)[Len(x) + 1] = t
    BY <2>1
  <2>3. /\ (x \o <<t>>) \o z \in Seq(Task) /\ Len((x \o <<t>>) \o z) = Len(x) + 1 + Len(z)
        /\ \A i \in 1..(Len(x) + 1) : ((x \o <<t>>) \o z)[i] = (x \o <<t>>)[i]
        /\ \A i \in (Len(x) + 2)..(Len(x) + 1 + Len(z)) : ((x \o <<t>>) \o z)[i] = z[i - Len(x) - 1]
    BY <2>1, <2>2
  <2>4. r = (x \o <<t>>) \o z
    BY DEF x, z
  <2>5. Len(x) = at - 1 /\ Len(z) = Len(q) - at + 1
        /\ (\A i \in 1..(at - 1) : x[i] = q[i])
        /\ (\A i \in 1..(Len(q) - at + 1) : z[i] = q[at + i - 1])
    BY <1>3, <1>4 DEF x, z
  <2> HIDE DEF r
  <2>6. Len(q) \in Nat /\ at \in Nat /\ Len(x) + 1 = at
    BY <1>2, <2>5
  <2>7. r \in Seq(Task) /\ Len(r) = Len(q) + 1
    BY <2>3, <2>4, <2>5, <2>6
  <2>8. r[at] = t
    BY <1>2, <2>2, <2>3, <2>4, <2>5, <2>6
  <2>9. ASSUME NEW i \in 1..(at - 1) PROVE r[i] = q[i]
    <3>1. i \in 1..Len(x) /\ i \in 1..(Len(x) + 1)
      BY <2>5, <2>6
    <3> QED BY <2>2, <2>3, <2>4, <2>5, <3>1
  <2>10. ASSUME NEW i \in (at + 1)..(Len(q) + 1) PROVE r[i] = q[i - 1]
    <3>1. /\ i \in (Len(x) + 2)..(Len(x) + 1 + Len(z))
          /\ i - Len(x) - 1 \in 1..(Len(q) - at + 1) /\ i - Len(x) - 1 = i - at
          /\ at + (i - at) - 1 = i - 1
      BY <2>5, <2>6
    <3>2. r[i] = z[i - at] /\ z[i - at] = q[at + (i - at) - 1]
      BY <2>3, <2>4, <2>5, <3>1
    <3> QED BY <3>1, <3>2
  <2> QED BY <2>7, <2>8, <2>9, <2>10
<1> HIDE DEF r
<1> QED BY <1>1, <1>2, <1>5 DEF Inserted

-----------------------------------------------------------------------------
(* The invariant is inductive, one lemma per action.                       *)

\* The first millisecond of a period is the one at its boundary.
LEMMA PeriodBoundary ==
    ASSUME NEW x \in Nat, NEW n \in Nat, n * TickMs < x, x <= (n + 1) * TickMs
    PROVE  x % TickMs = 0 <=> x = (n + 1) * TickMs
<1> DEFINE M == TickMs  k == x \div M
<1>1. M \in Nat \ {0}
  BY TickPeriod
<1>2. n * M < x /\ x <= (n + 1) * M
  OBVIOUS
<1>3. (n * M < k * M => n < k) /\ (k * M < (n + 2) * M => k < n + 2) /\ (n + 2) * M = (n + 1) * M + M
      /\ (n + 1) * M \in Nat
  <2>1. k \in Nat
    BY <1>1
  <2> QED BY <2>1, <1>1, TicksMonotone, (n + 2) * M = (n + 1) * M + M
<1> HIDE DEF M
<1>4. x % M = 0 => x = (n + 1) * M
  <2> HAVE x % M = 0
  <2>1. k \in Nat /\ x = k * M
    BY <1>1
  <2> HIDE DEF k
  <2>2. k = n + 1
    BY <1>1, <1>2, <1>3, <2>1
  <2> QED BY <2>1, <2>2
<1>5. x = (n + 1) * M => x % M = 0
  BY <1>1
<1> QED BY <1>4, <1>5 DEF M

\* A millisecond passes.
LEMMA ElapseIInv == SleepInv /\ Elapse => SleepInv'
<1> SUFFICES ASSUME SleepInv, Elapse PROVE SleepInv'
  OBVIOUS
<1>1. /\ UNCHANGED <<system_ticks, handler, popped, sleepq, sleep_lock, wake_tick, state, asked, since>>
      /\ time' = time + 1 /\ time < MaxTime
  BY DEF Elapse
<1>2. TypeOK'
  BY <1>1 DEF SleepInv, TypeOK, Elapse
<1>3. /\ SortedByDeadline' /\ NoDuplicates' /\ Tracked' /\ NobodyDue' /\ LockExact' /\ PoppedExact'
      /\ DeadlineCovers'
  BY <1>1 DEF SleepInv, SortedByDeadline, NoDuplicates, Tracked, InQueue, NobodyDue, LockExact,
              PoppedExact, DeadlineCovers
<1>4. ClockExact'
  <2> DEFINE n == system_ticks + Pending
  <2>1. /\ system_ticks \in Nat /\ n \in Nat /\ time \in Nat /\ MaxTime \in Nat
        /\ n * TickMs <= time /\ time < (n + 1) * TickMs /\ TickMs \in Nat \ {0}
        /\ n * TickMs \in Nat /\ (n + 1) * TickMs \in Nat
    BY TicksMonotone, TickPeriod, TimerAssumption DEF SleepInv, TypeOK, ClockExact, Pending
  <2>2. (time + 1) % TickMs = 0 <=> time + 1 = (n + 1) * TickMs
    <3> HIDE DEF n
    <3>1. time + 1 \in Nat /\ n * TickMs < time + 1 /\ time + 1 <= (n + 1) * TickMs
      BY <2>1
    <3> QED BY <2>1, <3>1, PeriodBoundary
  <2>3. CASE (time + 1) % TickMs = 0
    <3>1. n = system_ticks /\ system_ticks' + Pending' = n + 1
      <4>1. irq_pending = FALSE /\ irq_pending' = TRUE
        BY <2>3 DEF Elapse, SleepInv, TypeOK
      <4>2. Pending = 0 /\ Pending' = 1
        BY <4>1 DEF Pending
      <4> QED BY <1>1, <2>1, <4>2
    <3>2. ((n + 1) + 1) * TickMs = (n + 1) * TickMs + TickMs
      BY <2>1, TicksMonotone
    <3> HIDE DEF n
    <3> QED BY <1>1, <2>1, <2>2, <2>3, <3>1, <3>2 DEF ClockExact
  <2>4. CASE (time + 1) % TickMs # 0
    <3>1. system_ticks' + Pending' = n
      BY <1>1, <2>4 DEF Elapse, Pending, SleepInv, TypeOK
    <3> HIDE DEF n
    <3> QED BY <1>1, <2>1, <2>2, <2>4, <3>1 DEF ClockExact
  <2> QED BY <2>3, <2>4
<1> QED BY <1>2, <1>3, <1>4 DEF SleepInv

\* timer_handle_tick: the counter does not wrap.
LEMMA TickIInv == SleepInv /\ timer_handle_tick => SleepInv'
<1> SUFFICES ASSUME SleepInv, timer_handle_tick PROVE SleepInv'
  OBVIOUS
<1>1. /\ UNCHANGED <<time, popped, sleepq, sleep_lock, wake_tick, state, asked, since>>
      /\ irq_pending = TRUE /\ irq_pending' = FALSE /\ handler = "idle" /\ handler' = "loop"
  BY DEF timer_handle_tick, SleepInv, TypeOK
<1>2. system_ticks \in Nat /\ time \in Nat /\ TickMax \in Nat /\ system_ticks \in 0..TickMax
  BY TimerAssumption DEF SleepInv, TypeOK
<1>3. system_ticks + 1 <= TickMax
  <2>1. (system_ticks + 1) * TickMs < (TickMax + 1) * TickMs
    <3>1. (system_ticks + 1) * TickMs <= time /\ time <= MaxTime
      BY <1>1 DEF SleepInv, ClockExact, Pending
    <3>0. system_ticks + 1 \in Nat /\ TickMax + 1 \in Nat /\ TickMs \in Nat
      BY <1>2, TickPeriod
    <3>2. (system_ticks + 1) * TickMs \in Nat /\ (TickMax + 1) * TickMs \in Nat /\ MaxTime \in Nat
      BY <3>0, TimerAssumption
    <3> QED BY <1>2, <3>1, <3>2, ClockAssumption
  <2>2. system_ticks + 1 < TickMax + 1
    BY <1>2, <2>1, TicksMonotone
  <2> QED BY <1>2, <2>2
<1>4. system_ticks' = system_ticks + 1
  BY <1>2, <1>3 DEF timer_handle_tick
<1>5. TypeOK'
  <2>1. system_ticks' \in 0..TickMax
    BY <1>2, <1>3, <1>4
  <2> QED BY <1>1, <2>1 DEF SleepInv, TypeOK
<1>6. /\ SortedByDeadline' /\ NoDuplicates' /\ Tracked' /\ NobodyDue' /\ LockExact' /\ DeadlineCovers'
  BY <1>1 DEF SleepInv, SortedByDeadline, NoDuplicates, Tracked, InQueue, NobodyDue, LockExact,
              DeadlineCovers
<1>7. ClockExact'
  <2>1. system_ticks' + Pending' = system_ticks + Pending
    BY <1>1, <1>2, <1>4 DEF Pending
  <2> QED BY <1>1, <2>1 DEF ClockExact, SleepInv
<1>8. PoppedExact'
  BY <1>1 DEF PoppedExact, SleepInv
<1> QED BY <1>5, <1>6, <1>7, <1>8 DEF SleepInv

\* A turn of the loop of sleep_queue_tick.
LEMMA LoopIInv == SleepInv /\ sleep_queue_tick => SleepInv'
<1> SUFFICES ASSUME SleepInv, sleep_queue_tick PROVE SleepInv'
  OBVIOUS
<1>0. /\ UNCHANGED <<time, irq_pending, system_ticks, sleep_lock, wake_tick, state, asked, since>>
      /\ handler = "loop" /\ popped = NULL /\ sleep_lock = NULL
  BY DEF sleep_queue_tick, timerVars, SleepInv, PoppedExact
<1>1. ClockExact' /\ LockExact' /\ DeadlineCovers'
  BY <1>0 DEF SleepInv, ClockExact, Pending, LockExact, DeadlineCovers
<1>2. CASE ~(sleepq # <<>> /\ expired(Head(sleepq))) /\ handler' = "idle" /\ UNCHANGED <<sleepq, popped>>
  <2>1. TypeOK' /\ SortedByDeadline' /\ NoDuplicates' /\ Tracked' /\ PoppedExact'
    BY <1>0, <1>2 DEF SleepInv, TypeOK, SortedByDeadline, NoDuplicates, Tracked, InQueue, PoppedExact
  <2>2. NobodyDue'
    <3> SUFFICES ASSUME NEW i \in 1..Len(sleepq) PROVE wake_tick[sleepq[i]] > system_ticks
      BY <1>0, <1>2 DEF NobodyDue
    <3>1. sleepq \in Seq(Task) /\ sleepq # <<>> /\ Head(sleepq) = sleepq[1] /\ 1 \in 1..Len(sleepq)
      BY DEF SleepInv, TypeOK
    <3>2. wake_tick[sleepq[1]] <= wake_tick[sleepq[i]]
      BY <3>1 DEF SleepInv, SortedByDeadline, TypeOK
    <3>3. wake_tick[sleepq[1]] \in Nat /\ wake_tick[sleepq[i]] \in Nat /\ system_ticks \in Nat
      BY <3>1, TimerAssumption, SMTT(30) DEF SleepInv, TypeOK
    <3>4. wake_tick[sleepq[1]] > system_ticks
      BY <1>2, <3>1, <3>3 DEF expired
    <3> QED BY <3>2, <3>3, <3>4
  <2> QED BY <1>1, <2>1, <2>2 DEF SleepInv
<1>3. CASE /\ sleepq # <<>> /\ expired(Head(sleepq)) /\ popped' = Head(sleepq)
           /\ sleepq' = Tail(sleepq) /\ handler' = "wake"
  <2>1. /\ sleepq \in Seq(Task) /\ Len(sleepq) \in Nat \ {0} /\ Head(sleepq) = sleepq[1]
        /\ sleepq' \in Seq(Task) /\ Len(sleepq') = Len(sleepq) - 1 /\ sleepq[1] \in Task
        /\ \A i \in 1..Len(sleepq') : i + 1 \in 1..Len(sleepq) /\ sleepq'[i] = sleepq[i + 1]
    BY <1>3, SMTT(30) DEF SleepInv, TypeOK
  <2>2. TypeOK'
    BY <1>0, <1>3, <2>1 DEF SleepInv, TypeOK
  <2>3. SortedByDeadline' /\ NoDuplicates'
    <3>0. SortedByDeadline /\ NoDuplicates
      BY DEF SleepInv
    <3>1. ASSUME NEW i \in 1..Len(sleepq'), NEW j \in 1..Len(sleepq')
          PROVE  /\ i < j => wake_tick'[sleepq'[i]] <= wake_tick'[sleepq'[j]]
                 /\ sleepq'[i] = sleepq'[j] => i = j
      <4>1. /\ i + 1 \in 1..Len(sleepq) /\ j + 1 \in 1..Len(sleepq)
            /\ sleepq'[i] = sleepq[i + 1] /\ sleepq'[j] = sleepq[j + 1]
        BY <2>1
      <4>2. i < j => wake_tick[sleepq[i + 1]] <= wake_tick[sleepq[j + 1]]
        BY <3>0, <4>1 DEF SortedByDeadline
      <4>3. sleepq[i + 1] = sleepq[j + 1] => i = j
        BY <3>0, <4>1 DEF NoDuplicates
      <4> QED BY <1>0, <4>1, <4>2, <4>3
    <3> QED BY <3>1 DEF SortedByDeadline, NoDuplicates
  <2>4. NobodyDue'
    BY <1>3 DEF NobodyDue
  <2>5. \A i \in 1..Len(sleepq') : sleepq'[i] # sleepq[1]
    BY <2>1 DEF SleepInv, NoDuplicates
  <2>6. \A t \in Task : InQueue(t) <=> InQueue(t)' \/ t = sleepq[1]
    <3>1. \A i \in 1..Len(sleepq) : i = 1 \/ (i - 1 \in 1..Len(sleepq') /\ sleepq'[i - 1] = sleepq[i])
      BY <2>1
    <3> QED BY <2>1, <3>1 DEF InQueue
  <2>7. Tracked'
    BY <1>0, <1>3, <2>1, <2>6, TimerAssumption DEF Tracked, SleepInv
  <2>8. PoppedExact'
    <3>1. state[sleepq[1]] \in {"INSERTED", "SLEEPING"} /\ state[sleepq[1]] # "INSERTED"
      BY <1>0, <2>1, <2>6, TimerAssumption DEF SleepInv, Tracked, LockExact
    <3> QED BY <1>0, <1>3, <2>1, <2>5, <3>1, TimerAssumption DEF PoppedExact, expired, InQueue
  <2> QED BY <1>1, <2>2, <2>3, <2>4, <2>7, <2>8 DEF SleepInv
<1> QED BY <1>2, <1>3 DEF sleep_queue_tick

\* scheduler_wake of the popped task.
LEMMA WakeIInv == SleepInv /\ scheduler_wake => SleepInv'
<1> SUFFICES ASSUME SleepInv, scheduler_wake PROVE SleepInv'
  OBVIOUS
<1>1. /\ UNCHANGED <<time, irq_pending, system_ticks, sleepq, sleep_lock, wake_tick>>
      /\ handler = "wake" /\ handler' = "loop" /\ popped' = NULL
      /\ asked' = [asked EXCEPT ![popped] = 0] /\ since' = [since EXCEPT ![popped] = 0]
  BY DEF scheduler_wake, timerVars
<1>2. /\ popped \in Task /\ state[popped] = "SLEEPING"
      /\ \A i \in 1..Len(sleepq) : sleepq[i] # popped
  BY <1>1 DEF SleepInv, PoppedExact, TypeOK, InQueue
<1>3. state' = [state EXCEPT ![popped] = "READY"]
  BY <1>2 DEF scheduler_wake
<1>4. TypeOK'
  BY <1>1, <1>2, <1>3 DEF SleepInv, TypeOK
<1>5. SortedByDeadline' /\ NoDuplicates' /\ NobodyDue' /\ ClockExact' /\ PoppedExact'
  BY <1>1 DEF SleepInv, SortedByDeadline, NoDuplicates, NobodyDue, ClockExact, Pending, PoppedExact
<1>6. Tracked'
  <2>1. \A t \in Task : InQueue(t)' <=> InQueue(t)
    BY <1>1 DEF InQueue
  <2>2. ~InQueue(popped) /\ popped' \notin Task
    BY <1>1, <1>2, TimerAssumption DEF InQueue
  <2>3. state'[popped] = "READY" /\ \A t \in Task \ {popped} : state'[t] = state[t]
    BY <1>2, <1>3 DEF SleepInv, TypeOK
  <2> QED BY <1>2, <2>1, <2>2, <2>3 DEF SleepInv, Tracked
<1>7. LockExact'
  BY <1>1, <1>2, <1>3 DEF SleepInv, TypeOK, LockExact
<1>8. DeadlineCovers'
  BY <1>1, <1>2, <1>3 DEF SleepInv, TypeOK, DeadlineCovers
<1> QED BY <1>4, <1>5, <1>6, <1>7, <1>8 DEF SleepInv

\* scheduler_block_current_wait: the state is published before the lock is free.
LEMMA BlockIInv ==
    ASSUME SleepInv, NEW t \in Task, scheduler_block_current_wait(t) PROVE SleepInv'
<1>1. /\ UNCHANGED <<time, irq_pending, system_ticks, handler, popped, sleepq, wake_tick, asked, since>>
      /\ state[t] = "INSERTED" /\ state' = [state EXCEPT ![t] = "SLEEPING"] /\ sleep_lock' = NULL
  BY DEF scheduler_block_current_wait, timerVars
<1>2. TypeOK'
  BY <1>1 DEF SleepInv, TypeOK
<1>3. SortedByDeadline' /\ NoDuplicates' /\ NobodyDue' /\ ClockExact'
  BY <1>1 DEF SleepInv, SortedByDeadline, NoDuplicates, NobodyDue, ClockExact, Pending
<1>4. Tracked'
  BY <1>1 DEF SleepInv, TypeOK, Tracked, InQueue
<1>5. LockExact'
  BY <1>1, TimerAssumption DEF SleepInv, TypeOK, LockExact
<1>6. PoppedExact'
  BY <1>1 DEF SleepInv, TypeOK, PoppedExact, InQueue
<1>7. DeadlineCovers'
  BY <1>1 DEF SleepInv, TypeOK, DeadlineCovers
<1> QED BY <1>2, <1>3, <1>4, <1>5, <1>6, <1>7 DEF SleepInv

\* The woken task clears its deadline: it is no longer queued.
LEMMA ReturnIInv ==
    ASSUME SleepInv, NEW t \in Task, Return(t) PROVE SleepInv'
<1>1. /\ UNCHANGED <<time, irq_pending, system_ticks, handler, popped, sleepq, sleep_lock,
                     state, asked, since>>
      /\ state[t] = "READY" /\ wake_tick' = [wake_tick EXCEPT ![t] = 0]
  BY DEF Return, timerVars
<1>2. TypeOK'
  BY <1>1, TimerAssumption DEF SleepInv, TypeOK
<1>3. \A i \in 1..Len(sleepq) : sleepq[i] # t /\ sleepq[i] \in Task
                                /\ wake_tick'[sleepq[i]] = wake_tick[sleepq[i]]
  <2>1. \A i \in 1..Len(sleepq) : sleepq[i] \in Task
    BY DEF SleepInv, TypeOK
  <2>2. \A i \in 1..Len(sleepq) : state[sleepq[i]] # "READY"
    BY <2>1 DEF SleepInv, Tracked, InQueue
  <2> QED BY <1>1, <2>1, <2>2 DEF SleepInv, TypeOK
<1>4. SortedByDeadline' /\ NoDuplicates' /\ NobodyDue' /\ ClockExact' /\ LockExact' /\ Tracked'
  BY <1>1, <1>3 DEF SleepInv, SortedByDeadline, NoDuplicates, NobodyDue, ClockExact, Pending, LockExact,
                    Tracked, InQueue
<1>5. PoppedExact'
  BY <1>1, TimerAssumption DEF SleepInv, TypeOK, PoppedExact, InQueue
<1>6. DeadlineCovers'
  BY <1>1 DEF SleepInv, TypeOK, DeadlineCovers
<1> QED BY <1>2, <1>4, <1>5, <1>6 DEF SleepInv

\* task_sleep queues a deadline that is not due and covers the time asked for.
LEMMA SleepIInv ==
    ASSUME SleepInv, NEW t \in Task, NEW ms \in Millis, task_sleep(t, ms) PROVE SleepInv'
<1> DEFINE d == Deadline(system_ticks, ms)
<1>1. /\ UNCHANGED <<time, irq_pending, system_ticks, handler, popped>>
      /\ state[t] = "READY" /\ sleep_lock = NULL /\ time <= LastCall
      /\ wake_tick' = [wake_tick EXCEPT ![t] = d]
      /\ sleepq' = sleep_queue_insert(sleepq, wake_tick', t)
      /\ sleep_lock' = t
      /\ state' = [state EXCEPT ![t] = "INSERTED"]
      /\ asked' = [asked EXCEPT ![t] = ms] /\ since' = [since EXCEPT ![t] = time]
  BY DEF task_sleep, HoldsLock, timerVars
<1>2. /\ d \in 0..TickMax /\ d > system_ticks /\ time + ms < (d + 2) * TickMs
  <2>1. /\ system_ticks \in 0..TickMax /\ system_ticks \in Nat /\ TickMax \in Nat /\ ms \in Nat
        /\ time \in Nat /\ LastCall \in Nat /\ TickMs \in Nat \ {0} /\ Pending \in {0, 1}
    BY TimerAssumption, TickPeriod DEF SleepInv, TypeOK, Pending
  <2>2. /\ system_ticks * TickMs \in Nat /\ TickMax * TickMs \in Nat
        /\ system_ticks * TickMs <= (system_ticks + Pending) * TickMs
        /\ (system_ticks + Pending + 1) * TickMs <= (system_ticks + 2) * TickMs
        /\ (system_ticks + Pending) * TickMs \in Nat /\ (system_ticks + 2) * TickMs \in Nat
        /\ (system_ticks + Pending + 1) * TickMs \in Nat
    BY <2>1
  <2>3. system_ticks * TickMs < TickMax * TickMs
    BY <1>1, <2>1, <2>2, ClockAssumption DEF SleepInv, ClockExact
  <2>4. system_ticks < TickMax
    BY <2>1, <2>3, TicksMonotone
  <2>5. time < (system_ticks + 2) * TickMs
    BY <2>1, <2>2 DEF SleepInv, ClockExact
  <2>6. time + ms < (TickMax + 2) * TickMs
    <3>1. (TickMax + 2) * TickMs \in Nat
      BY <2>1
    <3> QED BY <1>1, <2>1, <3>1, ClockAssumption
  <2> QED BY <2>1, <2>4, <2>5, <2>6, DeadlineBounds
<1> HIDE DEF d
<1>3. /\ sleepq \in Seq(Task) /\ wake_tick' \in [Task -> 0..TickMax] /\ wake_tick' \in [Task -> Nat]
      /\ wake_tick'[t] = d /\ \A u \in Task \ {t} : wake_tick'[u] = wake_tick[u]
  BY <1>1, <1>2, TimerAssumption DEF SleepInv, TypeOK
<1>4. popped # t /\ \A i \in 1..Len(sleepq) : sleepq[i] \in Task \ {t}
  BY <1>1, <1>3 DEF SleepInv, Tracked, InQueue
<1>5. /\ sleepq' \in Seq(Task) /\ Len(sleepq') = Len(sleepq) + 1
      /\ \E k \in 1..(Len(sleepq) + 1) :
            /\ sleepq'[k] = t
            /\ \A i \in 1..(k - 1) : sleepq'[i] = sleepq[i] /\ wake_tick'[sleepq[i]] <= wake_tick'[t]
            /\ \A i \in (k + 1)..(Len(sleepq) + 1) : sleepq'[i] = sleepq[i - 1]
            /\ k <= Len(sleepq) => wake_tick'[sleepq[k]] > wake_tick'[t]
  <2> DEFINE w == wake_tick'
  <2>1. w \in [Task -> Nat] /\ sleepq \in Seq(Task) /\ sleepq' = sleep_queue_insert(sleepq, w, t)
    BY <1>1, <1>3
  <2> HIDE DEF w
  <2>2. Inserted(sleepq', sleepq, w, t)
    BY <2>1, InsertInOrder
  <2> QED BY <2>2 DEF w, Inserted
<1>6. PICK k \in 1..(Len(sleepq) + 1) :
            /\ sleepq'[k] = t
            /\ \A i \in 1..(k - 1) : sleepq'[i] = sleepq[i] /\ wake_tick'[sleepq[i]] <= wake_tick'[t]
            /\ \A i \in (k + 1)..(Len(sleepq) + 1) : sleepq'[i] = sleepq[i - 1]
            /\ k <= Len(sleepq) => wake_tick'[sleepq[k]] > wake_tick'[t]
  BY <1>5
<1>7. Len(sleepq) \in Nat /\ k \in Nat
  BY <1>3
<1>8. ASSUME NEW i \in 1..Len(sleepq')
      PROVE  \/ i < k /\ i \in 1..Len(sleepq) /\ sleepq'[i] = sleepq[i]
             \/ i = k /\ sleepq'[i] = t
             \/ i > k /\ i - 1 \in 1..Len(sleepq) /\ sleepq'[i] = sleepq[i - 1]
  BY <1>5, <1>6, <1>7, SMTT(30)
<1>9. TypeOK'
  <2>1. ms \in Nat /\ time \in Nat
    BY TimerAssumption DEF SleepInv, TypeOK
  <2>2. asked' \in [Task -> Nat] /\ since' \in [Task -> Nat]
        /\ state' \in [Task -> {"READY", "INSERTED", "SLEEPING"}] /\ sleep_lock' \in Task \cup {NULL}
    BY <1>1, <2>1 DEF SleepInv, TypeOK
  <2> QED BY <1>1, <1>3, <1>5, <2>2 DEF SleepInv, TypeOK
<1>10. SortedByDeadline'
  <2>1. \A i, j \in 1..Len(sleepq) : i < j => wake_tick'[sleepq[i]] <= wake_tick'[sleepq[j]]
    BY <1>3, <1>4 DEF SleepInv, SortedByDeadline
  <2>2. \A i \in 1..Len(sleepq) : i >= k => wake_tick'[sleepq[i]] > wake_tick'[t]
    <3> SUFFICES ASSUME NEW i \in 1..Len(sleepq), i >= k PROVE wake_tick'[sleepq[i]] > wake_tick'[t]
      OBVIOUS
    <3>1. k \in 1..Len(sleepq) /\ wake_tick'[sleepq[k]] > wake_tick'[t]
      BY <1>6, <1>7
    <3>2. wake_tick'[sleepq[k]] <= wake_tick'[sleepq[i]]
      BY <2>1, <3>1, <1>3, <1>4
    <3>3. wake_tick'[sleepq[k]] \in Nat /\ wake_tick'[sleepq[i]] \in Nat /\ wake_tick'[t] \in Nat
      BY <1>3, <1>4, <3>1
    <3> QED BY <3>1, <3>2, <3>3
  <2> SUFFICES ASSUME NEW i \in 1..Len(sleepq'), NEW j \in 1..Len(sleepq'), i < j
               PROVE  wake_tick'[sleepq'[i]] <= wake_tick'[sleepq'[j]]
    BY DEF SortedByDeadline
  <2>3. \A u \in 1..Len(sleepq) : wake_tick'[sleepq[u]] \in Nat
    BY <1>3, <1>4
  <2>4. wake_tick'[t] \in Nat
    BY <1>3
  <2>5. CASE j < k
    BY <1>8, <2>1, <2>5, <1>7
  <2>6. CASE j = k
    <3>1. i \in 1..(k - 1)
      BY <1>7, <2>6
    <3> QED BY <1>6, <2>6, <3>1
  <2>7. CASE j > k
    <3>1. j - 1 \in 1..Len(sleepq) /\ sleepq'[j] = sleepq[j - 1] /\ j - 1 >= k
      BY <1>7, <1>8, <2>7
    <3>2. CASE i = k
      BY <1>6, <2>2, <2>3, <2>4, <3>1, <3>2
    <3>3. CASE i < k
      <4>1. i \in 1..Len(sleepq) /\ sleepq'[i] = sleepq[i] /\ i < j - 1
        BY <1>7, <1>8, <3>1, <3>3
      <4> QED BY <2>1, <3>1, <4>1
    <3>4. CASE i > k
      <4>1. i - 1 \in 1..Len(sleepq) /\ sleepq'[i] = sleepq[i - 1] /\ i - 1 < j - 1
        BY <1>7, <1>8, <3>1, <3>4
      <4> QED BY <2>1, <3>1, <4>1
    <3> QED BY <1>7, <3>2, <3>3, <3>4
  <2> QED BY <1>7, <2>5, <2>6, <2>7
<1>11. NoDuplicates'
  <2> SUFFICES ASSUME NEW i \in 1..Len(sleepq'), NEW j \in 1..Len(sleepq'), sleepq'[i] = sleepq'[j]
               PROVE  i = j
    BY DEF NoDuplicates
  <2>1. CASE i = k \/ j = k
    BY <1>4, <1>7, <1>8, <2>1, SMTT(30)
  <2>2. CASE i # k /\ j # k
    <3> DEFINE back(n) == IF n < k THEN n ELSE n - 1
    <3>1. /\ back(i) \in 1..Len(sleepq) /\ sleepq'[i] = sleepq[back(i)]
          /\ back(j) \in 1..Len(sleepq) /\ sleepq'[j] = sleepq[back(j)]
      BY <1>7, <1>8, <2>2
    <3>2. back(i) = back(j)
      BY <3>1 DEF SleepInv, NoDuplicates
    <3> QED BY <1>7, <2>2, <3>2
  <2> QED BY <2>1, <2>2
<1>12. \A u \in Task : InQueue(u)' <=> InQueue(u) \/ u = t
  <2>1. \A i \in 1..Len(sleepq) : i < k => i \in 1..Len(sleepq') /\ sleepq'[i] = sleepq[i]
    BY <1>5, <1>6, <1>7
  <2>2. \A i \in 1..Len(sleepq) : i >= k => i + 1 \in 1..Len(sleepq') /\ sleepq'[i + 1] = sleepq[i]
    <3> SUFFICES ASSUME NEW i \in 1..Len(sleepq), i >= k
                 PROVE  i + 1 \in 1..Len(sleepq') /\ sleepq'[i + 1] = sleepq[i]
      OBVIOUS
    <3>1. i + 1 \in (k + 1)..(Len(sleepq) + 1) /\ (i + 1) - 1 = i
      BY <1>7
    <3> QED BY <1>5, <1>6, <3>1
  <2>3. k \in 1..Len(sleepq') /\ sleepq'[k] = t
    BY <1>5, <1>6
  <2> SUFFICES ASSUME NEW u \in Task PROVE InQueue(u)' <=> InQueue(u) \/ u = t
    OBVIOUS
  <2>4. InQueue(u)' => InQueue(u) \/ u = t
    BY <1>8 DEF InQueue
  <2>5. InQueue(u) => InQueue(u)'
    BY <1>7, <2>1, <2>2, SMTT(30) DEF InQueue
  <2>6. u = t => InQueue(u)'
    BY <2>3 DEF InQueue
  <2> QED BY <2>4, <2>5, <2>6
<1>13. Tracked'
  BY <1>1, <1>4, <1>12 DEF SleepInv, TypeOK, Tracked
<1>14. NobodyDue'
  <2> SUFFICES ASSUME handler = "idle", NEW i \in 1..Len(sleepq')
               PROVE  wake_tick'[sleepq'[i]] > system_ticks
    BY <1>1 DEF NobodyDue
  <2>1. \A j \in 1..Len(sleepq) : wake_tick'[sleepq[j]] > system_ticks
    BY <1>3, <1>4 DEF SleepInv, NobodyDue
  <2> QED BY <1>2, <1>3, <1>8, <2>1
<1>15. ClockExact'
  BY <1>1 DEF SleepInv, ClockExact, Pending
<1>16. LockExact'
  BY <1>1, TimerAssumption, SMTT(30) DEF SleepInv, TypeOK, LockExact
<1>17. PoppedExact'
  <2>1. popped # NULL => ~InQueue(popped)'
    BY <1>1, <1>4, <1>12 DEF SleepInv, TypeOK, PoppedExact
  <2> QED BY <1>1, <1>3, <1>4, <2>1 DEF SleepInv, TypeOK, PoppedExact
<1>18. DeadlineCovers'
  BY <1>1, <1>2, <1>3 DEF SleepInv, TypeOK, DeadlineCovers
<1> QED BY <1>9, <1>10, <1>11, <1>13, <1>14, <1>15, <1>16, <1>17, <1>18 DEF SleepInv

-----------------------------------------------------------------------------
(* The theorems.                                                           *)

\* A fresh boot satisfies the invariant.
LEMMA InitIInv == SleepInit => SleepInv
<1> SUFFICES ASSUME SleepInit PROVE SleepInv
  OBVIOUS
<1>1. TickMs \in Nat \ {0} /\ MaxTime \in Nat /\ TickMax \in Nat
  BY TickPeriod, TimerAssumption
<1>2. TypeOK
  <2>0. time = 0 /\ system_ticks = 0 /\ irq_pending \in BOOLEAN
    BY DEF SleepInit
  <2>1. time \in Nat /\ system_ticks \in 0..TickMax
    BY <1>1, <2>0
  <2>2. sleepq \in Seq(Task) /\ handler \in {"idle", "loop", "wake"}
    BY DEF SleepInit
  <2>3. wake_tick \in [Task -> 0..TickMax]
    BY <1>1 DEF SleepInit
  <2> QED BY <2>0, <2>1, <2>2, <2>3 DEF SleepInit, TypeOK
<1>3. Pending = 0
  BY DEF SleepInit, Pending
<1>4. ClockExact
  BY <1>1, <1>3 DEF SleepInit, ClockExact
<1>5. SortedByDeadline /\ NoDuplicates /\ NobodyDue
  BY DEF SleepInit, SortedByDeadline, NoDuplicates, NobodyDue
<1>6. Tracked /\ LockExact /\ PoppedExact /\ DeadlineCovers
  BY TimerAssumption DEF SleepInit, Tracked, InQueue, LockExact, PoppedExact, DeadlineCovers
<1> QED BY <1>2, <1>4, <1>5, <1>6 DEF SleepInv

\* Every step preserves it.
LEMMA NextIInv == SleepInv /\ [SleepNext]_sleepVars => SleepInv'
<1> SUFFICES ASSUME SleepInv, [SleepNext]_sleepVars PROVE SleepInv'
  OBVIOUS
<1>1. CASE SleepNext
  BY <1>1, ElapseIInv, TickIInv, LoopIInv, WakeIInv, BlockIInv, ReturnIInv, SleepIInv
     DEF SleepNext, Handler, Block
<1>2. CASE UNCHANGED sleepVars
  BY <1>2, SMTT(30) DEF sleepVars, SleepInv, TypeOK, SortedByDeadline, NoDuplicates, Tracked, InQueue, NobodyDue,
              ClockExact, Pending, LockExact, PoppedExact, DeadlineCovers
<1> QED BY <1>1, <1>2

\* The invariant holds of every reachable state.
LEMMA InvariantHolds == SleepSpec => []SleepInv
BY InitIInv, NextIInv, PTL DEF SleepSpec

\* For any number of tasks, any timer frequency and any mix of sleeps: the sleep queue
\* is sorted and holds the sleepers exactly once, and sleep_queue_tick leaves nobody behind
\* who is due, although tasks go to sleep between two turns of its loop.
THEOREM SleepersAreTracked == SleepSpec => []SleepersTracked
<1>1. SleepInv => SleepersTracked
  BY DEF SleepInv, SleepersTracked, NoDuplicates, Tracked, InQueue, NobodyDue
<1> QED BY <1>1, InvariantHolds, PTL

\* No sleeper wakes two ticks or more before the time task_sleep was asked for, whatever
\* was pending when it was called and however timer_ms_to_ticks rounds.
THEOREM NobodyWakesEarly == SleepSpec => AlmostLongEnough
<1> DEFINE Late == \A t \in Task : state[t] = "SLEEPING" /\ state'[t] = "READY" =>
                      time - since[t] + 2 * TickMs > asked[t]
<1>1. SleepInv /\ [SleepNext]_sleepVars => [Late]_sleepVars
  <2> SUFFICES ASSUME SleepInv, SleepNext, NEW t \in Task, state[t] = "SLEEPING", state'[t] = "READY"
               PROVE  time - since[t] + 2 * TickMs > asked[t]
    OBVIOUS
  <2>1. scheduler_wake /\ t = popped
    <3>1. state' # state
      OBVIOUS
    <3>2. \A u \in Task : ~scheduler_block_current_wait(u) /\ \A ms \in Millis : ~task_sleep(u, ms)
      BY DEF SleepInv, TypeOK, scheduler_block_current_wait, task_sleep
    <3>3. scheduler_wake
      BY <3>1, <3>2 DEF SleepNext, Handler, Block, Elapse, timer_handle_tick, sleep_queue_tick, Return
    <3> QED BY <3>3 DEF scheduler_wake, SleepInv, TypeOK
  <2>2. /\ wake_tick[t] <= system_ticks /\ wake_tick[t] \in Nat /\ system_ticks \in Nat /\ time \in Nat
        /\ since[t] \in Nat /\ asked[t] \in Nat /\ TickMs \in Nat \ {0} /\ Pending \in {0, 1}
    BY <2>1, TimerAssumption, TickPeriod DEF SleepInv, PoppedExact, scheduler_wake, TypeOK, Pending
  <2>3. since[t] + asked[t] < wake_tick[t] * TickMs + 2 * TickMs
    <3>1. (wake_tick[t] + 2) * TickMs = wake_tick[t] * TickMs + 2 * TickMs
      BY <2>2, TicksMonotone
    <3> QED BY <3>1 DEF SleepInv, DeadlineCovers
  <2>4. wake_tick[t] * TickMs <= (system_ticks + Pending) * TickMs
    BY <2>2, TicksMonotone
  <2>5. (system_ticks + Pending) * TickMs <= time
    BY DEF SleepInv, ClockExact
  <2>6. wake_tick[t] * TickMs \in Nat /\ (system_ticks + Pending) * TickMs \in Nat
    BY <2>2
  <2> QED BY <2>2, <2>3, <2>4, <2>5, <2>6
<1> QED BY <1>1, InvariantHolds, PTL DEF SleepSpec, AlmostLongEnough

-----------------------------------------------------------------------------
(* Sequences of characters, of events, of anything.                        *)

IsSeq(s) == \E S : s \in Seq(S)

\* What sequences are made of, whatever is in them.
LEMMA Pieces ==
    /\ IsSeq(<<>>)
    /\ \A x : IsSeq(<<x>>)
    /\ \A s, x : IsSeq(s) => IsSeq(Append(s, x)) /\ Len(Append(s, x)) = Len(s) + 1
    /\ \A s : IsSeq(s) => Len(s) \in Nat /\ (Len(s) = 0 <=> s = <<>>)
    /\ \A s : IsSeq(s) /\ s # <<>> => IsSeq(Tail(s)) /\ Len(Tail(s)) = Len(s) - 1
<1>1. IsSeq(<<>>)
  <2>1. <<>> \in Seq({})
    OBVIOUS
  <2> QED BY <2>1 DEF IsSeq
<1>2. ASSUME NEW x PROVE IsSeq(<<x>>)
  <2>1. <<x>> \in Seq({x})
    OBVIOUS
  <2> QED BY <2>1 DEF IsSeq
<1>3. ASSUME NEW s, NEW x, IsSeq(s) PROVE IsSeq(Append(s, x)) /\ Len(Append(s, x)) = Len(s) + 1
  <2>1. PICK S : s \in Seq(S)
    BY <1>3 DEF IsSeq
  <2>2. s \in Seq(S \cup {x})
    BY <2>1
  <2>3. Append(s, x) \in Seq(S \cup {x}) /\ Len(Append(s, x)) = Len(s) + 1
    BY <2>2
  <2> QED BY <2>3 DEF IsSeq
<1>4. ASSUME NEW s, IsSeq(s) PROVE Len(s) \in Nat /\ (Len(s) = 0 <=> s = <<>>)
  <2>1. PICK S : s \in Seq(S)
    BY <1>4 DEF IsSeq
  <2> QED BY <2>1
<1>5. ASSUME NEW s, IsSeq(s), s # <<>> PROVE IsSeq(Tail(s)) /\ Len(Tail(s)) = Len(s) - 1
  <2>1. PICK S : s \in Seq(S)
    BY <1>5 DEF IsSeq
  <2>2. Tail(s) \in Seq(S) /\ Len(Tail(s)) = Len(s) - 1
    BY <1>5, <2>1
  <2> QED BY <2>2 DEF IsSeq
<1> QED BY <1>1, <1>2, <1>3, <1>4, <1>5

\* Two of them joined; and the first of one.
LEMMA Joined ==
    ASSUME NEW s, NEW t, IsSeq(s), IsSeq(t)
    PROVE  /\ IsSeq(s \o t) /\ Len(s \o t) = Len(s) + Len(t)
           /\ \A m \in 1..(Len(s) + 1), n \in 0..Len(s) :
                 m <= n + 1 => IsSeq(SubSeq(s, m, n)) /\ Len(SubSeq(s, m, n)) = n - m + 1
<1>1. PICK S : s \in Seq(S)
  BY DEF IsSeq
<1>2. PICK T : t \in Seq(T)
  BY DEF IsSeq
<1>3. s \in Seq(S \cup T) /\ t \in Seq(S \cup T)
  BY <1>1, <1>2
<1>4. s \o t \in Seq(S \cup T) /\ Len(s \o t) = Len(s) + Len(t)
  BY <1>3
<1>5. ASSUME NEW m \in 1..(Len(s) + 1), NEW n \in 0..Len(s), m <= n + 1
      PROVE  IsSeq(SubSeq(s, m, n)) /\ Len(SubSeq(s, m, n)) = n - m + 1
  <2>1. SubSeq(s, m, n) \in Seq(S) /\ Len(SubSeq(s, m, n)) = n - m + 1
    BY <1>1, <1>5
  <2> QED BY <2>1 DEF IsSeq
<1> QED BY <1>4, <1>5 DEF IsSeq

\* What fits of a text in a ring.
LEMMA RoomIs ==
    ASSUME NEW queue, NEW new, NEW slots \in Nat, IsSeq(queue), IsSeq(new), Len(queue) <= slots
    PROVE  LET n == Room(queue, new, slots)
               all == queue \o SubSeq(new, 1, n)
           IN  /\ n \in 0..Len(new) /\ IsSeq(all)
               /\ Len(all) = Len(queue) + n /\ Len(all) <= slots
<1> DEFINE n == Room(queue, new, slots)
<1>0. Len(queue) \in Nat /\ Len(new) \in Nat
  BY Pieces
<1>1. n \in 0..Len(new) /\ Len(queue) + n <= slots
  BY <1>0 DEF Room
<1> HIDE DEF n
<1>2. IsSeq(SubSeq(new, 1, n)) /\ Len(SubSeq(new, 1, n)) = n
  <2>1. 1 \in 1..(Len(new) + 1) /\ 1 <= n + 1 /\ n - 1 + 1 = n
    BY <1>0, <1>1
  <2> QED BY <1>1, <2>1, Joined
<1>3. IsSeq(queue \o SubSeq(new, 1, n)) /\ Len(queue \o SubSeq(new, 1, n)) = Len(queue) + n
  BY <1>2, Joined
<1> QED BY <1>1, <1>3 DEF n

\* What an event puts into the character buffer is a text.
LEMMA CharactersAreText == \A e : IsSeq(Characters(e))
<1> SUFFICES ASSUME NEW e PROVE IsSeq(Characters(e))
  OBVIOUS
<1>1. IsSeq(<<e.char>>) /\ IsSeq(<<>>)
  BY Pieces
<1>2. \A x, y, z : IsSeq(<<x, y, z>>)
  <2>1. \A x, y, z : <<x, y, z>> \in Seq({x, y, z})
    OBVIOUS
  <2> QED BY <2>1 DEF IsSeq
<1>3. \A x, y, z, u : IsSeq(<<x, y, z, u>>)
  <2>1. \A x, y, z, u : <<x, y, z, u>> \in Seq({x, y, z, u})
    OBVIOUS
  <2> QED BY <2>1 DEF IsSeq
<1>4. IsSeq(TerminalSequence(e.key))
  BY <1>1, <1>2, <1>3 DEF TerminalSequence
<1> QED BY <1>1, <1>4 DEF Characters

-----------------------------------------------------------------------------
(* Permits.                                                                *)

\* The queues that have a semaphore, and the counts.
RingsOK ==
    /\ IsSeq(events) /\ Len(events) <= EventSlots
    /\ IsSeq(chars) /\ Len(chars) <= CharacterSlots
    /\ IsSeq(gui) /\ guiCount \in Nat
    /\ permits \in [event : Nat, char : Nat]
    /\ thread.permit \in BOOLEAN /\ thread = [permit |-> thread.permit, push |-> thread.push]
    /\ taken \in BOOLEAN
PermitInv == RingsOK /\ PermitsMatch

\* Nothing is queued at first.
LEMMA InitPermits == Init => PermitInv
<1> SUFFICES ASSUME Init PROVE PermitInv
  OBVIOUS
<1>1. RingsOK
  <2>1. Len(events) = 0 /\ Len(chars) = 0
    BY DEF Init
  <2>2. thread = [permit |-> FALSE, push |-> <<>>] /\ permits = [event |-> 0, char |-> 0]
    BY DEF Init, Idle
  <2>3. permits \in [event : Nat, char : Nat]
    BY <2>2
  <2>4. thread.permit \in BOOLEAN /\ thread = [permit |-> thread.permit, push |-> thread.push]
    BY <2>2
  <2>5. IsSeq(events) /\ IsSeq(chars) /\ IsSeq(gui)
    BY Pieces DEF Init
  <2>6. guiCount \in Nat /\ taken \in BOOLEAN
    BY DEF Init
  <2> QED BY <2>1, <2>3, <2>4, <2>5, <2>6, RingAssumption DEF RingsOK
<1>2. PermitsMatch
  BY DEF Init, PermitsMatch, Bool, Idle
<1> QED BY <1>1, <1>2 DEF PermitInv

\* What the invariant depends on.
ringVars == <<events, chars, permits, gui, guiCount, thread, taken, reader>>
LEMMA RingsUntouched == ASSUME PermitInv, UNCHANGED ringVars PROVE PermitInv'
BY DEF PermitInv, RingsOK, PermitsMatch, ringVars, Bool

\* An event goes into the ring of the reader with a permit for what fits.
LEMMA PublishPermits ==
    ASSUME PermitInv, NEW e, Publish(e), UNCHANGED <<reader, thread, taken>>
    PROVE  PermitInv'
<1>0. RingsOK /\ PermitsMatch
  BY DEF PermitInv
<1>1. CASE UNCHANGED <<events, chars, permits, gui, guiCount>>
  BY <1>1, RingsUntouched DEF ringVars
<1>2. CASE gui_input_push(e) /\ UNCHANGED <<events, chars, permits>>
  <2>1. CASE QueueFull
    BY <1>2, <2>1, RingsUntouched DEF ringVars, gui_input_push
  <2>2. CASE ~QueueFull
    <3>1. IsSeq(gui') /\ Len(gui') = Len(gui) + 1 /\ guiCount' = guiCount + 1 /\ Len(gui) \in Nat
      BY <1>0, <1>2, <2>2, Pieces DEF gui_input_push, RingsOK
    <3> QED BY <1>0, <1>2, <3>1 DEF PermitInv, RingsOK, PermitsMatch, Bool
  <2> QED BY <2>1, <2>2
<1>3. CASE reader = "console" /\ keyboard_character_push(e) /\ UNCHANGED <<gui, guiCount>>
  <2> DEFINE n == Room(chars, Characters(e), CharacterSlots)
  <2>1. /\ n \in Nat /\ IsSeq(chars') /\ Len(chars') = Len(chars) + n /\ Len(chars') <= CharacterSlots
        /\ permits' = [permits EXCEPT !.char = @ + n] /\ events' = events
    BY <1>0, <1>3, RoomIs, CharactersAreText, RingAssumption, Pieces DEF keyboard_character_push, RingsOK
  <2>2. Len(chars) \in Nat /\ permits.char \in Nat
    BY <1>0, Pieces DEF RingsOK
  <2> HIDE DEF n
  <2>3. permits' \in [event : Nat, char : Nat] /\ permits'.event = permits.event /\ permits'.char = permits.char + n
    BY <1>0, <2>1, <2>2 DEF RingsOK
  <2>4. RingsOK'
    BY <1>0, <1>3, <2>1, <2>3 DEF RingsOK
  <2> DEFINE b == Bool(taken /\ reader = "console")
  <2>5. b \in Nat /\ permits.char + b = Len(chars)
    BY <1>0 DEF PermitsMatch, Bool
  <2>6. Bool(taken /\ reader = "console")' = b
    BY DEF Bool
  <2> HIDE DEF b
  <2>7. permits'.char + b = Len(chars')
    BY <2>1, <2>2, <2>3, <2>5
  <2> QED BY <1>0, <1>3, <2>1, <2>3, <2>4, <2>6, <2>7 DEF PermitInv, PermitsMatch, Bool
<1>4. CASE reader = "events" /\ keyboard_event_push(e) /\ UNCHANGED <<gui, guiCount>>
  <2> DEFINE n == Room(events, <<e>>, EventSlots)
  <2>1. /\ n \in Nat /\ IsSeq(events') /\ Len(events') = Len(events) + n /\ Len(events') <= EventSlots
        /\ permits' = [permits EXCEPT !.event = @ + n] /\ chars' = chars
    BY <1>0, <1>4, RoomIs, RingAssumption, Pieces DEF keyboard_event_push, RingsOK
  <2>2. Len(events) \in Nat /\ permits.event \in Nat
    BY <1>0, Pieces DEF RingsOK
  <2> HIDE DEF n
  <2>3. permits' \in [event : Nat, char : Nat] /\ permits'.char = permits.char /\ permits'.event = permits.event + n
    BY <1>0, <2>1, <2>2 DEF RingsOK
  <2>4. RingsOK'
    BY <1>0, <1>4, <2>1, <2>3 DEF RingsOK
  <2> DEFINE b == Bool(taken /\ reader = "events")
  <2>5. b \in Nat /\ permits.event + b = Len(events)
    BY <1>0 DEF PermitsMatch, Bool
  <2>6. Bool(taken /\ reader = "events")' = b
    BY DEF Bool
  <2> HIDE DEF b
  <2>7. permits'.event + b = Len(events')
    BY <2>1, <2>2, <2>3, <2>5
  <2> QED BY <1>0, <1>4, <2>1, <2>3, <2>4, <2>6, <2>7 DEF PermitInv, PermitsMatch, Bool
<1> QED BY <1>1, <1>2, <1>3, <1>4 DEF Publish

\* Every step of the keyboard, the interrupt, the GUI task and the readers.
LEMMA StepPermits == ASSUME PermitInv, [Next]_vars PROVE PermitInv'
<1>0. RingsOK /\ PermitsMatch
  BY DEF PermitInv
<1>1. CASE UNCHANGED vars
  BY <1>1, RingsUntouched DEF vars, keyboardVars, ringVars
<1>2. ASSUME NEW bytes, Stroke(bytes) PROVE PermitInv'
  BY <1>2, RingsUntouched DEF Stroke, ringVars, consoleVars
<1>3. ASSUME NEW code, Release(code) PROVE PermitInv'
  BY <1>3, RingsUntouched DEF Release, ringVars, consoleVars
<1>4. CASE keyboard_interrupt_handler
  <2>1. CASE UNCHANGED <<events, chars, permits, gui, guiCount>>
    BY <1>4, <2>1, RingsUntouched DEF keyboard_interrupt_handler, ringVars
  <2>2. ASSUME NEW e, Publish(e) PROVE PermitInv'
    BY <1>4, <2>2, PublishPermits DEF keyboard_interrupt_handler
  <2> QED BY <1>4, <2>1, <2>2 DEF keyboard_interrupt_handler
<1>5. CASE GuiWait
  <2>1. /\ ~thread.permit /\ guiCount > 0 /\ guiCount' = guiCount - 1
        /\ thread' = [thread EXCEPT !.permit = TRUE]
        /\ UNCHANGED <<events, chars, permits, gui, taken, reader>>
    BY <1>5 DEF GuiWait, keyboardVars
  <2>2. thread' = [permit |-> TRUE, push |-> thread.push]
    BY <1>0, <2>1 DEF RingsOK
  <2>3. thread'.permit = TRUE /\ thread' = [permit |-> thread'.permit, push |-> thread'.push]
    BY <2>2
  <2>4. RingsOK'
    BY <1>0, <2>1, <2>3 DEF RingsOK
  <2>5. guiCount = Len(gui) /\ Len(gui) \in Nat
    BY <1>0, <2>1, Pieces DEF PermitsMatch, Bool, RingsOK
  <2>6. guiCount' + Bool(thread'.permit) = Len(gui)
    BY <2>1, <2>3, <2>5 DEF Bool
  <2> QED BY <1>0, <2>1, <2>4, <2>6 DEF PermitInv, PermitsMatch, Bool
<1>6. CASE GuiDispatch
  <2>1. /\ thread.permit /\ UNCHANGED <<events, chars, permits, guiCount, taken, reader>>
    BY <1>6 DEF GuiDispatch, keyboardVars
  <2>2. guiCount + 1 = Len(gui) /\ Len(gui) \in Nat /\ guiCount \in Nat
    BY <1>0, <2>1, Pieces DEF PermitsMatch, Bool, RingsOK
  <2>3. gui # <<>>
    BY <1>0, <2>2, Pieces DEF RingsOK
  <2>4. gui' = Tail(gui) /\ \E p : thread' = [Idle EXCEPT !.push = p]
    BY <1>6, <2>3 DEF GuiDispatch
  <2>5. IsSeq(gui') /\ Len(gui') = Len(gui) - 1
    BY <1>0, <2>3, <2>4, Pieces DEF RingsOK
  <2>6. PICK p : thread' = [permit |-> FALSE, push |-> p]
    BY <2>4 DEF Idle
  <2>7. thread'.permit = FALSE /\ thread' = [permit |-> thread'.permit, push |-> thread'.push]
    BY <2>6
  <2>8. RingsOK'
    BY <1>0, <2>1, <2>5, <2>7 DEF RingsOK
  <2>9. guiCount' + Bool(thread'.permit) = Len(gui')
    BY <2>1, <2>2, <2>5, <2>7 DEF Bool
  <2> QED BY <1>0, <2>1, <2>8, <2>9 DEF PermitInv, PermitsMatch, Bool
<1>7. CASE gui_terminal_input_push
  <2>1. /\ thread' = [thread EXCEPT !.push = Tail(@)]
        /\ UNCHANGED <<events, chars, permits, gui, guiCount, taken, reader>>
    BY <1>7 DEF gui_terminal_input_push, keyboardVars
  <2>2. thread' = [permit |-> thread.permit, push |-> Tail(thread.push)]
    BY <1>0, <2>1 DEF RingsOK
  <2>3. thread'.permit = thread.permit /\ thread' = [permit |-> thread'.permit, push |-> thread'.push]
    BY <2>2
  <2>4. RingsOK'
    BY <1>0, <2>1, <2>3 DEF RingsOK
  <2> QED BY <1>0, <2>1, <2>3, <2>4 DEF PermitInv, PermitsMatch, Bool
<1>8. CASE gui_terminal_session_read
  BY <1>8, RingsUntouched DEF gui_terminal_session_read, keyboardVars, ringVars
<1>9. CASE keyboard_read_character_wait
  <2>1. /\ reader = "console" /\ ~taken /\ taken' = TRUE /\ permits.char > 0
        /\ permits' = [permits EXCEPT !.char = @ - 1]
        /\ UNCHANGED <<events, chars, gui, guiCount, thread, reader>>
    BY <1>9 DEF keyboard_read_character_wait, TakePermit
  <2>2. permits.char \in Nat /\ permits.event \in Nat
        /\ permits = [event |-> permits.event, char |-> permits.char]
    BY <1>0 DEF RingsOK
  <2>3. permits' = [event |-> permits.event, char |-> permits.char - 1]
    BY <2>1, <2>2
  <2>4. RingsOK'
    BY <1>0, <2>1, <2>2, <2>3 DEF RingsOK
  <2>5. permits.char = Len(chars) /\ permits.event = Len(events)
    BY <1>0, <2>1, <2>2 DEF PermitsMatch, Bool
  <2>6. permits'.char + 1 = Len(chars) /\ permits'.event + 0 = Len(events)
    BY <2>2, <2>3, <2>5
  <2> QED BY <1>0, <2>1, <2>4, <2>6 DEF PermitInv, PermitsMatch, Bool
<1>10. CASE keyboard_read_character
  <2>1. /\ reader = "console" /\ taken /\ taken' = FALSE /\ chars # <<>> /\ chars' = Tail(chars)
        /\ UNCHANGED <<events, permits, gui, guiCount, thread, reader>>
    BY <1>10 DEF keyboard_read_character, keyboard_character_pop
  <2>2. IsSeq(chars') /\ Len(chars') = Len(chars) - 1 /\ Len(chars) \in Nat
    BY <1>0, <2>1, Pieces DEF RingsOK
  <2> DEFINE n == CharacterSlots
  <2>3. RingsOK'
    <3>1. Len(chars) <= n /\ n \in Nat
      BY <1>0, RingAssumption DEF RingsOK
    <3> HIDE DEF n
    <3>2. Len(chars') <= n
      BY <2>2, <3>1
    <3>3. taken' \in BOOLEAN
      BY <2>1
    <3> QED BY <1>0, <2>1, <2>2, <3>2, <3>3 DEF RingsOK, n
  <2>4. permits.char + 1 = Len(chars) /\ permits.event + 0 = Len(events) /\ permits.char \in Nat
    BY <1>0, <2>1 DEF PermitsMatch, Bool, RingsOK
  <2>5. permits.char + 0 = Len(chars')
    BY <2>2, <2>4
  <2> QED BY <1>0, <2>1, <2>3, <2>4, <2>5 DEF PermitInv, PermitsMatch, Bool
<1>11. CASE syscall_read_key_event_wait
  <2>1. /\ reader = "events" /\ ~taken /\ taken' = TRUE /\ permits.event > 0
        /\ permits' = [permits EXCEPT !.event = @ - 1]
        /\ UNCHANGED <<events, chars, gui, guiCount, thread, reader>>
    BY <1>11 DEF syscall_read_key_event_wait, TakePermit
  <2>2. permits.char \in Nat /\ permits.event \in Nat
        /\ permits = [event |-> permits.event, char |-> permits.char]
    BY <1>0 DEF RingsOK
  <2>3. permits' = [event |-> permits.event - 1, char |-> permits.char]
    BY <2>1, <2>2
  <2>4. RingsOK'
    BY <1>0, <2>1, <2>2, <2>3 DEF RingsOK
  <2>5. permits.char = Len(chars) /\ permits.event = Len(events)
    BY <1>0, <2>1, <2>2 DEF PermitsMatch, Bool
  <2>6. permits'.event + 1 = Len(events) /\ permits'.char + 0 = Len(chars)
    BY <2>2, <2>3, <2>5
  <2> QED BY <1>0, <2>1, <2>4, <2>6 DEF PermitInv, PermitsMatch, Bool
<1>12. CASE syscall_read_key_event
  <2>1. /\ reader = "events" /\ taken /\ taken' = FALSE /\ events # <<>> /\ events' = Tail(events)
        /\ UNCHANGED <<chars, permits, gui, guiCount, thread, reader>>
    BY <1>12 DEF syscall_read_key_event, keyboard_event_pop
  <2>2. IsSeq(events') /\ Len(events') = Len(events) - 1 /\ Len(events) \in Nat
    BY <1>0, <2>1, Pieces DEF RingsOK
  <2> DEFINE n == EventSlots
  <2>3. RingsOK'
    <3>1. Len(events) <= n /\ n \in Nat
      BY <1>0, RingAssumption DEF RingsOK
    <3> HIDE DEF n
    <3>2. Len(events') <= n
      BY <2>2, <3>1
    <3>3. taken' \in BOOLEAN
      BY <2>1
    <3> QED BY <1>0, <2>1, <2>2, <3>2, <3>3 DEF RingsOK, n
  <2>4. permits.event + 1 = Len(events) /\ permits.char + 0 = Len(chars) /\ permits.event \in Nat
    BY <1>0, <2>1 DEF PermitsMatch, Bool, RingsOK
  <2>5. permits.event + 0 = Len(events')
    BY <2>2, <2>4
  <2> QED BY <1>0, <2>1, <2>3, <2>4, <2>5 DEF PermitInv, PermitsMatch, Bool
<1>13. CASE \E bytes : Stroke(bytes)
  BY <1>2, <1>13
<1>14. CASE \E code : Release(code)
  BY <1>3, <1>14
<1>15. ASSUME Next
       PROVE  \/ \E bytes : Stroke(bytes)
              \/ \E code : Release(code)
              \/ keyboard_interrupt_handler \/ GuiTask \/ ReaderTask
  BY <1>15, Zenon DEF Next, Tap, Press, OtherKey
<1> QED BY <1>1, <1>13, <1>14, <1>15, <1>4, <1>5, <1>6, <1>7, <1>8, <1>9, <1>10, <1>11, <1>12
        DEF GuiTask, ReaderTask

\* keyboard.c:495, :537 and gui/input.c:157: for rings of any size and any keys,
\* every queued event and character has a permit or a reader that took its
\* permit, and the GUI task is called once for every event in its ring.
THEOREM PermitsMatchAlways == Spec => []PermitsMatch
<1>1. Init => PermitInv
  BY InitPermits
<1>2. PermitInv /\ [Next]_vars => PermitInv'
  BY StepPermits
<1>3. PermitInv => PermitsMatch
  BY DEF PermitInv
<1> QED BY <1>1, <1>2, <1>3, PTL DEF Spec

-----------------------------------------------------------------------------
(* The decoder and the keys held.                                          *)

\* What the decoder should hold between two strokes.
Agreed(h, l) == [e0 |-> FALSE, e1 |-> 0, down |-> h, mods |-> h \cap Modifier, caps |-> l]

\* From d the bytes w lead the decoder to e.
DecodesTo(d, w, e) ==
    \E g : /\ g[0] = d /\ g[Len(w)] = e
           /\ \A i \in 1..Len(w) : g[i] = Decode(g[i - 1], w[i])

\* Without a byte the decoder stays.
LEMMA DecodesNothing == \A d, e : DecodesTo(d, <<>>, e) <=> d = e
<1> SUFFICES ASSUME NEW d, NEW e PROVE DecodesTo(d, <<>>, e) <=> d = e
  OBVIOUS
<1>1. Len(<<>>) = 0
  OBVIOUS
<1>2. ASSUME d = e PROVE DecodesTo(d, <<>>, e)
  <2> DEFINE g == [i \in 0..0 |-> d]
  <2>1. g[0] = d /\ g[0] = e
    BY <1>2
  <2> HIDE DEF g
  <2>2. \A i \in 1..0 : g[i] = Decode(g[i - 1], <<>>[i])
    OBVIOUS
  <2> QED BY <1>1, <2>1, <2>2 DEF DecodesTo
<1>3. ASSUME DecodesTo(d, <<>>, e) PROVE d = e
  BY <1>1, <1>3 DEF DecodesTo
<1> QED BY <1>2, <1>3

\* A byte is decoded, then the rest.
LEMMA DecodesRest ==
    ASSUME NEW w, IsSeq(w), w # <<>>, NEW d, NEW e, DecodesTo(d, w, e)
    PROVE  DecodesTo(Decode(d, Head(w)), Tail(w), e)
<1>1. PICK g : /\ g[0] = d /\ g[Len(w)] = e
               /\ \A i \in 1..Len(w) : g[i] = Decode(g[i - 1], w[i])
  BY DEF DecodesTo
<1>2. PICK S : w \in Seq(S)
  BY DEF IsSeq
<1>3. /\ Len(w) \in Nat \ {0} /\ Head(w) = w[1] /\ Len(Tail(w)) = Len(w) - 1
      /\ \A i \in 1..(Len(w) - 1) : Tail(w)[i] = w[i + 1]
  BY <1>2
<1> DEFINE f == [i \in 0..(Len(w) - 1) |-> g[i + 1]]
<1>4. f[0] = Decode(d, Head(w))
  <2>1. 1 \in 1..Len(w) /\ 0 \in 0..(Len(w) - 1) /\ 1 - 1 = 0 /\ 0 + 1 = 1
    BY <1>3
  <2> QED BY <1>1, <1>3, <2>1
<1>5. f[Len(Tail(w))] = e
  BY <1>1, <1>3
<1>6. ASSUME NEW i \in 1..Len(Tail(w)) PROVE f[i] = Decode(f[i - 1], Tail(w)[i])
  <2>1. /\ i + 1 \in 1..Len(w) /\ (i + 1) - 1 = i /\ (i - 1) + 1 = i
        /\ i \in 0..(Len(w) - 1) /\ i - 1 \in 0..(Len(w) - 1) /\ i \in 1..(Len(w) - 1)
    BY <1>3
  <2>2. f[i] = g[i + 1] /\ f[i - 1] = g[i] /\ Tail(w)[i] = w[i + 1]
    BY <1>3, <2>1
  <2>3. g[i + 1] = Decode(g[i], w[i + 1])
    BY <1>1, <2>1
  <2> QED BY <2>2, <2>3
<1> HIDE DEF f
<1> QED BY <1>4, <1>5, <1>6 DEF DecodesTo

\* One sequence of bytes after the other.
LEMMA DecodesBoth ==
    ASSUME NEW v, NEW w, IsSeq(v), IsSeq(w), NEW d, NEW e, NEW k,
           DecodesTo(d, v, e), DecodesTo(e, w, k)
    PROVE  DecodesTo(d, v \o w, k)
<1>1. PICK g : /\ g[0] = d /\ g[Len(v)] = e
               /\ \A i \in 1..Len(v) : g[i] = Decode(g[i - 1], v[i])
  BY DEF DecodesTo
<1>2. PICK h : /\ h[0] = e /\ h[Len(w)] = k
               /\ \A i \in 1..Len(w) : h[i] = Decode(h[i - 1], w[i])
  BY DEF DecodesTo
<1>3. PICK S : v \in Seq(S) /\ w \in Seq(S)
  <2>1. PICK A : v \in Seq(A)
    BY DEF IsSeq
  <2>2. PICK B : w \in Seq(B)
    BY DEF IsSeq
  <2>3. v \in Seq(A \cup B) /\ w \in Seq(A \cup B)
    BY <2>1, <2>2
  <2> QED BY <2>3
<1> DEFINE m == Len(v)
           n == Len(w)
           f == [i \in 0..(m + n) |-> IF i <= m THEN g[i] ELSE h[i - m]]
<1>4. /\ m \in Nat /\ n \in Nat /\ Len(v \o w) = m + n
      /\ \A i \in 1..(m + n) : (v \o w)[i] = IF i <= m THEN v[i] ELSE w[i - m]
  BY <1>3
<1> HIDE DEF m, n
<1>5. \A i \in 0..n : f[m + i] = h[i]
  <2> SUFFICES ASSUME NEW i \in 0..n PROVE f[m + i] = h[i]
    OBVIOUS
  <2>1. CASE i = 0
    BY <1>1, <1>2, <1>4, <2>1 DEF m
  <2>2. CASE i # 0
    <3>1. m + i \in 0..(m + n) /\ ~(m + i <= m) /\ (m + i) - m = i
      BY <1>4, <2>2
    <3> QED BY <3>1
  <2> QED BY <2>1, <2>2
<1>6. \A i \in 0..m : f[i] = g[i]
  BY <1>4
<1> HIDE DEF f
<1>7. f[0] = d /\ f[Len(v \o w)] = k
  BY <1>1, <1>2, <1>4, <1>5, <1>6 DEF n
<1>8. ASSUME NEW i \in 1..(m + n) PROVE f[i] = Decode(f[i - 1], (v \o w)[i])
  <2>1. CASE i <= m
    <3>1. i \in 1..m /\ i \in 0..m /\ i - 1 \in 0..m
      BY <1>4, <2>1
    <3>2. g[i] = Decode(g[i - 1], v[i])
      BY <1>1, <3>1 DEF m
    <3> QED BY <1>4, <1>6, <2>1, <3>1, <3>2
  <2>2. CASE ~(i <= m)
    <3> DEFINE j == i - m
    <3>1. j \in 1..n /\ j \in 0..n /\ j - 1 \in 0..n /\ m + j = i /\ m + (j - 1) = i - 1
      BY <1>4, <2>2
    <3>2. h[j] = Decode(h[j - 1], w[j])
      BY <1>2, <3>1 DEF n
    <3>3. f[i] = h[j] /\ f[i - 1] = h[j - 1] /\ (v \o w)[i] = w[j]
      <4> HIDE DEF j
      <4>1. f[m + j] = h[j] /\ f[m + (j - 1)] = h[j - 1]
        BY <1>5, <3>1
      <4>2. (v \o w)[i] = w[i - m]
        BY <1>4, <2>2
      <4> QED BY <3>1, <4>1, <4>2 DEF j
    <3> QED BY <3>2, <3>3
  <2> QED BY <2>1, <2>2
<1> QED BY <1>4, <1>7, <1>8 DEF DecodesTo

\* One byte.
LEMMA DecodesByte == \A d, b : IsSeq(<<b>>) /\ DecodesTo(d, <<b>>, Decode(d, b))
<1> SUFFICES ASSUME NEW d, NEW b PROVE DecodesTo(d, <<b>>, Decode(d, b))
  BY Pieces
<1> DEFINE g == [i \in 0..1 |-> IF i = 0 THEN d ELSE Decode(d, b)]
<1>1. Len(<<b>>) = 1 /\ <<b>>[1] = b
  OBVIOUS
<1>2. g[0] = d /\ g[1] = Decode(d, b)
  OBVIOUS
<1> HIDE DEF g
<1>3. \A i \in 1..1 : g[i] = Decode(g[i - 1], <<b>>[i])
  <2>1. ASSUME NEW i \in 1..1 PROVE i = 1 /\ i - 1 = 0
    OBVIOUS
  <2> QED BY <1>1, <1>2, <2>1
<1> QED BY <1>1, <1>2, <1>3 DEF DecodesTo

\* Two bytes.
LEMMA DecodesPair ==
    \A d, a, b : IsSeq(<<a, b>>) /\ DecodesTo(d, <<a, b>>, Decode(Decode(d, a), b))
<1> SUFFICES ASSUME NEW d, NEW a, NEW b
             PROVE  IsSeq(<<a, b>>) /\ DecodesTo(d, <<a, b>>, Decode(Decode(d, a), b))
  OBVIOUS
<1> DEFINE e == Decode(d, a)
           k == Decode(e, b)
           g == [i \in 0..2 |-> IF i = 0 THEN d ELSE IF i = 1 THEN e ELSE k]
           w == <<a, b>>
<1>1. Len(w) = 2 /\ w[1] = a /\ w[2] = b /\ w \in Seq({a, b})
  OBVIOUS
<1>2. g[0] = d /\ g[1] = e /\ g[2] = k
  <2> HIDE DEF e, k
  <2> QED OBVIOUS
<1>3. e = Decode(d, a) /\ k = Decode(e, b)
  OBVIOUS
<1> HIDE DEF e, k, g, w
<1>4. ASSUME NEW i \in 1..2 PROVE g[i] = Decode(g[i - 1], w[i])
  <2>1. (i = 1 /\ i - 1 = 0) \/ (i = 2 /\ i - 1 = 1)
    OBVIOUS
  <2> QED BY <1>1, <1>2, <1>3, <2>1
<1>5. DecodesTo(d, w, k)
  BY <1>1, <1>2, <1>4 DEF DecodesTo
<1> QED BY <1>1, <1>3, <1>5 DEF IsSeq, w

\* The states of the decoder in a stroke that presses or releases one key.
InStroke(h, l) ==
    {[e0 |-> x, e1 |-> 0, down |-> h, mods |-> h \cap Modifier, caps |-> l] : x \in BOOLEAN}
\* A stroke in parts.
LEMMA InStrokeIs ==
    ASSUME NEW h, NEW l, NEW d \in InStroke(h, l)
    PROVE  /\ d = [e0 |-> d.e0, e1 |-> 0, down |-> h, mods |-> h \cap Modifier, caps |-> l]
           /\ d.e1 = 0 /\ d.down = h /\ d.mods = h \cap Modifier /\ d.caps = l
<1>1. PICK x : d = [e0 |-> x, e1 |-> 0, down |-> h, mods |-> h \cap Modifier, caps |-> l]
  BY DEF InStroke
<1>2. d.e0 = x /\ d.e1 = 0 /\ d.down = h /\ d.mods = h \cap Modifier /\ d.caps = l
  BY <1>1
<1> QED BY <1>1, <1>2

\* They begin as the stroke does, with or without the byte before an extended key.
LEMMA Strokes ==
    ASSUME NEW h, NEW l
    PROVE  LET d == Agreed(h, l)
               e == Decode(d, E0)
           IN  d \in InStroke(h, l) /\ e \in InStroke(h, l) /\ d.e0 = FALSE /\ e.e0 = TRUE
<1> DEFINE d == Agreed(h, l)
<1>1. d = [e0 |-> FALSE, e1 |-> 0, down |-> h, mods |-> h \cap Modifier, caps |-> l]
  BY DEF Agreed
<1>2. d.e0 = FALSE /\ d.e1 = 0 /\ d.down = h /\ d.mods = h \cap Modifier /\ d.caps = l
  BY <1>1
<1>3. d \in InStroke(h, l)
  BY <1>1, <1>2 DEF InStroke
<1> HIDE DEF d
<1> DEFINE e == Decode(d, E0)
<1>4. e = [d EXCEPT !.e0 = TRUE]
  BY <1>2 DEF Decode, E0, E1
<1>5. e = [e0 |-> TRUE, e1 |-> 0, down |-> h, mods |-> h \cap Modifier, caps |-> l]
  BY <1>1, <1>4
<1> HIDE DEF e
<1>6. e.e0 = TRUE /\ e.e1 = 0 /\ e.down = h /\ e.mods = h \cap Modifier /\ e.caps = l
  BY <1>5
<1>7. e \in InStroke(h, l)
  BY <1>5, <1>6 DEF InStroke
<1> QED BY <1>2, <1>3, <1>6, <1>7 DEF d, e

\* What a key does to the decoder when it is pressed, and when it is let go.
Toggled(h, l, name) == IF name = "CAPS_LOCK" /\ name \notin h THEN ~l ELSE l
Pressed(h, l, name) == Agreed(h \cup {name}, Toggled(h, l, name))
LetGo(h, l, name) == Agreed(h \ {name}, l)

\* A byte that completes a key presses or releases it.
LEMMA DecodesKey ==
    ASSUME NEW h, NEW l, NEW b \in 0..255, b # E0, b # E1, NEW name, name # "UNKNOWN",
           NEW d \in InStroke(h, l), name = ByteKey(d, b)[1]
    PROVE  /\ b < Break => Decode(d, b) = Pressed(h, l, name)
           /\ ~(b < Break) => Decode(d, b) = LetGo(h, l, name)
<1> DEFINE p == b < Break
           m == keyboard_update_modifier_state(d, name, p)
           u == IF name \notin Modifier THEN h \cap Modifier
                ELSE IF p THEN (h \cap Modifier) \cup {name} ELSE (h \cap Modifier) \ {name}
           c == IF name = "CAPS_LOCK" /\ p /\ name \notin h THEN ~l ELSE l
           v == IF p THEN h \cup {name} ELSE h \ {name}
           x == d.e0
<1>1. d = [e0 |-> x, e1 |-> 0, down |-> h, mods |-> h \cap Modifier, caps |-> l]
  BY InStrokeIs
<1>2. d.e1 = 0 /\ d.down = h /\ d.mods = h \cap Modifier /\ d.caps = l
  BY InStrokeIs
<1>3. Decode(d, b) = [m EXCEPT !.e0 = FALSE, !.down = IF p THEN @ \cup {name} ELSE @ \ {name}]
  BY <1>2 DEF Decode
<1>4. m = [d EXCEPT !.mods = u, !.caps = c]
  BY <1>2 DEF keyboard_update_modifier_state
<1>5. u = v \cap Modifier
  OBVIOUS
<1>6. (p => v = h \cup {name} /\ c = Toggled(h, l, name)) /\ (~p => v = h \ {name} /\ c = l)
  BY DEF Toggled
<1> DEFINE f == [d EXCEPT !.mods = u]
<1> HIDE DEF m, u, c, v, x
<1>7. f = [e0 |-> x, e1 |-> 0, down |-> h, mods |-> u, caps |-> l]
  BY <1>1
<1>8. m = [f EXCEPT !.caps = c]
  BY <1>4
<1> HIDE DEF f
<1>9. m = [e0 |-> x, e1 |-> 0, down |-> h, mods |-> u, caps |-> c]
  BY <1>7, <1>8
<1>10. m.down = h
  BY <1>9
<1> DEFINE no == FALSE
           g == [m EXCEPT !.e0 = no]
<1> HIDE DEF no
<1>11. g = [e0 |-> no, e1 |-> 0, down |-> h, mods |-> u, caps |-> c]
  BY <1>9
<1>12. Decode(d, b) = [g EXCEPT !.down = v]
  BY <1>3, <1>10 DEF v, no
<1> HIDE DEF g
<1>13. Decode(d, b) = [e0 |-> no, e1 |-> 0, down |-> v, mods |-> u, caps |-> c]
  BY <1>11, <1>12
<1>14. Decode(d, b) = Agreed(v, c)
  BY <1>5, <1>13 DEF Agreed, no
<1> HIDE DEF p
<1> QED BY <1>6, <1>14, Zenon DEF p, Pressed, LetGo

\* The make code of a key presses it, its break code releases it.
LEMMA DecodesCode ==
    ASSUME NEW code \in MakeCodes, NEW h, NEW l
    PROVE  LET k == NameOf(code)
           IN  /\ DecodesTo(Agreed(h, l), code,
                            Pressed(h, l, k))
               /\ DecodesTo(Agreed(h, l), Released(code), LetGo(h, l, k))
               /\ IsSeq(code) /\ IsSeq(Released(code))
<1> DEFINE k == NameOf(code)
           on == Pressed(h, l, k)
           off == LetGo(h, l, k)
           d == Agreed(h, l)
<1>1. k # "UNKNOWN"
  BY DEF MakeCodes
<1>2. CASE \E c \in 1..88 : code = <<c>>
  <2>1. PICK c \in 1..88 : code = <<c>>
    BY <1>2
  <2>2. Len(code) = 1 /\ code[1] = c /\ DOMAIN code = 1..1
    BY <2>1
  <2>3. k = decode_normal_key(c)[1]
    BY <2>2 DEF NameOf
  <2>4. Released(code) = <<c + 128>>
    BY <2>1, <2>2 DEF Released, Break
  <2>5. c % 128 = c /\ (c + 128) % 128 = c /\ c < 128 /\ ~(c + 128 < 128)
        /\ c \in 0..255 /\ c + 128 \in 0..255
        /\ c # 224 /\ c # 225 /\ c + 128 # 224 /\ c + 128 # 225
    OBVIOUS
  <2> HIDE DEF k
  <2>6. Decode(d, c) = on
    <3>1. d \in InStroke(h, l) /\ d.e0 = FALSE
      BY Strokes
    <3> HIDE DEF d
    <3>2. c \in 0..255 /\ c # E0 /\ c # E1 /\ c < Break
      BY <2>5 DEF E0, E1, Break
    <3>3. k = ByteKey(d, c)[1]
      BY <2>3, <2>5, <3>1, <3>2, InStrokeIs DEF ByteKey, Break
    <3>4. k # "UNKNOWN"
      BY <1>1
    <3> HIDE DEF InStroke
    <3> QED BY <3>1, <3>2, <3>3, <3>4, DecodesKey DEF E0, E1, Break
  <2>7. Decode(d, c + 128) = off
    <3>1. d \in InStroke(h, l) /\ d.e0 = FALSE
      BY Strokes
    <3> HIDE DEF d
    <3>2. (c + 128) \in 0..255 /\ (c + 128) # E0 /\ (c + 128) # E1 /\ ~(c + 128 < Break)
      BY <2>5 DEF E0, E1, Break
    <3>3. k = ByteKey(d, c + 128)[1]
      BY <2>3, <2>5, <3>1, <3>2, InStrokeIs DEF ByteKey, Break
    <3>4. k # "UNKNOWN"
      BY <1>1
    <3> HIDE DEF InStroke
    <3>5. PICK b : b = c + 128
      OBVIOUS
    <3>6. b \in 0..255 /\ b # E0 /\ b # E1 /\ ~(b < Break) /\ k = ByteKey(d, b)[1]
      BY <3>2, <3>3, <3>5
    <3>7. Decode(d, b) = LetGo(h, l, k)
      BY <3>1, <3>4, <3>6, DecodesKey DEF E0, E1, Break
    <3> QED BY <3>5, <3>7
  <2> HIDE DEF on, off, d
  <2> QED BY <2>1, <2>4, <2>6, <2>7, DecodesByte DEF on, off, d, k
<1>3. CASE \E c \in DOMAIN Extended : code = <<E0, c>>
  <2>1. PICK c \in DOMAIN Extended : code = <<224, c>>
    BY <1>3 DEF E0
  <2>0. c \in 28..83
    BY DEF Extended
  <2>2. Len(code) = 2 /\ code[1] = 224 /\ code[2] = c /\ DOMAIN code = 1..2
    BY <2>1
  <2>3. k = decode_extended_key(c)[1]
    BY <2>2 DEF NameOf
  <2>4. Released(code) = <<224, c + 128>>
    BY <2>1, <2>2 DEF Released, Break
  <2>5. c % 128 = c /\ (c + 128) % 128 = c /\ c < 128 /\ ~(c + 128 < 128)
        /\ c \in 0..255 /\ c + 128 \in 0..255
        /\ c # 224 /\ c # 225 /\ c + 128 # 224 /\ c + 128 # 225
    BY <2>0
  <2> DEFINE e == Decode(d, E0)
  <2> HIDE DEF k
  <2>7. Decode(e, c) = on
    <3>1. e \in InStroke(h, l) /\ e.e0 = TRUE
      BY Strokes
    <3> HIDE DEF d, e
    <3>2. c \in 0..255 /\ c # E0 /\ c # E1 /\ c < Break
      BY <2>5 DEF E0, E1, Break
    <3>3. k = ByteKey(e, c)[1]
      BY <2>3, <2>5, <3>1, <3>2, InStrokeIs DEF ByteKey, Break
    <3>4. k # "UNKNOWN"
      BY <1>1
    <3> HIDE DEF InStroke
    <3>5. PICK b : b = c
      OBVIOUS
    <3>6. b \in 0..255 /\ b # E0 /\ b # E1 /\ b < Break /\ k = ByteKey(e, b)[1]
      BY <3>2, <3>3, <3>5
    <3>7. Decode(e, b) = Pressed(h, l, k)
      BY <3>1, <3>4, <3>6, DecodesKey DEF E0, E1, Break
    <3> QED BY <3>5, <3>7
  <2>8. Decode(e, c + 128) = off
    <3>1. e \in InStroke(h, l) /\ e.e0 = TRUE
      BY Strokes
    <3> HIDE DEF d, e
    <3>2. (c + 128) \in 0..255 /\ (c + 128) # E0 /\ (c + 128) # E1 /\ ~(c + 128 < Break)
      BY <2>5 DEF E0, E1, Break
    <3>3. k = ByteKey(e, c + 128)[1]
      BY <2>3, <2>5, <3>1, <3>2, InStrokeIs DEF ByteKey, Break
    <3>4. k # "UNKNOWN"
      BY <1>1
    <3> HIDE DEF InStroke
    <3>5. PICK b : b = c + 128
      OBVIOUS
    <3>6. b \in 0..255 /\ b # E0 /\ b # E1 /\ ~(b < Break) /\ k = ByteKey(e, b)[1]
      BY <3>2, <3>3, <3>5
    <3>7. Decode(e, b) = LetGo(h, l, k)
      BY <3>1, <3>4, <3>6, DecodesKey DEF E0, E1, Break
    <3> QED BY <3>5, <3>7
  <2>9. Decode(d, 224) = e
    BY DEF E0
  <2> HIDE DEF on, off, d, e
  <2> QED BY <2>1, <2>4, <2>7, <2>8, <2>9, DecodesPair DEF on, off, d, k
<1> QED BY <1>2, <1>3 DEF MakeCodes

\* Pause and print screen leave the decoder as it was.
LEMMA DecodesOther ==
    ASSUME NEW bytes \in {Pause, PrintScreen}, NEW h, NEW l
    PROVE  IsSeq(bytes) /\ DecodesTo(Agreed(h, l), bytes, Agreed(h, l))
<1> DEFINE no == FALSE
           m == h \cap Modifier
           d(n) == [e0 |-> no, e1 |-> n, down |-> h, mods |-> m, caps |-> l]
           e == Decode(d(0), 224)
<1>0. Agreed(h, l) = d(0)
  BY DEF Agreed
<1>1. CASE bytes = Pause
  <2> DEFINE w == Pause
             g == [i \in 0..6 |-> d(IF i = 0 THEN 0 ELSE 6 - i)]
  <2>1. w \in Seq(Nat) /\ Len(w) = 6 /\ w[1] = 225
    BY DEF Pause
  <2> HIDE DEF w, no, m
  <2>2. Decode(d(0), 225) = d(5)
    <3> DEFINE x == d(0)
               f == [x EXCEPT !.e1 = 5]
    <3>1. x.e1 = 0
      OBVIOUS
    <3>2. f = d(5)
      OBVIOUS
    <3> HIDE DEF x
    <3>3. Decode(x, 225) = [f EXCEPT !.e0 = FALSE]
      BY <3>1 DEF Decode, E1
    <3> HIDE DEF f
    <3>4. [f EXCEPT !.e0 = no] = d(5)
      BY <3>2
    <3> QED BY <3>3, <3>4 DEF x, no
  <2>3. ASSUME NEW n \in Nat, NEW b, n # 0 PROVE Decode(d(n), b) = d(n - 1)
    <3> DEFINE x == d(n)
    <3>1. x.e1 = n /\ [x EXCEPT !.e1 = n - 1] = d(n - 1)
      OBVIOUS
    <3> HIDE DEF x
    <3>2. Decode(x, b) = [x EXCEPT !.e1 = n - 1]
      BY <2>3, <3>1 DEF Decode
    <3> QED BY <3>1, <3>2 DEF x
  <2> HIDE DEF d
  <2>4. g[0] = d(0) /\ g[6] = d(0) /\ \A i \in 1..6 : g[i] = d(6 - i)
    OBVIOUS
  <2> HIDE DEF g
  <2>5. ASSUME NEW i \in 1..6 PROVE g[i] = Decode(g[i - 1], w[i])
    <3>1. CASE i = 1
      <4>1. g[1] = d(5) /\ g[0] = d(0)
        BY <2>4
      <4> QED BY <2>1, <2>2, <3>1, <4>1
    <3>2. CASE i # 1
      <4>1. i - 1 \in 1..6 /\ 6 - (i - 1) \in Nat /\ 6 - (i - 1) # 0 /\ (6 - (i - 1)) - 1 = 6 - i
        BY <3>2
      <4>2. Decode(d(6 - (i - 1)), w[i]) = d(6 - i)
        BY <2>3, <4>1
      <4> QED BY <2>4, <4>1, <4>2
    <3> QED BY <3>1, <3>2
  <2>6. DecodesTo(d(0), w, d(0))
    <3> DEFINE k == d(0)
    <3>1. g[0] = k /\ g[6] = k
      BY <2>4
    <3> HIDE DEF k
    <3>2. DecodesTo(k, w, k)
      BY <2>1, <2>5, <3>1 DEF DecodesTo
    <3> QED BY <3>2 DEF k
  <2> QED BY <1>0, <1>1, <2>1, <2>6 DEF IsSeq, w
<1>2. CASE bytes = PrintScreen
  <2> DEFINE k == d(0)
             w == PrintScreen
             g == [i \in 0..8 |-> IF i \in {1, 3, 5, 7} THEN e ELSE k]
  <2>1. /\ w \in Seq(Nat) /\ Len(w) = 8
        /\ \A i \in {1, 3, 5, 7} : w[i] = 224
        /\ w[2] = 42 /\ w[4] = 55 /\ w[6] = 183 /\ w[8] = 170
    BY DEF PrintScreen
  <2>2. e \in InStroke(h, l) /\ e.e0 = TRUE
    BY <1>0, Strokes DEF E0
  <2>3. e = Decode(k, 224)
    OBVIOUS
  <2> HIDE DEF w, e
  <2>4. e = [e0 |-> e.e0, e1 |-> 0, down |-> h, mods |-> m, caps |-> l] /\ e.e1 = 0
    BY <2>2, InStrokeIs
  <2> HIDE DEF no, m
  <2>5. [e EXCEPT !.e0 = no] = k
    BY <2>4
  <2> HIDE DEF k, d
  <2>6. (\A i \in {0, 2, 4, 6, 8} : g[i] = k) /\ (\A i \in {1, 3, 5, 7} : g[i] = e)
    OBVIOUS
  <2> HIDE DEF g
  <2>7. ASSUME NEW b \in {42, 55, 183, 170} PROVE Decode(e, b) = k
    <3>1. b % 128 \in {42, 55} /\ b # 224 /\ b # 225
      OBVIOUS
    <3>2. 42 \notin DOMAIN Extended /\ 55 \notin DOMAIN Extended
      BY DEF Extended
    <3>3. decode_extended_key(b % 128) = None
      BY <3>1, <3>2 DEF decode_extended_key
    <3>4. ByteKey(e, b) = None
      BY <2>2, <2>4, <3>1, <3>3 DEF ByteKey, Break, E0, E1
    <3>5. ByteKey(e, b)[1] = "UNKNOWN"
      <4>1. None[1] = "UNKNOWN"
        BY DEF None, Key
      <4> QED BY <3>4, <4>1
    <3>6. Decode(e, b) = [e EXCEPT !.e0 = FALSE]
      BY <2>4, <3>1, <3>5 DEF Decode, E0, E1
    <3> QED BY <2>5, <3>6 DEF no
  <2>8. ASSUME NEW i \in 1..8 PROVE g[i] = Decode(g[i - 1], w[i])
    <3>1. CASE i \in {1, 3, 5, 7}
      <4>1. i - 1 \in {0, 2, 4, 6, 8}
        BY <3>1
      <4> QED BY <2>1, <2>3, <2>6, <3>1, <4>1
    <3>2. CASE i \in {2, 4, 6, 8}
      <4>1. i - 1 \in {1, 3, 5, 7} /\ i \in {0, 2, 4, 6, 8}
        BY <3>2
      <4>2. w[i] \in {42, 55, 183, 170}
        BY <2>1, <3>2
      <4> QED BY <2>6, <2>7, <4>1, <4>2
    <3> QED BY <3>1, <3>2
  <2>9. DecodesTo(k, w, k)
    <3>1. g[0] = k /\ g[8] = k
      BY <2>6
    <3> QED BY <2>1, <2>8, <3>1 DEF DecodesTo
  <2> QED BY <1>0, <1>2, <2>1, <2>9 DEF IsSeq, w, k
<1> QED BY <1>1, <1>2

-----------------------------------------------------------------------------
(* Keys held.                                                              *)

\* The bytes still on the wire lead the decoder to what the user holds.
KeyInv ==
    /\ IsSeq(wire) /\ DecodesTo(decoder, wire, Agreed(held, lamp)) /\ reader \in Readers
    /\ held \subseteq {NameOf(code) : code \in HoldKeys[reader]}

\* No key is held at first.
LEMMA InitKeys == Init => KeyInv
<1> SUFFICES ASSUME Init PROVE KeyInv
  OBVIOUS
<1>1. decoder = Agreed(held, lamp)
  <2>1. {} \cap Modifier = {}
    OBVIOUS
  <2> QED BY <2>1 DEF Init, Agreed, NoKeys
<1> QED BY <1>1, Pieces, DecodesNothing DEF Init, KeyInv

\* With no byte on the wire the decoder is where the keys held lead.
LEMMA KeyInvHolds == KeyInv => KeysHeld
BY DecodesNothing DEF KeyInv, KeysHeld, Agreed

\* Every step preserves it: strokes add bytes, interrupts take them.
LEMMA StepKeys == ASSUME KeyInv, [Next]_vars PROVE KeyInv'
<1>1. CASE UNCHANGED <<wire, decoder, held, lamp, reader>>
  BY <1>1 DEF KeyInv, DecodesTo, Agreed
<1>2. ASSUME NEW bytes, IsSeq(bytes), Stroke(bytes),
             DecodesTo(Agreed(held, lamp), bytes, Agreed(held', lamp')),
             held' \subseteq {NameOf(code) : code \in HoldKeys[reader]}
      PROVE  KeyInv'
  <2>1. decoder' = Agreed(held, lamp) /\ wire' = bytes /\ reader' = reader
    BY <1>2, DecodesNothing DEF Stroke, KeyInv
  <2> QED BY <1>2, <2>1 DEF KeyInv
<1>3. ASSUME NEW code \in TapKeys[reader], Tap(code) PROVE KeyInv'
  <2>1. code \in MakeCodes /\ NameOf(code) # "CAPS_LOCK" /\ NameOf(code) \notin held
    BY <1>3, ConsoleAssumption DEF KeyInv
  <2> DEFINE k == NameOf(code)
  <2>2. /\ DecodesTo(Agreed(held, lamp), code, Pressed(held, lamp, k))
        /\ IsSeq(code) /\ IsSeq(Released(code))
        /\ DecodesTo(Agreed(held \cup {k}, lamp), Released(code), LetGo(held \cup {k}, lamp, k))
    BY <2>1, DecodesCode
  <2>3. Pressed(held, lamp, k) = Agreed(held \cup {k}, lamp)
    BY <2>1 DEF Pressed, Toggled
  <2>4. LetGo(held \cup {k}, lamp, k) = Agreed(held, lamp)
    <3>1. (held \cup {k}) \ {k} = held
      BY <2>1
    <3> QED BY <3>1 DEF LetGo
  <2> HIDE DEF k
  <2>5. DecodesTo(Agreed(held, lamp), code \o Released(code), Agreed(held, lamp))
    BY <2>2, <2>3, <2>4, DecodesBoth
  <2>6. IsSeq(code \o Released(code))
    BY <2>2, Joined
  <2> QED BY <1>2, <1>3, <2>5, <2>6 DEF Tap, KeyInv
<1>4. ASSUME NEW code \in HoldKeys[reader], Press(code) PROVE KeyInv'
  <2>1. code \in MakeCodes
    BY <1>4, ConsoleAssumption DEF KeyInv
  <2>2. held' = held \cup {NameOf(code)} /\ lamp' = Toggled(held, lamp, NameOf(code))
    BY <1>4 DEF Press, Toggled
  <2>3. DecodesTo(Agreed(held, lamp), code, Agreed(held', lamp')) /\ IsSeq(code)
    BY <2>1, <2>2, DecodesCode DEF Pressed
  <2>4. held' \subseteq {NameOf(c) : c \in HoldKeys[reader]}
    BY <2>2 DEF KeyInv
  <2> QED BY <1>2, <1>4, <2>3, <2>4 DEF Press
<1>5. ASSUME NEW code \in HoldKeys[reader], Release(code) PROVE KeyInv'
  <2>1. code \in MakeCodes
    BY <1>5, ConsoleAssumption DEF KeyInv
  <2>2. /\ held' = held \ {NameOf(code)} /\ lamp' = lamp /\ reader' = reader
        /\ wire = <<>> /\ wire' = Released(code) /\ decoder' = decoder
    BY <1>5 DEF Release
  <2>3. DecodesTo(Agreed(held, lamp), Released(code), Agreed(held', lamp')) /\ IsSeq(Released(code))
    BY <2>1, <2>2, DecodesCode DEF LetGo
  <2>4. decoder = Agreed(held, lamp)
    BY <2>2, DecodesNothing DEF KeyInv
  <2>5. held' \subseteq {NameOf(c) : c \in HoldKeys[reader]}
    BY <2>2 DEF KeyInv
  <2> QED BY <2>2, <2>3, <2>4, <2>5 DEF KeyInv
<1>6. ASSUME NEW bytes \in OtherBytes[reader], OtherKey(bytes) PROVE KeyInv'
  <2>1. bytes \in {Pause, PrintScreen}
    BY ConsoleAssumption DEF KeyInv
  <2>2. IsSeq(bytes) /\ DecodesTo(Agreed(held, lamp), bytes, Agreed(held, lamp))
    BY <2>1, DecodesOther
  <2> QED BY <1>2, <1>6, <2>2 DEF OtherKey, KeyInv
<1>7. CASE keyboard_interrupt_handler
  <2>1. /\ wire # <<>> /\ wire' = Tail(wire) /\ decoder' = Decode(decoder, Head(wire))
        /\ UNCHANGED <<held, lamp, reader>>
    BY <1>7 DEF keyboard_interrupt_handler
  <2>2. DecodesTo(decoder', wire', Agreed(held, lamp)) /\ IsSeq(wire')
    BY <2>1, DecodesRest, Pieces DEF KeyInv
  <2> QED BY <2>1, <2>2 DEF KeyInv
<1>8. CASE GuiTask \/ ReaderTask
  BY <1>1, <1>8 DEF GuiTask, ReaderTask, GuiWait, GuiDispatch, gui_terminal_input_push,
     gui_terminal_session_read, keyboard_read_character_wait, keyboard_read_character,
     syscall_read_key_event_wait, syscall_read_key_event, keyboardVars
<1>9. CASE UNCHANGED vars
  BY <1>1, <1>9 DEF vars, keyboardVars
<1> QED BY <1>3, <1>4, <1>5, <1>6, <1>7, <1>8, <1>9 DEF Next

\* keyboard.c:935: for any number of strokes of any keys, repeats, pause and
\* print screen between them, the driver knows the keys that are held, the
\* modifiers among them and the caps lock whenever it has read what was sent.
THEOREM KeysHeldAgree == Spec => []KeysHeld
<1>1. Init => KeyInv
  BY InitKeys
<1>2. KeyInv /\ [Next]_vars => KeyInv'
  BY StepKeys
<1>3. KeyInv => KeysHeld
  BY KeyInvHolds
<1> QED BY <1>1, <1>2, <1>3, PTL DEF Spec

-----------------------------------------------------------------------------
(* The text of a session.                                                  *)
\* Steps applied one after the other: there is such a sequence of results.
StepMaps(T, N) == [1..N -> [T -> T]]
Iterated(f, d, N, G) == f[0] = d /\ \A i \in 1..N : f[i] = G[i][f[i - 1]]
LEMMA Iterates ==
    ASSUME NEW T, NEW d \in T, NEW N \in Nat, NEW G \in StepMaps(T, N)
    PROVE  \E f \in [0..N -> T] : Iterated(f, d, N, G)
<1>0. G \in [1..N -> [T -> T]]
  BY DEF StepMaps
<1> DEFINE Is(f, m) == f[0] = d /\ \A i \in 1..m : f[i] = G[i][f[i - 1]]
           E(m) == \E f \in [0..m -> T] : Is(f, m)
           X == {m \in 0..N : ~E(m)}
<1>1. ASSUME X # {} PROVE FALSE
  <2>1. X \in SUBSET Nat
    OBVIOUS
  <2>2. PICK m \in X : \A y \in X : m <= y
    <3> HIDE DEF X
    <3> QED BY <1>1, <2>1, LeastMember
  <2>3. m \in 0..N /\ m \in Nat /\ ~E(m)
    <3> HIDE DEF E
    <3> QED BY <2>2
  <2>4. CASE m = 0
    <3> DEFINE f == [i \in 0..m |-> d]
    <3>1. f \in [0..m -> T] /\ Is(f, m)
      BY <2>4
    <3> QED BY <2>3, <3>1
  <2>5. CASE m # 0
    <3>1. m - 1 \in 0..N /\ m - 1 < m /\ m \in 1..N
      BY <2>3, <2>5
    <3>2. PICK f \in [0..(m - 1) -> T] : Is(f, m - 1)
      <4>1. E(m - 1)
        <5> HIDE DEF E
        <5> QED BY <2>2, <3>1
      <4> QED BY <4>1
    <3> DEFINE v == G[m][f[m - 1]]
               g == [i \in 0..m |-> IF i = m THEN v ELSE f[i]]
    <3>3. v \in T
      <4>1. f[m - 1] \in T
        BY <3>1
      <4> QED BY <1>0, <3>1, <4>1
    <3> HIDE DEF v
    <3>4. g \in [0..m -> T]
      BY <3>1, <3>3
    <3>5. \A i \in 0..(m - 1) : g[i] = f[i]
      BY <3>1
    <3>6. g[m] = v /\ g[m - 1] = f[m - 1]
      BY <2>3, <3>1, <3>5
    <3> HIDE DEF g
    <3>7. g[0] = d
      BY <3>1, <3>2, <3>5
    <3>8. ASSUME NEW i \in 1..m PROVE g[i] = G[i][g[i - 1]]
      <4>1. CASE i = m
        BY <3>6, <4>1 DEF v
      <4>2. CASE i # m
        <5>1. i \in 1..(m - 1) /\ i \in 0..(m - 1) /\ i - 1 \in 0..(m - 1)
          BY <2>3, <4>2
        <5> QED BY <3>2, <3>5, <5>1
      <4> QED BY <4>1, <4>2
    <3>9. Is(g, m)
      BY <3>7, <3>8
    <3> QED BY <2>3, <3>4, <3>9
  <2> QED BY <2>4, <2>5
<1>2. E(N)
  <2> HIDE DEF E
  <2> QED BY <1>1
<1> QED BY <1>2 DEF Iterated

\* Iterated results never leave a set that every step stays in.
LEMMA Stays ==
    ASSUME NEW T, NEW N \in Nat, NEW f, f[0] \in T,
           \A i \in 1..N : f[i - 1] \in T => f[i] \in T
    PROVE  f[N] \in T
<1> DEFINE X == {m \in 0..N : f[m] \notin T}
<1>1. ASSUME X # {} PROVE FALSE
  <2>1. X \in SUBSET Nat
    OBVIOUS
  <2>2. PICK m \in X : \A y \in X : m <= y
    <3> HIDE DEF X
    <3> QED BY <1>1, <2>1, LeastMember
  <2>3. m \in 0..N /\ m # 0 /\ f[m] \notin T
    BY <2>2
  <2>4. m - 1 \in 0..N /\ m \in 1..N /\ ~(m <= m - 1)
    BY <2>3
  <2>5. f[m - 1] \in T
    BY <2>2, <2>4
  <2> QED BY <2>3, <2>4, <2>5
<1>2. N \in 0..N
  OBVIOUS
<1> QED BY <1>1, <1>2

\* gui_terminal_session_write: what every character preserves, the text does.
LEMMA WriteStays ==
    ASSUME NEW T, NEW s \in T, NEW text, IsSeq(text),
           \A i \in 1..Len(text) : \A t \in T : gui_terminal_putchar(t, text[i]) \in T
    PROVE  gui_terminal_session_write(s, text) \in T
<1> DEFINE N == Len(text)
           G == [i \in 1..N |-> [x \in T |-> gui_terminal_putchar(x, text[i])]]
           Rec(f) == f = [i \in 0..N |->
                            IF i = 0 THEN s
                            ELSE CHOOSE r \in {gui_terminal_putchar(v, text[i]) : v \in {f[i - 1]}} : TRUE]
<1>1. N \in Nat
  BY Pieces
<1>2. \A i, x : (CHOOSE r \in {gui_terminal_putchar(v, text[i]) : v \in {x}} : TRUE)
                   = gui_terminal_putchar(x, text[i])
  OBVIOUS
<1>3. \E f : Rec(f)
  <2>1. G \in StepMaps(T, N)
    BY DEF StepMaps
  <2>2. \A i \in 1..N, x \in T : G[i][x] = gui_terminal_putchar(x, text[i])
    OBVIOUS
  <2>3. PICK f \in [0..N -> T] : f[0] = s /\ \A i \in 1..N : f[i] = G[i][f[i - 1]]
    <3>1. \E f \in [0..N -> T] : Iterated(f, s, N, G)
      <4> HIDE DEF G, N
      <4> QED BY <1>1, <2>1, Iterates
    <3> HIDE DEF G, N
    <3> QED BY <3>1 DEF Iterated
  <2> HIDE DEF G
  <2>4. ASSUME NEW i \in 0..N, i # 0 PROVE f[i] = gui_terminal_putchar(f[i - 1], text[i])
    <3>1. i \in 1..N /\ i - 1 \in 0..N
      BY <1>1, <2>4
    <3> QED BY <2>2, <2>3, <3>1
  <2>5. Rec(f)
    BY <1>2, <2>3, <2>4
  <2> QED BY <2>5
<1>4. PICK f : gui_terminal_session_write(s, text) = f[N] /\ Rec(f)
  BY <1>3 DEF gui_terminal_session_write, Fold
<1>5. f[0] = s /\ \A i \in 1..N : f[i] = gui_terminal_putchar(f[i - 1], text[i])
  BY <1>1, <1>2, <1>4
<1> HIDE DEF Rec
<1>6. \A i \in 1..N : f[i - 1] \in T => f[i] \in T
  BY <1>5
<1>7. f[N] \in T
  <2> HIDE DEF N
  <2> QED BY <1>1, <1>5, <1>6, Stays
<1> QED BY <1>4, <1>7

\* A tab is some spaces.
LEMMA TabStop == \A c \in Nat : TabWidth - (c % TabWidth) \in Nat
<1>1. \A c \in Nat : c % 4 \in 0..3
  OBVIOUS
<1>2. \A c \in Nat : 4 - (c % 4) \in Nat
  BY <1>1
<1> QED BY <1>2 DEF TabWidth

\* A text of one character.
LEMMA Repeated ==
    ASSUME NEW N \in Nat, NEW x
    PROVE  Len([i \in 1..N |-> x]) = N /\ \A i \in 1..N : [j \in 1..N |-> x][i] = x
OBVIOUS

\* A tab: what a space preserves, several do.
SpaceStays(T) == \A t \in T : PutCell(t, " ") \in T
\* A tab: what a space preserves, several do.
LEMMA SpacesStay ==
    ASSUME NEW T, NEW s \in T, NEW N \in Nat, SpaceStays(T)
    PROVE  Spaces(s, N) \in T
<1> DEFINE text == [i \in 1..N |-> " "]
           G == [i \in 1..N |-> [x \in T |-> PutCell(x, text[i])]]
           Rec(f) == f = [i \in 0..N |->
                            IF i = 0 THEN s
                            ELSE CHOOSE r \in {PutCell(v, text[i]) : v \in {f[i - 1]}} : TRUE]
<1>1. Len(text) = N /\ \A i \in 1..N : text[i] = " "
  BY Repeated
<1>2. \A i, x : (CHOOSE r \in {PutCell(v, text[i]) : v \in {x}} : TRUE) = PutCell(x, text[i])
  OBVIOUS
<1>3. \E f : Rec(f)
  <2> HIDE DEF text
  <2>1. G \in StepMaps(T, N)
    BY <1>1 DEF StepMaps, SpaceStays
  <2>2. \A i \in 1..N, x \in T : G[i][x] = PutCell(x, text[i])
    OBVIOUS
  <2>3. PICK f \in [0..N -> T] : f[0] = s /\ \A i \in 1..N : f[i] = G[i][f[i - 1]]
    <3>1. \E f \in [0..N -> T] : Iterated(f, s, N, G)
      <4> HIDE DEF G
      <4> QED BY <2>1, Iterates
    <3> HIDE DEF G
    <3> QED BY <3>1 DEF Iterated
  <2> HIDE DEF G
  <2>4. ASSUME NEW i \in 0..N, i # 0 PROVE f[i] = PutCell(f[i - 1], text[i])
    <3>1. i \in 1..N /\ i - 1 \in 0..N
      BY <2>4
    <3> QED BY <2>2, <2>3, <3>1
  <2>5. Rec(f)
    BY <1>2, <2>3, <2>4
  <2> QED BY <2>5
<1>4. PICK f : Spaces(s, N) = f[N] /\ Rec(f)
  <2>1. Spaces(s, N) = LET f[i \in 0..N] == IF i = 0 THEN s
                       ELSE CHOOSE r \in {PutCell(v, text[i]) : v \in {f[i - 1]}} : TRUE
                 IN  f[N]
    BY <1>1 DEF Spaces, Fold
  <2> HIDE DEF text
  <2> QED BY <1>3, <2>1
<1> HIDE DEF text
<1>5. f[0] = s /\ \A i \in 1..N : f[i] = PutCell(f[i - 1], " ")
  <2>1. f[0] = s
    BY <1>4
  <2>2. ASSUME NEW i \in 1..N PROVE f[i] = PutCell(f[i - 1], " ")
    <3>1. i \in 0..N /\ i # 0
      OBVIOUS
    <3>2. f[i] = PutCell(f[i - 1], text[i])
      BY <1>2, <1>4, <3>1
    <3> QED BY <1>1, <3>2
  <2> QED BY <2>1, <2>2
<1> HIDE DEF Rec
<1>6. \A i \in 1..N : f[i - 1] \in T => f[i] \in T
  BY <1>5 DEF SpaceStays
<1>7. f[N] \in T
  BY <1>5, <1>6, Stays
<1> QED BY <1>4, <1>7

-----------------------------------------------------------------------------
\* The texts of a session whose cells are in G.
Row(G) == [0..(Columns - 1) -> G]
Texts(G) ==
    {s \in [lines : Seq(Row(G)), col : Nat, scroll : Nat, gone : Nat] :
       Len(s.lines) \in 1..HistoryLines /\ s.scroll <= MaxScroll(s.lines)}

\* What a user sees of t who has seen s: what ScrolledViewStays allows, and
\* nothing is scrolled back that was not.
Follows(s, t) ==
    /\ s.gone <= t.gone
    /\ s.scroll = 0 => t.scroll = 0
    /\ s.scroll # 0 => \/ FirstVisible(t) = FirstVisible(s) /\ t.scroll # 0
                       \/ /\ FirstVisible(s) < t.gone
                          /\ FirstVisible(t) = t.gone \/ t.scroll = 0

\* What a text is made of.
LEMMA TextParts ==
    ASSUME NEW G, NEW s \in Texts(G)
    PROVE  /\ s.lines \in Seq(Row(G)) /\ Len(s.lines) \in Nat /\ Len(s.lines) >= 1
           /\ Len(s.lines) <= HistoryLines
           /\ s.col \in Nat /\ s.scroll \in Nat /\ s.gone \in Nat /\ s.scroll <= MaxScroll(s.lines)
           /\ s = [lines |-> s.lines, col |-> s.col, scroll |-> s.scroll, gone |-> s.gone]
<1>1. s \in [lines : Seq(Row(G)), col : Nat, scroll : Nat, gone : Nat]
  BY DEF Texts
<1>2. Len(s.lines) \in 1..HistoryLines /\ s.scroll <= MaxScroll(s.lines)
  BY DEF Texts
<1>3. HistoryLines \in Nat
  BY TerminalAssumption
<1> QED BY <1>1, <1>2, <1>3

\* What is a text.
LEMMA IsText ==
    ASSUME NEW G, NEW lines \in Seq(Row(G)), NEW col \in Nat, NEW scroll \in Nat, NEW gone \in Nat,
           Len(lines) >= 1, Len(lines) <= HistoryLines, scroll <= MaxScroll(lines)
    PROVE  [lines |-> lines, col |-> col, scroll |-> scroll, gone |-> gone] \in Texts(G)
<1>1. Len(lines) \in 1..HistoryLines
  BY TerminalAssumption
<1> QED BY <1>1 DEF Texts

\* The first line in view is one that there is.
LEMMA Visible ==
    ASSUME NEW G, NEW s \in Texts(G)
    PROVE  FirstVisible(s) \in Nat /\ s.gone <= FirstVisible(s)
           /\ FirstVisible(s) < s.gone + Len(s.lines)
<1> DEFINE n == Len(s.lines)
<1>1. n \in Nat /\ n >= 1 /\ s.scroll \in Nat /\ s.gone \in Nat
      /\ s.scroll <= (IF n <= Rows THEN 0 ELSE n - Rows)
  BY TextParts DEF MaxScroll
<1>2. FirstVisible(s) = s.gone + (IF n > Rows THEN n - Rows - s.scroll ELSE 0)
  BY DEF FirstVisible
<1> HIDE DEF n
<1>3. FirstVisible(s) \in Nat /\ s.gone <= FirstVisible(s) /\ FirstVisible(s) < s.gone + n
  BY <1>1, <1>2, TerminalAssumption
<1> QED BY <1>3 DEF n

\* A text in which nothing moves follows itself; a third follows the first.
LEMMA FollowsItself == ASSUME NEW G, NEW s \in Texts(G) PROVE Follows(s, s)
<1>1. s.gone <= s.gone
  BY TextParts
<1> QED BY <1>1 DEF Follows

\* And so on.
LEMMA FollowsOn ==
    ASSUME NEW G, NEW s \in Texts(G), NEW t \in Texts(G), NEW u \in Texts(G),
           Follows(s, t), Follows(t, u)
    PROVE  Follows(s, u)
<1>1. s.gone \in Nat /\ t.gone \in Nat /\ u.gone \in Nat
      /\ FirstVisible(s) \in Nat /\ FirstVisible(t) \in Nat /\ FirstVisible(u) \in Nat
      /\ t.gone <= FirstVisible(t) /\ u.gone <= FirstVisible(u)
  BY TextParts, Visible
<1> QED BY <1>1 DEF Follows

-----------------------------------------------------------------------------
HasSpace(G) == " " \in G
LEMMA BlankIs == ASSUME NEW G, HasSpace(G) PROVE Blank \in Row(G)
BY DEF Blank, Row, HasSpace

\* gui_terminal_append_line_locked.
LEMMA AppendLineText ==
    ASSUME NEW G, HasSpace(G), NEW s \in Texts(G)
    PROVE  AppendLine(s) \in Texts(G) /\ Follows(s, AppendLine(s))
<1> DEFINE full == Len(s.lines) = HistoryLines
           n == Len(s.lines)
           lines == Append(IF full THEN Tail(s.lines) ELSE s.lines, Blank)
           gone == IF full THEN s.gone + 1 ELSE s.gone
           scroll == Clamp(IF s.scroll # 0 /\ s.scroll < HistoryLines THEN s.scroll + 1 ELSE s.scroll,
                           lines)
<1>0. s.lines \in Seq(Row(G)) /\ n \in Nat /\ n >= 1 /\ n <= HistoryLines /\ HistoryLines \in Nat
      /\ s.col \in Nat /\ s.scroll \in Nat /\ s.gone \in Nat /\ Rows \in Nat
      /\ s = [lines |-> s.lines, col |-> s.col, scroll |-> s.scroll, gone |-> s.gone]
  BY TextParts, TerminalAssumption
<1>1. lines \in Seq(Row(G)) /\ Len(lines) = (IF full THEN n ELSE n + 1)
  <2>1. Blank \in Row(G)
    BY BlankIs
  <2>2. CASE full
    <3>1. Tail(s.lines) \in Seq(Row(G)) /\ Len(Tail(s.lines)) = n - 1
      <4>1. s.lines # <<>>
        BY <1>0
      <4> QED BY <1>0, <4>1
    <3> QED BY <1>0, <2>1, <2>2, <3>1, AppendProperties
  <2>3. CASE ~full
    BY <1>0, <2>1, <2>3, AppendProperties
  <2> QED BY <2>2, <2>3
<1>2. AppendLine(s) = [lines |-> lines, col |-> s.col, scroll |-> scroll, gone |-> gone]
  <2>1. AppendLine(s) = [s EXCEPT !.lines = lines, !.gone = gone, !.scroll = scroll]
    BY DEF AppendLine
  <2> HIDE DEF lines, gone, scroll, full, n
  <2> QED BY <1>0, <2>1
<1>3. s.scroll <= MaxScroll(s.lines) /\ MaxScroll(s.lines) = (IF n <= Rows THEN 0 ELSE n - Rows)
  BY TextParts DEF MaxScroll
<1>4. PICK m \in Nat : m = MaxScroll(lines) /\ m = (IF Len(lines) <= Rows THEN 0 ELSE Len(lines) - Rows)
  <2> HIDE DEF lines, n
  <2>1. Len(lines) \in Nat
    BY <1>0, <1>1
  <2> QED BY <1>0, <2>1 DEF MaxScroll
<1>5. scroll = LET up == IF s.scroll # 0 /\ s.scroll < HistoryLines THEN s.scroll + 1 ELSE s.scroll
               IN  IF up > m THEN m ELSE up
  BY <1>4 DEF Clamp
<1>6. gone = IF n = HistoryLines THEN s.gone + 1 ELSE s.gone
  OBVIOUS
<1> HIDE DEF lines, gone, scroll, n
<1>7. scroll \in Nat /\ scroll <= m /\ gone \in Nat
  BY <1>0, <1>4, <1>5, <1>6
<1>8. Len(lines) >= 1 /\ Len(lines) <= HistoryLines
  BY <1>0, <1>1 DEF n
<1>9. AppendLine(s) \in Texts(G)
  BY <1>0, <1>1, <1>2, <1>4, <1>7, <1>8, IsText
<1>10. FirstVisible(s) = s.gone + (IF n > Rows THEN n - Rows - s.scroll ELSE 0)
  BY DEF FirstVisible, n
<1>11. FirstVisible(AppendLine(s)) = gone + (IF Len(lines) > Rows THEN Len(lines) - Rows - scroll ELSE 0)
       /\ AppendLine(s).gone = gone /\ AppendLine(s).scroll = scroll
  BY <1>2 DEF FirstVisible
<1> DEFINE t == AppendLine(s)
<1>11a. FirstVisible(t) = gone + (IF Len(lines) > Rows THEN Len(lines) - Rows - scroll ELSE 0)
        /\ t.gone = gone /\ t.scroll = scroll
  BY <1>11
<1>9a. t \in Texts(G)
  BY <1>9
<1> HIDE DEF t
<1>12. Len(lines) = (IF n = HistoryLines THEN n ELSE n + 1)
  BY <1>1 DEF n
<1>13. ASSUME s.scroll = 0 PROVE Follows(s, t)
  <2>1. scroll = 0
    BY <1>4, <1>5, <1>13
  <2>2. s.gone <= gone
    BY <1>0, <1>6
  <2> QED BY <1>11a, <1>13, <2>1, <2>2 DEF Follows
<1>14. ASSUME s.scroll # 0 PROVE Follows(s, t)
  <2>1. n > Rows /\ s.scroll <= n - Rows /\ s.scroll >= 1
    BY <1>0, <1>3, <1>14
  <2>2. n - Rows < HistoryLines
    BY <1>0, <2>1, TerminalAssumption
  <2>3. s.scroll < HistoryLines
    BY <1>0, <2>1, <2>2
  <2>4. scroll = IF s.scroll + 1 > m THEN m ELSE s.scroll + 1
    BY <1>5, <1>14, <2>3
  <2>5. CASE n = HistoryLines
    <3>1. Len(lines) = n /\ m = n - Rows /\ gone = s.gone + 1
      BY <1>0, <1>4, <1>6, <1>12, <2>1, <2>5
    <3>2. CASE s.scroll < n - Rows
      <4>1. scroll = s.scroll + 1
        BY <1>0, <2>4, <3>1, <3>2
      <4>2. FirstVisible(t) = FirstVisible(s) /\ scroll # 0
        BY <1>0, <1>10, <1>11a, <2>1, <3>1, <4>1
      <4>3. s.gone <= gone
        BY <1>0, <3>1
      <4> QED BY <1>11a, <1>14, <4>2, <4>3 DEF Follows
    <3>3. CASE s.scroll = n - Rows
      <4>1. scroll = n - Rows
        BY <1>0, <2>1, <2>4, <3>1, <3>3
      <4>2. FirstVisible(s) = s.gone /\ FirstVisible(t) = gone
        BY <1>0, <1>10, <1>11a, <2>1, <3>1, <3>3, <4>1
      <4>3. s.gone <= gone /\ s.gone < gone
        BY <1>0, <3>1
      <4> QED BY <1>11a, <1>14, <4>2, <4>3 DEF Follows
    <3> QED BY <1>0, <2>1, <3>2, <3>3
  <2>6. CASE n # HistoryLines
    <3>1. Len(lines) = n + 1 /\ m = n + 1 - Rows /\ gone = s.gone
      BY <1>0, <1>4, <1>6, <1>12, <2>1, <2>6
    <3>2. scroll = s.scroll + 1
      BY <1>0, <2>1, <2>4, <3>1
    <3>3. FirstVisible(t) = FirstVisible(s) /\ scroll # 0
      <4>1. FirstVisible(s) = s.gone + (n - Rows - s.scroll)
        BY <1>10, <2>1
      <4>2. Len(lines) > Rows
        BY <1>0, <2>1, <3>1
      <4>3. FirstVisible(t) = gone + (Len(lines) - Rows - scroll)
        BY <1>11a, <4>2
      <4> QED BY <1>0, <2>1, <3>1, <3>2, <4>1, <4>3
    <3>4. s.gone <= gone
      BY <1>0, <3>1
    <3> QED BY <1>11a, <1>14, <3>3, <3>4 DEF Follows
  <2> QED BY <2>5, <2>6
<1>15. Follows(s, t)
  BY <1>13, <1>14
<1> QED BY <1>9, <1>15 DEF t

\* A change of the column or of the last line moves no line.
LEMMA WrittenText ==
    ASSUME NEW G, NEW s \in Texts(G), NEW row \in Row(G), NEW col \in Nat
    PROVE  LET t == [lines |-> [s.lines EXCEPT ![Len(s.lines)] = row], col |-> col,
                     scroll |-> s.scroll, gone |-> s.gone]
               u == [lines |-> s.lines, col |-> col, scroll |-> s.scroll, gone |-> s.gone]
           IN  t \in Texts(G) /\ Follows(s, t) /\ u \in Texts(G) /\ Follows(s, u)
<1> DEFINE lines == [s.lines EXCEPT ![Len(s.lines)] = row]
<1>1. lines \in Seq(Row(G)) /\ Len(lines) = Len(s.lines)
  <2>1. s.lines \in Seq(Row(G)) /\ Len(s.lines) \in 1..Len(s.lines)
    BY TextParts
  <2> QED BY <2>1, ExceptSeq
<1> HIDE DEF lines
<1>2. MaxScroll(lines) = MaxScroll(s.lines)
  BY <1>1 DEF MaxScroll
<1> DEFINE t == [lines |-> lines, col |-> col, scroll |-> s.scroll, gone |-> s.gone]
           u == [lines |-> s.lines, col |-> col, scroll |-> s.scroll, gone |-> s.gone]
<1>3. t \in Texts(G) /\ u \in Texts(G)
  BY <1>1, <1>2, TextParts, IsText
<1>4. FirstVisible(t) = FirstVisible(s) /\ FirstVisible(u) = FirstVisible(s)
  BY <1>1 DEF FirstVisible
<1>5. s.gone <= s.gone
  BY TextParts
<1>6. t.gone = s.gone /\ t.scroll = s.scroll /\ u.gone = s.gone /\ u.scroll = s.scroll
  OBVIOUS
<1> HIDE DEF t, u
<1>7. Follows(s, t) /\ Follows(s, u)
  BY <1>4, <1>5, <1>6 DEF Follows
<1> QED BY <1>3, <1>7 DEF t, u, lines

\* A text with other lines and another column.
LEMMA Replaced ==
    ASSUME NEW G, NEW s \in Texts(G), NEW lines, NEW col
    PROVE  [s EXCEPT !.lines = lines, !.col = col]
             = [lines |-> lines, col |-> col, scroll |-> s.scroll, gone |-> s.gone]
<1>1. s = [lines |-> s.lines, col |-> s.col, scroll |-> s.scroll, gone |-> s.gone]
  BY TextParts
<1> DEFINE v == [lines |-> lines, col |-> s.col, scroll |-> s.scroll, gone |-> s.gone]
<1>2. [s EXCEPT !.lines = lines] = v
  BY <1>1
<1>3. [v EXCEPT !.col = col] = [lines |-> lines, col |-> col, scroll |-> s.scroll, gone |-> s.gone]
  OBVIOUS
<1>4. [s EXCEPT !.lines = lines, !.col = col] = [[s EXCEPT !.lines = lines] EXCEPT !.col = col]
  OBVIOUS
<1> HIDE DEF v
<1> QED BY <1>2, <1>3, <1>4

\* The end of gui_terminal_putchar_locked.
LEMMA PutCellText ==
    ASSUME NEW G, HasSpace(G), NEW c \in G, NEW s \in Texts(G)
    PROVE  PutCell(s, c) \in Texts(G) /\ Follows(s, PutCell(s, c))
<1> DEFINE row == [s.lines[Len(s.lines)] EXCEPT ![s.col] = c]
           w == [lines |-> [s.lines EXCEPT ![Len(s.lines)] = row], col |-> s.col + 1,
                 scroll |-> s.scroll, gone |-> s.gone]
           written == [s EXCEPT !.lines[Len(s.lines)][s.col] = c, !.col = @ + 1]
           z == [lines |-> w.lines, col |-> 0, scroll |-> w.scroll, gone |-> w.gone]
<1>1. row \in Row(G)
  <2>1. s.lines[Len(s.lines)] \in Row(G)
    BY TextParts
  <2> QED BY <2>1 DEF Row
<1>2. written = w
  <2> DEFINE lines == [s.lines EXCEPT ![Len(s.lines)] = row]
  <2>2. written = [s EXCEPT !.lines = lines, !.col = s.col + 1]
    OBVIOUS
  <2>3. w = [lines |-> lines, col |-> s.col + 1, scroll |-> s.scroll, gone |-> s.gone]
    OBVIOUS
  <2> HIDE DEF lines, written, w
  <2>4. [s EXCEPT !.lines = lines, !.col = s.col + 1] = [lines |-> lines, col |-> s.col + 1, scroll |-> s.scroll, gone |-> s.gone]
    BY Replaced
  <2> QED BY <2>2, <2>3, <2>4
<1> HIDE DEF row
<1>3. w \in Texts(G) /\ Follows(s, w)
  <2>1. s.col + 1 \in Nat
    BY TextParts
  <2> QED BY <1>1, <2>1, WrittenText
<1>4. z \in Texts(G) /\ Follows(w, z)
  <2> HIDE DEF w
  <2>1. \E x \in Row(G) : TRUE
    BY <1>1
  <2> QED BY <1>3, <2>1, WrittenText
<1>5. PutCell(s, c) = IF w.col >= Columns THEN Newline(w) ELSE w
  BY <1>2 DEF PutCell
<1>6. Newline(w) = AppendLine(z)
  BY DEF Newline
<1> HIDE DEF w, z, written
<1>7. AppendLine(z) \in Texts(G) /\ Follows(z, AppendLine(z))
  BY <1>4, AppendLineText
<1>8. Follows(s, AppendLine(z))
  BY <1>3, <1>4, <1>7, FollowsOn
<1> QED BY <1>3, <1>5, <1>6, <1>7, <1>8

\* gui_terminal_reset_history_locked: the screen is cleared.
LEMMA ResetText ==
    ASSUME NEW G, HasSpace(G), NEW gone \in Nat
    PROVE  ResetHistory(gone) \in Texts(G)
<1>1. <<Blank>> \in Seq(Row(G)) /\ Len(<<Blank>>) = 1
  BY BlankIs
<1>2. 0 <= MaxScroll(<<Blank>>)
  BY <1>1, TerminalAssumption DEF MaxScroll
<1>3. ResetHistory(gone) = [lines |-> <<Blank>>, col |-> 0, scroll |-> 0, gone |-> gone]
  BY DEF ResetHistory
<1>4. 1 <= HistoryLines /\ 0 \in Nat /\ 1 >= 1
  BY TerminalAssumption
<1> HIDE DEF ResetHistory
<1> QED BY <1>1, <1>2, <1>3, <1>4, IsText

\* A form feed ends the scrolling.
LEMMA FormFeedText ==
    ASSUME NEW G, HasSpace(G), NEW s \in Texts(G)
    PROVE  ResetHistory(s.gone + Len(s.lines)) \in Texts(G)
           /\ Follows(s, ResetHistory(s.gone + Len(s.lines)))
<1> DEFINE t == ResetHistory(s.gone + Len(s.lines))
<1>1. s.gone + Len(s.lines) \in Nat /\ s.gone <= s.gone + Len(s.lines)
  BY TextParts
<1>2. t \in Texts(G)
  BY <1>1, ResetText
<1>3. t.gone = s.gone + Len(s.lines) /\ t.scroll = 0
  BY DEF ResetHistory
<1>4. FirstVisible(s) < t.gone
  BY <1>3, Visible
<1> HIDE DEF t
<1>5. Follows(s, t)
  BY <1>1, <1>3, <1>4 DEF Follows
<1> QED BY <1>2, <1>5 DEF t

\* What a writer may make of the text s that it found.
Later(G, s) == {t \in Texts(G) : Follows(s, t)}
\* Each character of a tab moves no more than ScrolledViewStays allows.
LEMMA SpaceFollows ==
    ASSUME NEW G, HasSpace(G), NEW s \in Texts(G) PROVE SpaceStays(Later(G, s))
<1>1. ASSUME NEW c \in G, NEW t \in Later(G, s) PROVE PutCell(t, c) \in Later(G, s)
  <2>1. t \in Texts(G) /\ Follows(s, t)
    BY DEF Later
  <2>2. PutCell(t, c) \in Texts(G) /\ Follows(t, PutCell(t, c))
    BY <2>1, PutCellText
  <2>3. Follows(s, PutCell(t, c))
    BY <2>1, <2>2, FollowsOn
  <2> QED BY <2>2, <2>3 DEF Later
<1> QED BY <1>1, Zenon DEF SpaceStays, HasSpace

\* One cell of the last line changes.
LEMMA PutRow ==
    ASSUME NEW G, NEW c \in G, NEW s \in Texts(G), NEW col, NEW n \in Nat
    PROVE  LET t == [s EXCEPT !.col = n, !.lines[Len(s.lines)][col] = c]
           IN  t \in Texts(G) /\ Follows(s, t)
<1> DEFINE row == [s.lines[Len(s.lines)] EXCEPT ![col] = c]
           w == [lines |-> [s.lines EXCEPT ![Len(s.lines)] = row], col |-> n,
                 scroll |-> s.scroll, gone |-> s.gone]
           written == [s EXCEPT !.col = n, !.lines[Len(s.lines)][col] = c]
<1>1. row \in Row(G)
  <2>1. s.lines[Len(s.lines)] \in Row(G)
    BY TextParts
  <2> QED BY <2>1 DEF Row
<1>2. written = w
  <2> DEFINE lines == [s.lines EXCEPT ![Len(s.lines)] = row]
  <2>2. written = [s EXCEPT !.lines = lines, !.col = n]
    OBVIOUS
  <2>3. w = [lines |-> lines, col |-> n, scroll |-> s.scroll, gone |-> s.gone]
    OBVIOUS
  <2> HIDE DEF lines, written, w
  <2>4. [s EXCEPT !.lines = lines, !.col = n] = [lines |-> lines, col |-> n, scroll |-> s.scroll, gone |-> s.gone]
    BY Replaced
  <2> QED BY <2>2, <2>3, <2>4
<1> HIDE DEF row
<1>3. w \in Texts(G) /\ Follows(s, w)
  BY <1>1, WrittenText
<1> QED BY <1>2, <1>3

\* A backspace.
LEMMA EraseText ==
    ASSUME NEW G, HasSpace(G), NEW s \in Texts(G)
    PROVE  Erase(s) \in Texts(G) /\ Follows(s, Erase(s))
<1>1. CASE s.col = 0
  <2>1. Erase(s) = s
    BY <1>1, Zenon DEF Erase
  <2> QED BY <2>1, FollowsItself
<1>2. CASE s.col # 0
  <2>1. PICK n \in Nat : n = s.col - 1
    BY <1>2, TextParts
  <2>2. \A c \in G : LET t == [s EXCEPT !.col = n, !.lines[Len(s.lines)][s.col - 1] = c]
                     IN  t \in Texts(G) /\ Follows(s, t)
    BY PutRow
  <2> DEFINE t == [s EXCEPT !.col = n, !.lines[Len(s.lines)][s.col - 1] = " "]
  <2>3. t \in Texts(G) /\ Follows(s, t)
    BY <2>2, Zenon DEF HasSpace
  <2>4. Erase(s) = t
    BY <1>2, <2>1, Zenon DEF Erase
  <2> QED BY <2>3, <2>4, Zenon
<1> QED BY <1>1, <1>2

\* gui_terminal_putchar_locked: any character.
LEMMA PutcharFollows ==
    ASSUME NEW G, HasSpace(G), NEW c \in G, NEW s \in Texts(G), NEW t \in Later(G, s)
    PROVE  gui_terminal_putchar(t, c) \in Later(G, s)
<1>0. t \in Texts(G) /\ Follows(s, t)
  BY DEF Later
<1>1. ASSUME NEW u \in Texts(G), Follows(t, u) PROVE u \in Later(G, s)
  <2>1. Follows(s, u)
    BY <1>0, <1>1, FollowsOn
  <2> QED BY <2>1 DEF Later
<1>t. /\ t.col \in Nat
      /\ t = [lines |-> t.lines, col |-> t.col, scroll |-> t.scroll, gone |-> t.gone]
  BY <1>0, TextParts
<1>2. [t EXCEPT !.col = 0] \in Texts(G) /\ Follows(t, [t EXCEPT !.col = 0])
  <2> DEFINE u == [lines |-> t.lines, col |-> 0, scroll |-> t.scroll, gone |-> t.gone]
  <2>1. u = [t EXCEPT !.col = 0]
    BY <1>t
  <2>2. t.lines[Len(t.lines)] \in Row(G)
    BY <1>0, TextParts
  <2>3. u \in Texts(G) /\ Follows(t, u)
    BY <1>0, <2>2, WrittenText
  <2> QED BY <2>1, <2>3
<1>3. Newline(t) \in Later(G, s)
  <2>1. AppendLine([t EXCEPT !.col = 0]) \in Texts(G)
        /\ Follows([t EXCEPT !.col = 0], AppendLine([t EXCEPT !.col = 0]))
    BY <1>2, AppendLineText
  <2>2. Follows(t, AppendLine([t EXCEPT !.col = 0]))
    BY <1>0, <1>2, <2>1, FollowsOn
  <2> QED BY <1>1, <2>1, <2>2 DEF Newline
<1>4. AppendLine(t) \in Later(G, s)
  BY <1>0, <1>1, AppendLineText
<1>5. ResetHistory(t.gone + Len(t.lines)) \in Later(G, s)
  BY <1>0, <1>1, FormFeedText
<1>6. PutCell(t, c) \in Later(G, s)
  BY <1>0, <1>1, PutCellText
<1>7. Spaces(t, TabWidth - (t.col % TabWidth)) \in Later(G, s)
  <2>1. PICK n \in Nat : n = TabWidth - (t.col % TabWidth)
    BY <1>t, TabStop
  <2>2. Spaces(t, n) \in Later(G, s)
    BY SpaceFollows, SpacesStay
  <2> QED BY <2>1, <2>2, Zenon
<1>8. [t EXCEPT !.col = 0] \in Later(G, s)
  BY <1>1, <1>2
<1>9. Erase(t) \in Later(G, s)
  BY <1>0, <1>1, EraseText
<1> QED BY <1>3, <1>4, <1>5, <1>6, <1>7, <1>8, <1>9 DEF gui_terminal_putchar

\* gui_terminal_session_write.
LEMMA WriteFollows ==
    ASSUME NEW G, HasSpace(G), NEW s \in Texts(G), NEW text \in Seq(G)
    PROVE  gui_terminal_session_write(s, text) \in Texts(G)
           /\ Follows(s, gui_terminal_session_write(s, text))
<1>1. s \in Later(G, s)
  BY FollowsItself DEF Later
<1>2. IsSeq(text)
  BY DEF IsSeq
<1>3. \A i \in 1..Len(text) : \A t \in Later(G, s) : gui_terminal_putchar(t, text[i]) \in Later(G, s)
  <2>1. ASSUME NEW i \in 1..Len(text), NEW t \in Later(G, s)
        PROVE  gui_terminal_putchar(t, text[i]) \in Later(G, s)
    <3>1. text[i] \in G
      OBVIOUS
    <3> QED BY <3>1, PutcharFollows
  <2> QED BY <2>1
<1>4. \A T : s \in T /\ (\A i \in 1..Len(text) : \A t \in T : gui_terminal_putchar(t, text[i]) \in T)
              => gui_terminal_session_write(s, text) \in T
  BY <1>2, WriteStays
<1>5. gui_terminal_session_write(s, text) \in Later(G, s)
  BY <1>1, <1>3, <1>4
<1> QED BY <1>5 DEF Later

-----------------------------------------------------------------------------
\* The states of a shell whose lines are over S, and what it does for a byte.
Shells(S) ==
    {sh \in [buffer : Seq(S), cursor : Nat, rendered : Nat, pos : Nat, draft : Seq(S),
             history : Seq(Seq(S)), esc : Seq(S)] :
       sh.cursor <= Len(sh.buffer) /\ sh.pos <= Len(sh.history)}
\* What comes of a byte.
Good(r, S) == r.sh \in Shells(S) /\ IsSeq(r.out)

\* What the state of a shell is made of.
LEMMA ShellParts ==
    ASSUME NEW S, NEW sh \in Shells(S)
    PROVE  /\ sh \in [buffer : Seq(S), cursor : Nat, rendered : Nat, pos : Nat, draft : Seq(S),
                      history : Seq(Seq(S)), esc : Seq(S)]
           /\ sh.buffer \in Seq(S) /\ Len(sh.buffer) \in Nat /\ sh.cursor \in Nat
           /\ sh.cursor <= Len(sh.buffer) /\ sh.rendered \in Nat /\ sh.pos \in Nat
           /\ sh.pos <= Len(sh.history) /\ Len(sh.history) \in Nat
           /\ sh.draft \in Seq(S) /\ sh.history \in Seq(Seq(S)) /\ sh.esc \in Seq(S)
BY DEF Shells

\* Texts the shell writes.
LEMMA Repeats == ASSUME NEW n \in Nat, NEW x PROVE IsSeq([i \in 1..n |-> x])
<1>1. [i \in 1..n |-> x] \in Seq({x})
  OBVIOUS
<1> QED BY <1>1 DEF IsSeq
LEMMA PaddingIsText == ASSUME NEW n \in Nat PROVE IsSeq(Padding(n))
BY Repeats, Zenon DEF Padding

LEMMA PromptIsText == IsSeq(Prompt)
BY ShellAssumption DEF IsSeq

\* shell_redraw_line.
LEMMA RedrawIsText ==
    ASSUME NEW S, NEW sh \in Shells(S), NEW rendered \in Nat
    PROVE  IsSeq(shell_redraw_line(sh.buffer, sh.cursor, rendered))
<1> DEFINE n == IF rendered > Len(sh.buffer) THEN rendered - Len(sh.buffer) ELSE 0
           front == SubSeq(sh.buffer, 1, sh.cursor)
           return == <<"CR">>
<1>1. IsSeq(sh.buffer) /\ IsSeq(front)
  <2>1. sh.buffer \in Seq(S) /\ front \in Seq(S)
    BY ShellParts
  <2> QED BY <2>1 DEF IsSeq
<1>2. IsSeq(Padding(n))
  <2>1. n \in Nat
    BY ShellParts
  <2> QED BY <2>1, PaddingIsText
<1>3. IsSeq(return) /\ IsSeq(Prompt)
  BY Pieces, PromptIsText
<1>4. shell_redraw_line(sh.buffer, sh.cursor, rendered)
        = return \o Prompt \o sh.buffer \o Padding(n) \o return \o Prompt \o front
  BY DEF shell_redraw_line
<1> HIDE DEF n, front, return
<1>5. IsSeq(return \o Prompt)
  BY <1>3, Joined
<1>6. IsSeq(return \o Prompt \o sh.buffer)
  BY <1>1, <1>5, Joined
<1>7. IsSeq(return \o Prompt \o sh.buffer \o Padding(n))
  BY <1>2, <1>6, Joined
<1>8. IsSeq(return \o Prompt \o sh.buffer \o Padding(n) \o return)
  BY <1>3, <1>7, Joined
<1>9. IsSeq(return \o Prompt \o sh.buffer \o Padding(n) \o return \o Prompt)
  BY <1>3, <1>8, Joined
<1>10. IsSeq(return \o Prompt \o sh.buffer \o Padding(n) \o return \o Prompt \o front)
  BY <1>1, <1>9, Joined
<1> QED BY <1>4, <1>10

\* Nothing written, the line redrawn, the line changed, the cursor moved.
LEMMA QuietGood == ASSUME NEW S, NEW sh \in Shells(S) PROVE Good(Quiet(sh), S)
BY Pieces DEF Good, Quiet

LEMMA RedrawnGood ==
    ASSUME NEW S, NEW sh \in Shells(S), NEW rendered \in Nat PROVE Good(Redrawn(sh, rendered), S)
BY RedrawIsText DEF Good, Redrawn

LEMMA ChangedGood ==
    ASSUME NEW S, NEW old \in Shells(S), NEW new \in Shells(S) PROVE Good(Changed(old, new), S)
<1> DEFINE sh == [new EXCEPT !.rendered = Len(new.buffer)]
<1>1. sh \in Shells(S)
  <2>1. Len(new.buffer) \in Nat
    BY ShellParts
  <2> QED BY <2>1 DEF Shells
<1>2. old.rendered \in Nat
  BY ShellParts
<1> HIDE DEF sh
<1>3. Good(Redrawn(sh, old.rendered), S)
  BY <1>1, <1>2, RedrawnGood
<1> QED BY <1>3 DEF Changed, sh

LEMMA MoveToGood ==
    ASSUME NEW S, NEW sh \in Shells(S), NEW n \in Nat, n <= Len(sh.buffer)
    PROVE  Good(MoveTo(sh, n), S)
<1>1. [sh EXCEPT !.cursor = n] \in Shells(S)
  BY DEF Shells
<1>2. sh.rendered \in Nat
  BY ShellParts
<1> QED BY <1>1, <1>2, RedrawnGood DEF MoveTo

\* Another line, with its cursor inside; and the same cursor.
LEMMA Edited ==
    ASSUME NEW S, NEW sh \in Shells(S), NEW buffer \in Seq(S), NEW cursor \in Nat, NEW pos \in Nat,
           pos <= Len(sh.history)
    PROVE  /\ cursor <= Len(buffer) =>
                [sh EXCEPT !.buffer = buffer, !.cursor = cursor, !.pos = pos] \in Shells(S)
           /\ sh.cursor <= Len(buffer) => [sh EXCEPT !.buffer = buffer, !.pos = pos] \in Shells(S)
<1>0. sh \in [buffer : Seq(S), cursor : Nat, rendered : Nat, pos : Nat, draft : Seq(S),
              history : Seq(Seq(S)), esc : Seq(S)]
  BY ShellParts
<1> DEFINE u == [sh EXCEPT !.buffer = buffer, !.cursor = cursor, !.pos = pos]
           v == [sh EXCEPT !.buffer = buffer, !.pos = pos]
<1>1. u \in [buffer : Seq(S), cursor : Nat, rendered : Nat, pos : Nat, draft : Seq(S),
             history : Seq(Seq(S)), esc : Seq(S)]
  BY <1>0
<1>2. v \in [buffer : Seq(S), cursor : Nat, rendered : Nat, pos : Nat, draft : Seq(S),
             history : Seq(Seq(S)), esc : Seq(S)]
  BY <1>0
<1>3. u.buffer = buffer /\ u.cursor = cursor /\ u.pos = pos /\ u.history = sh.history
  BY <1>0
<1>4. v.buffer = buffer /\ v.cursor = sh.cursor /\ v.pos = pos /\ v.history = sh.history
  BY <1>0
<1> HIDE DEF u, v
<1>5. cursor <= Len(buffer) => u \in Shells(S)
  BY <1>1, <1>3 DEF Shells
<1>6. sh.cursor <= Len(buffer) => v \in Shells(S)
  BY <1>2, <1>4 DEF Shells
<1> QED BY <1>5, <1>6 DEF u, v

\* A character more, or one less.
LEMMA InsertedAt ==
    ASSUME NEW S, NEW s \in Seq(S), NEW i \in 1..(Len(s) + 1), NEW c \in S
    PROVE  InsertAt(s, i, c) \in Seq(S) /\ Len(InsertAt(s, i, c)) = Len(s) + 1
<1> DEFINE a == SubSeq(s, 1, i - 1)
           b == SubSeq(s, i, Len(s))
<1>1. a \in Seq(S) /\ Len(a) = i - 1
  OBVIOUS
<1>2. b \in Seq(S) /\ Len(b) = Len(s) - i + 1
  OBVIOUS
<1>3. <<c>> \in Seq(S) /\ Len(<<c>>) = 1
  OBVIOUS
<1>4. InsertAt(s, i, c) = a \o <<c>> \o b
  BY DEF InsertAt
<1>5. Len(s) \in Nat
  OBVIOUS
<1> HIDE DEF a, b
<1>6. a \o <<c>> \in Seq(S) /\ Len(a \o <<c>>) = i
  BY <1>1, <1>3, ConcatProperties
<1>7. a \o <<c>> \o b \in Seq(S) /\ Len(a \o <<c>> \o b) = i + Len(b)
  BY <1>2, <1>6, ConcatProperties
<1> QED BY <1>2, <1>4, <1>5, <1>7

LEMMA RemovedAt ==
    ASSUME NEW S, NEW s \in Seq(S), NEW i \in 1..Len(s)
    PROVE  RemoveAt(s, i) \in Seq(S) /\ Len(RemoveAt(s, i)) = Len(s) - 1
<1> DEFINE a == SubSeq(s, 1, i - 1)
           b == SubSeq(s, i + 1, Len(s))
<1>1. a \in Seq(S) /\ Len(a) = i - 1
  OBVIOUS
<1>2. b \in Seq(S) /\ Len(b) = Len(s) - i
  OBVIOUS
<1>3. RemoveAt(s, i) = a \o b
  BY DEF RemoveAt
<1>4. Len(s) \in Nat
  OBVIOUS
<1> HIDE DEF a, b
<1>5. a \o b \in Seq(S) /\ Len(a \o b) = Len(a) + Len(b)
  BY <1>1, <1>2, ConcatProperties
<1> QED BY <1>1, <1>2, <1>3, <1>4, <1>5

\* The keys that edit.
LEMMA EditsGood ==
    ASSUME NEW S, NEW sh \in Shells(S), NEW c \in S
    PROVE  Good(Insert(sh, c), S) /\ Good(Backspace(sh), S) /\ Good(Delete(sh), S)
<1>0. /\ sh.buffer \in Seq(S) /\ Len(sh.buffer) \in Nat /\ sh.cursor \in Nat
      /\ sh.cursor <= Len(sh.buffer) /\ Len(sh.history) \in Nat
  BY ShellParts
<1>2. Good(Insert(sh, c), S)
  <2> DEFINE buffer == InsertAt(sh.buffer, sh.cursor + 1, c)
             new == [sh EXCEPT !.buffer = buffer, !.cursor = sh.cursor + 1, !.pos = 0]
  <2>1. buffer \in Seq(S) /\ Len(buffer) = Len(sh.buffer) + 1
    <3>1. sh.cursor + 1 \in 1..(Len(sh.buffer) + 1)
      BY <1>0
    <3> QED BY <1>0, <3>1, InsertedAt
  <2> HIDE DEF buffer
  <2>2. new \in Shells(S)
    <3>1. sh.cursor + 1 \in Nat /\ sh.cursor + 1 <= Len(buffer) /\ 0 \in Nat /\ 0 <= Len(sh.history)
      BY <1>0, <2>1
    <3> QED BY <2>1, <3>1, Edited
  <2> HIDE DEF new
  <2>3. Good(Changed(sh, new), S) /\ Good(Quiet(sh), S)
    BY <2>2, ChangedGood, QuietGood
  <2>4. Insert(sh, c) = IF Len(sh.buffer) >= LineMax THEN Quiet(sh) ELSE Changed(sh, new)
    BY DEF Insert, new, buffer
  <2> QED BY <2>3, <2>4
<1>3. Good(Backspace(sh), S)
  <2>0. CASE sh.cursor = 0
    BY <2>0, QuietGood DEF Backspace
  <2>c. CASE sh.cursor # 0
    <3> DEFINE buffer == RemoveAt(sh.buffer, sh.cursor)
               new == [sh EXCEPT !.buffer = buffer, !.cursor = sh.cursor - 1, !.pos = 0]
    <3>1. buffer \in Seq(S) /\ Len(buffer) = Len(sh.buffer) - 1
      BY <1>0, <2>c, RemovedAt
    <3> HIDE DEF buffer
    <3>2. new \in Shells(S)
      <4>1. sh.cursor - 1 \in Nat /\ sh.cursor - 1 <= Len(buffer) /\ 0 \in Nat /\ 0 <= Len(sh.history)
        BY <1>0, <2>c, <3>1
      <4> QED BY <3>1, <4>1, Edited
    <3> HIDE DEF new
    <3>3. Good(Changed(sh, new), S)
      BY <3>2, ChangedGood
    <3>4. Backspace(sh) = Changed(sh, new)
      BY <2>c DEF Backspace, new, buffer
    <3> QED BY <3>3, <3>4
  <2> QED BY <2>0, <2>c
<1>4. Good(Delete(sh), S)
  <2>0. CASE sh.cursor >= Len(sh.buffer)
    BY <2>0, QuietGood DEF Delete
  <2>c. CASE ~(sh.cursor >= Len(sh.buffer))
    <3> DEFINE buffer == RemoveAt(sh.buffer, sh.cursor + 1)
               new == [sh EXCEPT !.buffer = buffer, !.pos = 0]
    <3>1. buffer \in Seq(S) /\ Len(buffer) = Len(sh.buffer) - 1
      <4>1. sh.cursor + 1 \in 1..Len(sh.buffer)
        BY <1>0, <2>c
      <4> QED BY <1>0, <4>1, RemovedAt
    <3> HIDE DEF buffer
    <3>2. new \in Shells(S)
      <4>1. sh.cursor <= Len(buffer) /\ 0 \in Nat /\ 0 <= Len(sh.history)
        BY <1>0, <2>c, <3>1
      <4> QED BY <3>1, <4>1, Edited
    <3> HIDE DEF new
    <3>3. Good(Changed(sh, new), S)
      BY <3>2, ChangedGood
    <3>4. Delete(sh) = Changed(sh, new)
      BY <2>c DEF Delete, new, buffer
    <3> QED BY <3>3, <3>4
  <2> QED BY <2>0, <2>c
<1> QED BY <1>2, <1>3, <1>4

\* The keys that recall a line of the history.
LEMMA RecallGood ==
    ASSUME NEW S, NEW sh \in Shells(S), NEW text \in Seq(S), NEW pos \in 0..Len(sh.history)
    PROVE  Good(Recall(sh, text, pos), S)
<1> DEFINE new == [sh EXCEPT !.buffer = text, !.cursor = Len(text), !.pos = pos]
<1>1. new \in Shells(S)
  <2>1. Len(text) \in Nat /\ pos \in Nat /\ pos <= Len(sh.history) /\ Len(text) <= Len(text)
    BY ShellParts
  <2> QED BY <2>1, Edited
<1> HIDE DEF new
<1>2. Good(Changed(sh, new), S)
  BY <1>1, ChangedGood
<1> QED BY <1>2 DEF Recall, new

\* Up and down.
LEMMA RecallsGood ==
    ASSUME NEW S, NEW sh \in Shells(S) PROVE Good(Up(sh), S) /\ Good(Down(sh), S)
<1>0. /\ sh.history \in Seq(Seq(S)) /\ Len(sh.history) \in Nat /\ sh.pos \in Nat
      /\ sh.pos <= Len(sh.history) /\ sh.draft \in Seq(S) /\ sh.buffer \in Seq(S)
  BY ShellParts
<1>1. ASSUME NEW p \in 1..Len(sh.history) PROVE Good(Recall(sh, sh.history[p], p), S)
  <2>1. sh.history[p] \in Seq(S) /\ p \in 0..Len(sh.history)
    BY <1>0
  <2> QED BY <2>1, RecallGood
<1>2. Good(Quiet(sh), S)
  BY QuietGood
<1>3. CASE sh.history = <<>>
  <2>1. Len(sh.history) = 0
    BY <1>3
  <2>2. sh.pos = 0
    BY <1>0, <2>1
  <2> QED BY <1>2, <1>3, <2>2 DEF Up, Down
<1>4. CASE sh.history # <<>>
  <2>0. Len(sh.history) >= 1
    BY <1>0, <1>4
  <2>1. CASE sh.pos = 0
    <3> DEFINE new == [sh EXCEPT !.draft = sh.buffer]
    <3>1. new \in Shells(S) /\ new.history = sh.history
      BY <1>0 DEF Shells
    <3>2. Last(sh.history) \in Seq(S) /\ Len(sh.history) \in 0..Len(new.history)
      BY <1>0, <2>0, <3>1 DEF Last
    <3> HIDE DEF new
    <3>3. Good(Recall(new, Last(sh.history), Len(sh.history)), S)
      BY <3>1, <3>2, RecallGood
    <3>4. Up(sh) = Recall(new, Last(sh.history), Len(sh.history)) /\ Down(sh) = Quiet(sh)
      BY <1>4, <2>1 DEF Up, Down, new
    <3> QED BY <1>2, <3>3, <3>4
  <2>2. CASE sh.pos # 0
    <3>1. Good(Up(sh), S)
      <4> DEFINE p == IF sh.pos > 1 THEN sh.pos - 1 ELSE sh.pos
      <4>1. p \in 1..Len(sh.history)
        BY <1>0, <2>2
      <4>2. Up(sh) = Recall(sh, sh.history[p], p)
        BY <1>4, <2>2 DEF Up
      <4> HIDE DEF p
      <4> QED BY <1>1, <4>1, <4>2
    <3>2. Good(Down(sh), S)
      <4>1. CASE sh.pos < Len(sh.history)
        <5>1. sh.pos + 1 \in 1..Len(sh.history)
          BY <1>0, <4>1
        <5>2. Down(sh) = Recall(sh, sh.history[sh.pos + 1], sh.pos + 1)
          BY <2>2, <4>1 DEF Down
        <5> QED BY <1>1, <5>1, <5>2
      <4>2. CASE ~(sh.pos < Len(sh.history))
        <5>1. Down(sh) = Recall(sh, sh.draft, 0)
          BY <2>2, <4>2 DEF Down
        <5>2. 0 \in 0..Len(sh.history)
          BY <1>0
        <5> QED BY <1>0, <5>1, <5>2, RecallGood
      <4> QED BY <4>1, <4>2
    <3> QED BY <3>1, <3>2
  <2> QED BY <2>1, <2>2
<1> QED BY <1>3, <1>4

\* shell_history_add; the line is run.
LEMMA RunGood ==
    ASSUME NEW S, NEW sh \in Shells(S), NEW output, IsSeq(output)
    PROVE  Good(Run(sh, output), S)
<1>0. sh.history \in Seq(Seq(S)) /\ sh.buffer \in Seq(S)
  BY ShellParts
<1> DEFINE history == shell_history_add(sh.history, sh.buffer)
<1>1. history \in Seq(Seq(S))
  <2>1. sh.history # <<>> => Tail(sh.history) \in Seq(Seq(S))
    BY <1>0
  <2>2. Len(sh.history) < HistoryMax \/ sh.history # <<>>
    BY <1>0, ShellAssumption
  <2>3. Append(sh.history, sh.buffer) \in Seq(Seq(S))
    BY <1>0
  <2>4. sh.history # <<>> => Append(Tail(sh.history), sh.buffer) \in Seq(Seq(S))
    BY <1>0, <2>1
  <2> QED BY <1>0, <2>2, <2>3, <2>4 DEF shell_history_add
<1> HIDE DEF history
<1>2. NewLine(history) \in Shells(S)
  <2> DEFINE new == NewLine(history)
  <2>1. new \in [buffer : Seq(S), cursor : Nat, rendered : Nat, pos : Nat, draft : Seq(S),
                 history : Seq(Seq(S)), esc : Seq(S)]
    BY <1>1 DEF NewLine
  <2>2. new.cursor = 0 /\ new.pos = 0 /\ new.buffer = <<>> /\ new.history = history
    BY DEF NewLine
  <2>3. Len(<<>>) = 0 /\ Len(history) \in Nat
    BY <1>1
  <2> HIDE DEF new
  <2>4. new.cursor <= Len(new.buffer) /\ new.pos <= Len(new.history)
    BY <2>2, <2>3
  <2>5. new \in Shells(S)
    BY <2>1, <2>4 DEF Shells
  <2> QED BY <2>5 DEF new
<1>3. IsSeq(<<"LF">> \o output \o Prompt)
  <2>1. IsSeq(<<"LF">>)
    BY Pieces
  <2>2. IsSeq(<<"LF">> \o output)
    BY <2>1, Joined
  <2> QED BY <2>2, PromptIsText, Joined
<1> QED BY <1>2, <1>3 DEF Good, Run, history

\* shell_read_line takes a byte of an escape sequence.
LEMMA SequenceGood ==
    ASSUME NEW S, NEW sh \in Shells(S), NEW seq \in Seq(S) PROVE Good(Sequence(sh, seq), S)
<1> DEFINE s == [sh EXCEPT !.esc = <<>>]
           t == [sh EXCEPT !.esc = seq]
<1>0. /\ sh \in [buffer : Seq(S), cursor : Nat, rendered : Nat, pos : Nat, draft : Seq(S),
                 history : Seq(Seq(S)), esc : Seq(S)]
      /\ sh.cursor <= Len(sh.buffer) /\ sh.pos <= Len(sh.history)
  BY ShellParts
<1>1. ASSUME NEW e \in Seq(S) PROVE [sh EXCEPT !.esc = e] \in Shells(S)
  <2> DEFINE u == [sh EXCEPT !.esc = e]
  <2>1. u \in [buffer : Seq(S), cursor : Nat, rendered : Nat, pos : Nat, draft : Seq(S),
               history : Seq(Seq(S)), esc : Seq(S)]
    BY <1>0
  <2>2. u.cursor = sh.cursor /\ u.buffer = sh.buffer /\ u.pos = sh.pos /\ u.history = sh.history
    BY <1>0
  <2> HIDE DEF u
  <2>3. u \in Shells(S)
    BY <1>0, <2>1, <2>2 DEF Shells
  <2> QED BY <2>3 DEF u
<1>2. s \in Shells(S) /\ t \in Shells(S)
  <2>1. <<>> \in Seq(S)
    OBVIOUS
  <2> QED BY <1>1, <2>1
<1> HIDE DEF s, t
<1>3. Good(Quiet(s), S) /\ Good(Quiet(t), S)
  BY <1>2, QuietGood
<1>4. /\ Len(s.buffer) \in Nat /\ s.cursor \in Nat /\ s.cursor <= Len(s.buffer)
      /\ Len(s.buffer) <= Len(s.buffer) /\ 0 <= Len(s.buffer) /\ 0 \in Nat
  BY <1>2, ShellParts
<1>5. Good(MoveTo(s, 0), S) /\ Good(MoveTo(s, Len(s.buffer)), S)
  BY <1>2, <1>4, MoveToGood
<1>6. Good(Left(s), S)
  <2>1. CASE s.cursor = 0
    BY <1>3, <2>1 DEF Left
  <2>2. CASE s.cursor # 0
    <3>1. s.cursor - 1 \in Nat /\ s.cursor - 1 <= Len(s.buffer)
      BY <1>4, <2>2
    <3>2. Good(MoveTo(s, s.cursor - 1), S)
      BY <1>2, <3>1, MoveToGood
    <3> QED BY <2>2, <3>2 DEF Left
  <2> QED BY <2>1, <2>2
<1>7. Good(Right(s), S)
  <2>1. CASE s.cursor >= Len(s.buffer)
    BY <1>3, <2>1 DEF Right
  <2>2. CASE ~(s.cursor >= Len(s.buffer))
    <3>1. s.cursor + 1 \in Nat /\ s.cursor + 1 <= Len(s.buffer)
      BY <1>4, <2>2
    <3>2. Good(MoveTo(s, s.cursor + 1), S)
      BY <1>2, <3>1, MoveToGood
    <3> QED BY <2>2, <3>2 DEF Right
  <2> QED BY <2>1, <2>2
<1>8. Good(Up(s), S) /\ Good(Down(s), S)
  BY <1>2, RecallsGood
<1>9. Good(Delete(s), S)
  <2>1. CASE S = {}
    <3>1. Len(s.buffer) = 0
      <4>1. s.buffer \in Seq(S)
        BY <1>2, ShellParts
      <4>2. Len(s.buffer) # 0 => s.buffer[1] \in S
        BY <4>1
      <4> QED BY <2>1, <4>2
    <3>2. s.cursor >= Len(s.buffer)
      BY <1>4, <3>1
    <3> QED BY <1>3, <3>2 DEF Delete
  <2>2. CASE S # {}
    <3>1. PICK c : c \in S
      BY <2>2
    <3> QED BY <1>2, <3>1, EditsGood
  <2> QED BY <2>1, <2>2
<1> QED BY <1>3, <1>5, <1>6, <1>7, <1>8, <1>9 DEF Sequence, s, t

\* shell_read_line: any byte.
LEMMA ReadGood ==
    ASSUME NEW S, NEW sh \in Shells(S), NEW c \in S, NEW output, IsSeq(output)
    PROVE  Good(shell_read_line(sh, c, output), S)
<1>1. Good(Sequence(sh, Append(sh.esc, c)), S)
  <2>1. Append(sh.esc, c) \in Seq(S)
    BY ShellParts
  <2> QED BY <2>1, SequenceGood
<1>2. Good(Quiet([sh EXCEPT !.esc = <<c>>]), S)
  <2> DEFINE u == [sh EXCEPT !.esc = <<c>>]
  <2>0. /\ sh \in [buffer : Seq(S), cursor : Nat, rendered : Nat, pos : Nat, draft : Seq(S),
                   history : Seq(Seq(S)), esc : Seq(S)]
        /\ sh.cursor <= Len(sh.buffer) /\ sh.pos <= Len(sh.history) /\ <<c>> \in Seq(S)
    BY ShellParts
  <2>1. u \in [buffer : Seq(S), cursor : Nat, rendered : Nat, pos : Nat, draft : Seq(S),
               history : Seq(Seq(S)), esc : Seq(S)]
    BY <2>0
  <2>2. u.cursor = sh.cursor /\ u.buffer = sh.buffer /\ u.pos = sh.pos /\ u.history = sh.history
    BY <2>0
  <2> HIDE DEF u
  <2>3. u \in Shells(S)
    BY <2>0, <2>1, <2>2 DEF Shells
  <2>4. Good(Quiet(u), S)
    BY <2>3, QuietGood
  <2> QED BY <2>4 DEF u
<1>3. Good(Run(sh, output), S) /\ Good(Backspace(sh), S) /\ Good(Insert(sh, c), S)
  BY RunGood, EditsGood
<1> QED BY <1>1, <1>2, <1>3 DEF shell_read_line

-----------------------------------------------------------------------------
(* The session and its shell.                                              *)
IsShell(sh) == \E S : sh \in Shells(S)
IsScreen(s) == \E G : HasSpace(G) /\ s \in Texts(G)
ScrollInv == IsScreen(screen) /\ IsShell(shell)

\* More characters to choose from.
LEMMA SeqGrows == ASSUME NEW S, NEW T, S \subseteq T, NEW s \in Seq(S) PROVE s \in Seq(T)
<1>1. \A i \in 1..Len(s) : s[i] \in T
  OBVIOUS
<1> QED BY <1>1, SeqMonotonic

\* More characters on the screen.
LEMMA TextsGrow == ASSUME NEW G, NEW H, G \subseteq H, NEW s \in Texts(G) PROVE s \in Texts(H)
<1>1. Row(G) \subseteq Row(H)
  BY DEF Row
<1>2. s.lines \in Seq(Row(H))
  <2>1. s.lines \in Seq(Row(G))
    BY TextParts
  <2> QED BY <1>1, <2>1, SeqGrows
<1>3. [lines |-> s.lines, col |-> s.col, scroll |-> s.scroll, gone |-> s.gone] \in Texts(H)
  BY <1>2, TextParts, IsText
<1>4. s = [lines |-> s.lines, col |-> s.col, scroll |-> s.scroll, gone |-> s.gone]
  BY TextParts
<1> QED BY <1>3, <1>4, Zenon

\* A text of any characters.
LEMMA WriteAny ==
    ASSUME NEW s, IsScreen(s), NEW text, IsSeq(text)
    PROVE  LET t == gui_terminal_session_write(s, text) IN IsScreen(t) /\ Follows(s, t)
<1>1. PICK G : HasSpace(G) /\ s \in Texts(G)
  BY DEF IsScreen
<1>2. PICK S : text \in Seq(S)
  BY DEF IsSeq
<1> DEFINE H == G \cup S
<1>3. G \subseteq H /\ S \subseteq H
  OBVIOUS
<1>4. HasSpace(H)
  BY <1>1, Zenon DEF HasSpace
<1> HIDE DEF H
<1>5. s \in Texts(H) /\ text \in Seq(H)
  BY <1>1, <1>2, <1>3, TextsGrow, SeqGrows
<1>6. gui_terminal_session_write(s, text) \in Texts(H)
      /\ Follows(s, gui_terminal_session_write(s, text))
  BY <1>4, <1>5, WriteFollows
<1> QED BY <1>4, <1>6 DEF IsScreen

\* A byte of any kind.
LEMMA ReadAny ==
    ASSUME NEW sh, IsShell(sh), NEW c, NEW output, IsSeq(output)
    PROVE  LET r == shell_read_line(sh, c, output) IN IsShell(r.sh) /\ IsSeq(r.out)
<1>1. PICK S : sh \in Shells(S)
  BY DEF IsShell
<1> DEFINE T == S \cup {c}
<1>2. S \subseteq T /\ c \in T
  OBVIOUS
<1> HIDE DEF T
<1>3. sh \in Shells(T)
  <2>1. /\ sh.buffer \in Seq(S) /\ sh.draft \in Seq(S) /\ sh.esc \in Seq(S)
        /\ sh.history \in Seq(Seq(S))
        /\ sh.cursor \in Nat /\ sh.rendered \in Nat /\ sh.pos \in Nat
        /\ sh.cursor <= Len(sh.buffer) /\ sh.pos <= Len(sh.history)
    BY <1>1, ShellParts
  <2>2. Seq(S) \subseteq Seq(T)
    BY <1>2, SeqGrows
  <2>3. sh.history \in Seq(Seq(T))
    BY <2>1, <2>2, SeqGrows
  <2>4. sh \in [buffer : Seq(S), cursor : Nat, rendered : Nat, pos : Nat, draft : Seq(S),
                history : Seq(Seq(S)), esc : Seq(S)]
    BY <1>1, ShellParts
  <2>5. sh \in [buffer : Seq(T), cursor : Nat, rendered : Nat, pos : Nat, draft : Seq(T),
                history : Seq(Seq(T)), esc : Seq(T)]
    BY <2>1, <2>2, <2>3, <2>4
  <2> QED BY <2>1, <2>5 DEF Shells
<1>4. Good(shell_read_line(sh, c, output), T)
  BY <1>2, <1>3, ReadGood
<1> QED BY <1>4 DEF Good, IsShell

\* What a command writes.
LEMMA OutputIsText == ASSUME NEW line, NEW out \in Outputs(line) PROVE IsSeq(out)
<1>1. \A x \in CommandOutputs : IsSeq(x)
  BY ShellAssumption DEF IsSeq
<1>2. IsSeq(<<>>) /\ IsSeq(<<"!", "LF">>)
  <2>1. <<"!", "LF">> \in Seq({"!", "LF"})
    OBVIOUS
  <2> QED BY <2>1, Pieces DEF IsSeq
<1> QED BY <1>1, <1>2 DEF Outputs

\* The shell has its byte.
LEMMA ShellGetsKeeps ==
    ASSUME ScrollInv, NEW c, ShellGets(c)
    PROVE  ScrollInv' /\ Follows(screen, screen')
<1>1. PICK out \in Outputs(shell.buffer) :
         LET next == shell_read_line(shell, c, out)
         IN  /\ shell' = next.sh
             /\ screen' = IF reader # "session" THEN screen
                          ELSE gui_terminal_session_write(screen, next.out)
  BY DEF ShellGets
<1> DEFINE next == shell_read_line(shell, c, out)
<1>2. IsShell(next.sh) /\ IsSeq(next.out)
  <2>1. IsSeq(out)
    BY OutputIsText
  <2> QED BY <2>1, ReadAny DEF ScrollInv
<1>3. shell' = next.sh
      /\ screen' = IF reader # "session" THEN screen
                   ELSE gui_terminal_session_write(screen, next.out)
  BY <1>1
<1> HIDE DEF next
<1>4. IsScreen(screen) /\ Follows(screen, screen)
  BY FollowsItself DEF ScrollInv, IsScreen
<1>5. IsScreen(screen') /\ Follows(screen, screen')
  <2>1. LET t == gui_terminal_session_write(screen, next.out) IN IsScreen(t) /\ Follows(screen, t)
    BY <1>2, <1>4, WriteAny
  <2> QED BY <1>3, <1>4, <2>1
<1>6. IsShell(shell')
  BY <1>2, <1>3
<1>7. IsScreen(screen)' /\ IsShell(shell)'
  BY <1>5, <1>6 DEF IsScreen, IsShell
<1> QED BY <1>5, <1>7 DEF ScrollInv

\* The user pages up and down, or types.
LEMMA SeenByKeeps == ASSUME NEW s, IsScreen(s), NEW e PROVE IsScreen(SeenBy(e, s))
<1>1. PICK G : HasSpace(G) /\ s \in Texts(G)
  BY DEF IsScreen
<1>0. /\ s.lines \in Seq(Row(G)) /\ Len(s.lines) >= 1 /\ Len(s.lines) <= HistoryLines
      /\ s.col \in Nat /\ s.scroll \in Nat /\ s.gone \in Nat /\ s.scroll <= MaxScroll(s.lines)
      /\ s = [lines |-> s.lines, col |-> s.col, scroll |-> s.scroll, gone |-> s.gone]
  BY <1>1, TextParts
<1>2. MaxScroll(s.lines) \in Nat
  <2>1. Len(s.lines) \in Nat
    BY <1>0
  <2> QED BY <2>1, TerminalAssumption DEF MaxScroll
<1>3. ASSUME NEW n \in Nat, n <= MaxScroll(s.lines) PROVE [s EXCEPT !.scroll = n] \in Texts(G)
  <2>1. [s EXCEPT !.scroll = n]
          = [lines |-> s.lines, col |-> s.col, scroll |-> n, gone |-> s.gone]
    BY <1>0
  <2>2. [lines |-> s.lines, col |-> s.col, scroll |-> n, gone |-> s.gone] \in Texts(G)
    BY <1>0, <1>3, IsText
  <2> QED BY <2>1, <2>2, Zenon
<1>4. PageScroll \in Nat
  BY TerminalAssumption DEF PageScroll
<1>5. gui_terminal_scroll_view_up(s) \in Texts(G)
  <2> DEFINE n == Clamp(s.scroll + PageScroll, s.lines)
  <2>1. n \in Nat /\ n <= MaxScroll(s.lines)
    BY <1>0, <1>2, <1>4 DEF Clamp
  <2>2. gui_terminal_scroll_view_up(s) = [s EXCEPT !.scroll = n]
    BY DEF gui_terminal_scroll_view_up
  <2> HIDE DEF n
  <2> QED BY <1>3, <2>1, <2>2
<1>6. gui_terminal_scroll_view_down(s) \in Texts(G)
  <2> DEFINE n == IF PageScroll >= s.scroll THEN 0 ELSE s.scroll - PageScroll
  <2>1. n \in Nat /\ n <= MaxScroll(s.lines)
    BY <1>0, <1>2, <1>4
  <2>2. gui_terminal_scroll_view_down(s) = [s EXCEPT !.scroll = n]
    BY DEF gui_terminal_scroll_view_down
  <2> HIDE DEF n
  <2> QED BY <1>3, <2>1, <2>2
<1>7. [s EXCEPT !.scroll = 0] \in Texts(G)
  <2>1. 0 \in Nat /\ 0 <= MaxScroll(s.lines)
    BY <1>2
  <2> QED BY <1>3, <2>1
<1>8. SeenBy(e, s) \in Texts(G)
  BY <1>1, <1>5, <1>6, <1>7 DEF SeenBy
<1> QED BY <1>1, <1>8 DEF IsScreen

\* The session starts with a banner and the prompt.
LEMMA InitScroll == Init => ScrollInv
<1> SUFFICES ASSUME Init PROVE ScrollInv
  OBVIOUS
<1>1. IsScreen(ResetHistory(0))
  <2>1. HasSpace({" "})
    BY Zenon DEF HasSpace
  <2>2. PICK G : HasSpace(G)
    BY <2>1, Zenon
  <2>3. ResetHistory(0) \in Texts(G)
    BY <2>2, ResetText
  <2> QED BY <2>2, <2>3 DEF IsScreen
<1>2. IsSeq(<<"LF", "m", "LF">> \o Prompt)
  <2>1. <<"LF", "m", "LF">> \in Seq({"LF", "m"})
    OBVIOUS
  <2>2. IsSeq(<<"LF", "m", "LF">>)
    BY <2>1 DEF IsSeq
  <2> QED BY <2>2, PromptIsText, Joined
<1>3. IsScreen(screen)
  <2>1. screen = gui_terminal_session_write(ResetHistory(0), <<"LF", "m", "LF">> \o Prompt)
    BY DEF Init
  <2> QED BY <1>1, <1>2, <2>1, WriteAny
<1>4. IsShell(shell)
  <2>1. PICK h \in Histories[reader] : shell = NewLine(h)
    BY DEF Init
  <2>2. h \in Seq(Seq(STRING))
    <3>1. reader \in Readers
      BY DEF Init
    <3> QED BY <3>1, ConsoleAssumption
  <2> DEFINE S == STRING
             new == NewLine(h)
  <2>3. h \in Seq(Seq(S))
    BY <2>2
  <2> HIDE DEF S
  <2>4. new \in [buffer : Seq(S), cursor : Nat, rendered : Nat, pos : Nat, draft : Seq(S),
                 history : Seq(Seq(S)), esc : Seq(S)]
    BY <2>3 DEF NewLine
  <2>5. new.cursor = 0 /\ new.pos = 0 /\ new.buffer = <<>> /\ new.history = h
    BY DEF NewLine
  <2>6. Len(<<>>) = 0 /\ Len(h) \in Nat
    BY <2>3
  <2> HIDE DEF new
  <2>7. new.cursor <= Len(new.buffer) /\ new.pos <= Len(new.history)
    BY <2>5, <2>6
  <2>8. new \in Shells(S)
    BY <2>4, <2>7 DEF Shells
  <2> QED BY <2>1, <2>8 DEF IsShell, new
<1> QED BY <1>3, <1>4 DEF ScrollInv

\* Only the GUI task and the reader touch the text and the line.
LEMMA StepScroll == ASSUME ScrollInv, [Next]_vars PROVE ScrollInv'
<1>1. ASSUME UNCHANGED <<shell, screen>> PROVE ScrollInv'
  BY <1>1 DEF ScrollInv, IsScreen, IsShell
<1>2. CASE \E code \in TapKeys[reader] : Tap(code)
  <2>1. UNCHANGED <<shell, screen>>
    BY <1>2 DEF Tap, Stroke, consoleVars
  <2> QED BY <1>1, <2>1
<1>3. CASE \E code \in HoldKeys[reader] : Press(code) \/ Release(code)
  <2>1. UNCHANGED <<shell, screen>>
    BY <1>3 DEF Press, Release, Stroke, consoleVars
  <2> QED BY <1>1, <2>1
<1>4. CASE \E bytes \in OtherBytes[reader] : OtherKey(bytes)
  <2>1. UNCHANGED <<shell, screen>>
    BY <1>4 DEF OtherKey, Stroke, consoleVars
  <2> QED BY <1>1, <2>1
<1>5. CASE keyboard_interrupt_handler
  <2>1. UNCHANGED <<shell, screen>>
    BY <1>5 DEF keyboard_interrupt_handler
  <2> QED BY <1>1, <2>1
<1>6. CASE GuiTask
  <2>1. CASE GuiWait \/ gui_terminal_input_push
    <3>1. UNCHANGED <<shell, screen>>
      BY <2>1 DEF GuiWait, gui_terminal_input_push
    <3> QED BY <1>1, <3>1
  <2>2. CASE GuiDispatch
    <3>1. shell' = shell
      BY <2>2 DEF GuiDispatch
    <3>2. screen' = screen \/ \E e : screen' = SeenBy(e, screen)
      BY <2>2, Zenon DEF GuiDispatch
    <3>3. IsScreen(screen')
      BY <3>2, SeenByKeeps DEF ScrollInv
    <3> QED BY <3>1, <3>3 DEF ScrollInv, IsScreen, IsShell
  <2> QED BY <1>6, <2>1, <2>2 DEF GuiTask
<1>7. CASE ReaderTask
  <2>1. CASE gui_terminal_session_read
    BY <2>1, ShellGetsKeeps DEF gui_terminal_session_read
  <2>2. CASE keyboard_read_character
    BY <2>2, ShellGetsKeeps DEF keyboard_read_character
  <2>3. CASE keyboard_read_character_wait \/ syscall_read_key_event_wait \/ syscall_read_key_event
    <3>1. UNCHANGED <<shell, screen>>
      BY <2>3 DEF keyboard_read_character_wait, syscall_read_key_event_wait, syscall_read_key_event
    <3> QED BY <1>1, <3>1
  <2> QED BY <1>7, <2>1, <2>2, <2>3 DEF ReaderTask
<1>8. CASE UNCHANGED vars
  <2>1. UNCHANGED <<shell, screen>>
    BY <1>8 DEF vars
  <2> QED BY <1>1, <2>1
<1> QED BY <1>2, <1>3, <1>4, <1>5, <1>6, <1>7, <1>8 DEF Next

\* The invariant holds of every reachable state.
LEMMA ScrollInvHolds == Spec => []ScrollInv
BY InitScroll, StepScroll, PTL DEF Spec

\* terminal_session.c:427: what a shell writes does not move the text that a
\* user who scrolled back looks at, unless its first line is gone or the screen
\* was cleared.
THEOREM ScrolledViewStaysAlways == Spec => ScrolledViewStays
<1> DEFINE A == screen.scroll # 0 /\ gui_terminal_session_read =>
                  \/ FirstVisible(screen') = FirstVisible(screen) /\ screen'.scroll # 0
                  \/ /\ FirstVisible(screen) < screen'.gone
                     /\ FirstVisible(screen') = screen'.gone \/ screen'.scroll = 0
<1>1. ScrollInv => A
  <2> SUFFICES ASSUME ScrollInv, screen.scroll # 0, gui_terminal_session_read
               PROVE  \/ FirstVisible(screen') = FirstVisible(screen) /\ screen'.scroll # 0
                      \/ /\ FirstVisible(screen) < screen'.gone
                         /\ FirstVisible(screen') = screen'.gone \/ screen'.scroll = 0
    OBVIOUS
  <2>1. Follows(screen, screen')
    BY ShellGetsKeeps DEF gui_terminal_session_read
  <2> QED BY <2>1 DEF Follows
<1>2. ScrollInv /\ [Next]_vars => [A]_vars
  BY <1>1
<1> HIDE DEF A
<1>3. Spec => [][A]_vars
  BY <1>2, ScrollInvHolds, PTL DEF Spec
<1> QED BY <1>3 DEF ScrolledViewStays, A
=============================================================================
