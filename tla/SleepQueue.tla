---------------------------- MODULE SleepQueue -----------------------------
(***************************************************************************)
(* task_sleep and the timer tick: task/sleep_queue.c, timer/timer.c.       *)
(*                                                                         *)
(* The sleep queue is ordered by wake_tick and shared between the sleepers *)
(* and the tick handler under sleep_lock.  A sleeper keeps the lock until  *)
(* its state is SLEEPING (scheduler_block_current_wait); the handler pops  *)
(* expired tasks one by one and wakes each after releasing the lock, so    *)
(* tasks may run between two pops.  Real time is kept in milliseconds next *)
(* to system_ticks, because the argument of task_sleep is in milliseconds. *)
(***************************************************************************)
EXTENDS Naturals, Sequences, FiniteSets

CONSTANTS
    Task,
    NULL,
    Frequency,   \* timer_frequency(), in Hz; divides 1000
    Millis,      \* arguments of task_sleep
    LastCall,    \* bound: no task_sleep is called after this time
    MaxTime,     \* bound: the clock stops here
    TickMax      \* UINT64_MAX

ASSUME TimerAssumption ==
    /\ NULL \notin Task
    /\ Frequency \in Nat \ {0} /\ 1000 % Frequency = 0
    /\ Millis \subseteq Nat \ {0}
    /\ LastCall \in Nat /\ MaxTime \in Nat /\ TickMax \in Nat \ {0}

TickMs == 1000 \div Frequency

\* The machine is switched off before its 64-bit counter is full: it does not wrap, nobody
\* goes to sleep at its last value, and nobody asks for more time than it can count.
ASSUME ClockAssumption ==
    /\ MaxTime < (TickMax + 1) * TickMs /\ LastCall < TickMax * TickMs
    /\ \A ms \in Millis : LastCall + ms < (TickMax + 2) * TickMs

VARIABLES
    time,          \* real time in milliseconds
    irq_pending,   \* the timer has raised its line and the CPU has not answered
    system_ticks,
    handler,       \* "idle", "loop" in sleep_queue_tick, "wake" before scheduler_wake
    popped,        \* the task the handler has removed
    sleepq,        \* sleep_head .. sleep_tail
    sleep_lock,    \* the sleeper that holds the lock across steps, or NULL
    wake_tick,     \* task->wake_tick
    state,         \* task->state
    asked,         \* history: the argument of the task_sleep the task is in, or 0
    since          \* history: the time of that call, or 0

sleepVars == <<time, irq_pending, system_ticks, handler, popped, sleepq, sleep_lock,
               wake_tick, state, asked, since>>
timerVars == <<time, irq_pending, system_ticks>>

\* A fresh boot; the timer starts with a tick of its own.
SleepInit ==
    /\ time = 0 /\ irq_pending = FALSE /\ system_ticks = 0
    /\ handler = "idle" /\ popped = NULL
    /\ sleepq = <<>> /\ sleep_lock = NULL
    /\ wake_tick = [t \in Task |-> 0]
    /\ state = [t \in Task |-> "READY"]
    /\ asked = [t \in Task |-> 0]
    /\ since = [t \in Task |-> 0]

-----------------------------------------------------------------------------
\* timer_ms_to_ticks, and its version without rounding up.
round_down_ticks(ms)  == (ms \div 1000) * Frequency + ((ms % 1000) * Frequency) \div 1000
timer_ms_to_ticks(ms) == (ms \div 1000) * Frequency + ((ms % 1000) * Frequency + 999) \div 1000

\* The deadline of task_sleep: at least one tick away, saturated at UINT64_MAX.
Deadline(now, ms) ==
    LET d == timer_ms_to_ticks(ms)
        delay == IF d = 0 THEN 1 ELSE d
    IN  IF TickMax - now < delay THEN TickMax ELSE now + delay

\* sleep_queue_insert: before the first task with a later deadline.
insert_front(q, w, t) == <<t>> \o q
sleep_queue_insert(q, w, t) ==
    LET later == {i \in 1..Len(q) : w[q[i]] > w[t]}
        at == IF later = {} THEN Len(q) + 1
              ELSE CHOOSE i \in later : \A j \in later : i <= j
    IN  SubSeq(q, 1, at - 1) \o <<t>> \o SubSeq(q, at, Len(q))

\* The test of sleep_queue_tick on the head of the queue.
past_due(t) == wake_tick[t] < system_ticks
expired(t)  == wake_tick[t] <= system_ticks

-----------------------------------------------------------------------------
\* A millisecond passes.  The tick of one period is handled before the next
\* one is due: the kernel keeps interrupts off for far less than a period.
Elapse ==
    /\ time < MaxTime
    /\ (time + 1) % TickMs = 0 => ~irq_pending /\ handler = "idle"
    /\ time' = time + 1
    /\ irq_pending' = (irq_pending \/ (time + 1) % TickMs = 0)
    /\ UNCHANGED <<system_ticks, handler, popped, sleepq, sleep_lock, wake_tick,
                   state, asked, since>>

\* timer_handle_tick: ++system_ticks, then sleep_queue_tick.
timer_handle_tick ==
    /\ irq_pending /\ handler = "idle"
    /\ irq_pending' = FALSE
    /\ system_ticks' = (system_ticks + 1) % (TickMax + 1)
    /\ handler' = "loop"
    /\ UNCHANGED <<time, popped, sleepq, sleep_lock, wake_tick, state, asked, since>>

\* One turn of the loop of sleep_queue_tick under sleep_lock.  Between two turns
\* the lock is free; on the one CPU that schedules no task can use the gap, the
\* model lets them.
sleep_queue_tick ==
    /\ handler = "loop" /\ sleep_lock = NULL
    /\ \/ /\ ~(sleepq # <<>> /\ expired(Head(sleepq)))
          /\ handler' = "idle"
          /\ UNCHANGED <<sleepq, popped>>
       \/ /\ sleepq # <<>> /\ expired(Head(sleepq))
          /\ popped' = Head(sleepq)
          /\ sleepq' = Tail(sleepq)
          /\ handler' = "wake"
    /\ UNCHANGED <<timerVars, sleep_lock, wake_tick, state, asked, since>>

scheduler_wake ==
    /\ handler = "wake"
    /\ state' = IF state[popped] = "SLEEPING" THEN [state EXCEPT ![popped] = "READY"]
                ELSE state
    /\ popped' = NULL
    /\ handler' = "loop"
    /\ asked' = [asked EXCEPT ![popped] = 0]
    /\ since' = [since EXCEPT ![popped] = 0]
    /\ UNCHANGED <<timerVars, sleepq, sleep_lock, wake_tick>>

\* Who holds sleep_lock once the deadline is queued: the task itself, until
\* scheduler_block_current_wait has published its state.
HoldsLock(t) == t

\* task_sleep up to the call of scheduler_block_current_wait: the tick counter
\* is read and the deadline queued in one section of sleep_lock.
task_sleep(t, ms) ==
    /\ state[t] = "READY" /\ sleep_lock = NULL
    /\ wake_tick[t] = 0 /\ time <= LastCall
    /\ wake_tick' = [wake_tick EXCEPT ![t] = Deadline(system_ticks, ms)]
    /\ sleepq' = sleep_queue_insert(sleepq, wake_tick', t)
    /\ sleep_lock' = HoldsLock(t)
    /\ state' = [state EXCEPT ![t] = "INSERTED"]
    /\ asked' = [asked EXCEPT ![t] = ms]
    /\ since' = [since EXCEPT ![t] = time]
    /\ UNCHANGED <<timerVars, handler, popped>>

\* scheduler_block_current_wait(TASK_SLEEPING, &sleep_lock, flags)
scheduler_block_current_wait(t) ==
    /\ state[t] = "INSERTED"
    /\ state' = [state EXCEPT ![t] = "SLEEPING"]
    /\ sleep_lock' = NULL
    /\ UNCHANGED <<timerVars, handler, popped, sleepq, wake_tick, asked, since>>

\* The woken task runs again: current->wake_tick = 0.
Return(t) ==
    /\ state[t] = "READY" /\ wake_tick[t] # 0
    /\ wake_tick' = [wake_tick EXCEPT ![t] = 0]
    /\ UNCHANGED <<timerVars, handler, popped, sleepq, sleep_lock, state, asked, since>>

Handler == timer_handle_tick \/ sleep_queue_tick \/ scheduler_wake
Block   == \E t \in Task : scheduler_block_current_wait(t)

SleepNext ==
    \/ Elapse \/ Handler \/ Block
    \/ \E t \in Task : Return(t) \/ \E ms \in Millis : task_sleep(t, ms)

\* Time passes, interrupts are taken, and a task that holds sleep_lock runs on.
SleepSpec ==
    /\ SleepInit /\ [][SleepNext]_sleepVars
    /\ WF_sleepVars(Elapse) /\ WF_sleepVars(Handler) /\ WF_sleepVars(Block)

-----------------------------------------------------------------------------
\* Types.  "INSERTED" is a RUNNING task inside task_sleep.
TypeOK ==
    /\ time \in Nat /\ irq_pending \in BOOLEAN /\ system_ticks \in 0..TickMax
    /\ handler \in {"idle", "loop", "wake"} /\ popped \in Task \cup {NULL}
    /\ sleepq \in Seq(Task) /\ sleep_lock \in Task \cup {NULL}
    /\ wake_tick \in [Task -> 0..TickMax]
    /\ state \in [Task -> {"READY", "INSERTED", "SLEEPING"}]
    /\ asked \in [Task -> Nat] /\ since \in [Task -> Nat]

\* The queue is ordered by deadline, whatever the delays and the order of the
\* calls: the handler may stop at the first task that is not due.
SortedByDeadline ==
    \A i, j \in 1..Len(sleepq) : i < j => wake_tick[sleepq[i]] <= wake_tick[sleepq[j]]

\* The queue is sorted; a sleeping task is in it, once, or the handler is about to wake it;
\* nobody else is in the queue.  And sleep_queue.h, "Wakes every task whose deadline
\* has expired": once the handler has finished a tick nobody in the queue is due.
SleepersTracked ==
    /\ TypeOK /\ SortedByDeadline
    /\ \A i, j \in 1..Len(sleepq) : sleepq[i] = sleepq[j] => i = j
    /\ \A t \in Task : state[t] \in {"INSERTED", "SLEEPING"} <=>
          (\E i \in 1..Len(sleepq) : sleepq[i] = t) \/ popped = t
    /\ handler = "idle" => \A i \in 1..Len(sleepq) : wake_tick[sleepq[i]] > system_ticks

\* How much too early a task may wake: by less than two ticks, the one it was
\* called in and one that was pending at the call.
AlmostLongEnough ==
    [][\A t \in Task : state[t] = "SLEEPING" /\ state'[t] = "READY" =>
          time - since[t] + 2 * TickMs > asked[t]]_sleepVars

\* Every sleeper wakes.
SleepersWake == \A t \in Task : state[t] = "SLEEPING" ~> state[t] = "READY"
=============================================================================
