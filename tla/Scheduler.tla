----------------------------- MODULE Scheduler -----------------------------
(***************************************************************************)
(* The scheduler core: kernel/scheduler/scheduler.c with the round-robin   *)
(* bands of round_robin.c, the physical context switch, the interrupt      *)
(* entry and exit path that preempts a task, and the hand-over of dead     *)
(* tasks to the reaper (task/task.c).                                      *)
(*                                                                         *)
(* Granularity.  Everything between spin_lock_irqsave(&scheduler_lock) and *)
(* the matching unlock is one step, because interrupts are off and every   *)
(* other CPU spins.  A switch is three steps with the lock held across     *)
(* them: scheduler_schedule publishes the incoming task, arch_context_     *)
(* switch changes the stack, scheduler_finish_switch runs on the new stack *)
(* and releases the lock.  What finish_switch does AFTER the release is a  *)
(* frame on the incoming task's kernel stack, so that an interrupt can     *)
(* arrive before it.                                                       *)
(*                                                                         *)
(* Today's kernel schedules on the boot CPU only (smp.c parks the others). *)
(* The module is parameterised by the set of CPUs the locking is written   *)
(* for; the runs with one CPU are the shipped configuration.               *)
(***************************************************************************)
EXTENDS Integers, Sequences, FiniteSets, SequencesExt

CONSTANTS
    CPU,          \* CPUs that schedule
    KernelTask,   \* kernel threads, the reaper excepted
    UserTask,     \* user threads
    reaper,       \* the reaper thread
    idle,         \* idle[c]: the idle task of CPU c
    boot,         \* boot[c]: the bootstrap context of CPU c
    NULL,
    Policies,     \* number of policy bands; band 1 is policy_order[0]
    Quantum,      \* RR_DEFAULT_QUANTUM_TICKS
    MaxDepth      \* bound on nested frames of one kernel stack

Task   == KernelTask \cup UserTask \cup {reaper}
Ctx    == Task \cup {idle[c] : c \in CPU} \cup {boot[c] : c \in CPU}
Policy == 1..Policies

ASSUME ContextAssumption ==
    /\ idle \in [CPU -> {idle[c] : c \in CPU}]
    /\ boot \in [CPU -> {boot[c] : c \in CPU}]
    /\ \A c, d \in CPU : /\ idle[c] \notin Task /\ boot[c] \notin Task
                         /\ idle[c] # boot[d]
                         /\ idle[c] = idle[d] => c = d
                         /\ boot[c] = boot[d] => c = d
    /\ NULL \notin Ctx
    /\ NULL \notin CPU
    /\ reaper \notin KernelTask \cup UserTask
    /\ KernelTask \cap UserTask = {}

ASSUME BoundAssumption ==
    Policies \in Nat \ {0} /\ Quantum \in Nat \ {0} /\ MaxDepth \in Nat

VARIABLES
    state,          \* task->state; UNUSED before allocation, FREED after kfree
    policy,         \* task->policy
    runq,           \* policy_slots[p]: the band's FIFO of READY tasks
    elapsed_ticks,  \* round_robin_state_t.elapsed_ticks of each band
    scheduler_lock, \* the CPU holding scheduler_lock, or NULL
    current_task,   \* cpu->current_task
    previous_task,  \* cpu->previous_task
    switch_lock_held,       \* cpu->scheduler_switch_lock_held
    switch_flags,           \* cpu->scheduler_switch_flags
    preempt_restore_flags,  \* cpu->scheduler_preempt_restore_flags
    reschedule_pending,     \* cpu->reschedule_pending
    preemption_enabled,     \* cpu->preemption_enabled
    stack,          \* the context whose kernel stack the CPU executes on
    intr,           \* EFLAGS.IF of the CPU
    phase,          \* where in a switch the CPU is
    kstack,         \* the frames of each context's kernel stack
    cleanup_head,   \* the zombie the reaper takes next, or NULL
    cleanup_tail,   \* the zombie pushed last, or NULL
    cleanup_next,   \* task->cleanup_next: the queue is threaded through its zombies
    cleanup_pending,\* zombies pushed and not yet completely destroyed
    requeued,       \* history: a zombie was pushed while it was in the queue
    cut_off,        \* history: zombies a push left unreachable from cleanup_head
    cleanup_count,  \* cleanup_semaphore.count
    reaper_waits    \* the reaper is in cleanup_semaphore.waiters

runVars    == <<state, policy, runq, elapsed_ticks>>
flagVars   == <<switch_flags, preempt_restore_flags>>
handVars   == <<scheduler_lock, current_task, previous_task, switch_lock_held,
                stack, phase>>
cpuVars    == <<reschedule_pending, preemption_enabled>>
queueVars  == <<cleanup_head, cleanup_tail, cleanup_next, cleanup_pending,
                requeued, cut_off>>
cleanVars  == <<queueVars, cleanup_count, reaper_waits>>
vars == <<runVars, flagVars, handVars, cpuVars, intr, kstack, cleanVars>>

TaskState == {"UNUSED", "NEW", "READY", "RUNNING", "BLOCKED", "SLEEPING",
              "ZOMBIE", "FREED"}
\* EFLAGS words: bit 1 is always set, so a saved word is never 0.
Flags == {"zero", "if0", "if1"}
Phase == {"run", "hlt", "switch", "finish", "halted"}

\* A frame of a kernel stack: an interrupt or system call being handled, one
\* on its way out, or a call the context still has to make when it gets there.
Frame == [op : {"irq", "exit", "syscall", "iret", "signal", "yield", "dying"},
          task : {NULL}]
         \cup [op : {"finish"}, task : Ctx]
         \cup [op : {"wake"}, task : {reaper}]
F(op)        == [op |-> op, task |-> NULL]
FOf(op, t)   == [op |-> op, task |-> t]

-----------------------------------------------------------------------------
\* The round-robin band operations (round_robin.c)
rr_enqueue(q, t)  == [q EXCEPT ![policy[t]] = Append(@, t)]
rr_dequeue(q, t)  ==
    LET s == q[policy[t]]
        i == CHOOSE k \in 1..Len(s) : s[k] = t
    IN  [q EXCEPT ![policy[t]] = RemoveAt(s, i)]

\* p is the band scheduler_pick_next takes its task from: the first nonempty
\* one in policy_order, or 0 when every band is empty and idle is next.
PickBand(q, p) ==
    /\ \A r \in Policy : (p = 0 \/ r < p) => q[r] = <<>>
    /\ p # 0 => q[p] # <<>>
scheduler_pick_next(c, q, p) == IF p = 0 THEN idle[c] ELSE Head(q[p])
\* rr_pick_next dequeues the task it returns.
AfterPick(q, p) == IF p = 0 THEN q ELSE [q EXCEPT ![p] = Tail(@)]

\* rr_tick: the band's quantum is used up.
rr_tick(p)  == elapsed_ticks[p] + 1 >= Quantum

\* scheduler_notify_switch_in / rr_on_switch_in: the band's quantum restarts.
NotifySwitchIn(c, t) ==
    elapsed_ticks' = IF t = idle[c] THEN elapsed_ticks
                     ELSE [elapsed_ticks EXCEPT ![policy[t]] = 0]

irqsave(c) == IF intr[c] THEN "if1" ELSE "if0"
Push(t, f) == [kstack EXCEPT ![t] = Append(@, f)]
Pop(t)     == [kstack EXCEPT ![t] = SubSeq(@, 1, Len(@) - 1)]
Become(t, f) == [kstack EXCEPT ![t][Len(kstack[t])] = f]
Top(t)     == IF kstack[t] = <<>> THEN "body" ELSE kstack[t][Len(kstack[t])].op
TopTask(t) == kstack[t][Len(kstack[t])].task

-----------------------------------------------------------------------------
\* Where the CPU is, and what the context it executes may call.
Cur(c)       == current_task[c]
Executing(c) == phase[c] = "run"
LockFree     == scheduler_lock = NULL
\* Code of a kernel thread, of the bootstrap context, or of a system call.
InKernel(c) ==
    /\ Executing(c)
    /\ \/ Top(Cur(c)) = "body" /\ Cur(c) \in KernelTask \cup {boot[c]}
       \/ Top(Cur(c)) = "syscall"

Init ==
    /\ state = [t \in Ctx |-> IF t = reaper THEN "READY"
                              ELSE IF t \in Task THEN "UNUSED"
                              ELSE IF \E c \in CPU : t = idle[c] THEN "READY"
                              ELSE "RUNNING"]
    /\ policy = [t \in Ctx |-> 1]
    /\ runq = [p \in Policy |-> IF p = 1 THEN <<reaper>> ELSE <<>>]
    /\ elapsed_ticks = [p \in Policy |-> 0]
    /\ scheduler_lock = NULL
    /\ current_task = boot
    /\ previous_task = [c \in CPU |-> NULL]
    /\ switch_lock_held = [c \in CPU |-> FALSE]
    /\ switch_flags = [c \in CPU |-> "zero"]
    /\ preempt_restore_flags = [c \in CPU |-> "zero"]
    /\ reschedule_pending = [c \in CPU |-> FALSE]
    /\ preemption_enabled = [c \in CPU |-> FALSE]
    /\ stack = boot
    /\ intr = [c \in CPU |-> FALSE]
    /\ phase = [c \in CPU |-> "run"]
    /\ kstack = [t \in Ctx |-> <<>>]
    /\ cleanup_head = NULL
    /\ cleanup_tail = NULL
    /\ cleanup_next = [t \in Ctx |-> NULL]
    /\ cleanup_pending = 0
    /\ requeued = FALSE
    /\ cut_off = {}
    /\ cleanup_count = 0
    /\ reaper_waits = FALSE

-----------------------------------------------------------------------------
(* Switching                                                               *)

\* Only a task that still runs goes back to its band.
RequeueAny(t) == t \in Task
Requeues(t)   == t \in Task /\ state[t] = "RUNNING"

\* scheduler_lock is not released here but by the incoming context.
HoldLock(c) == scheduler_lock' = c

\* The common tail of scheduler_schedule and scheduler_block_current_wait from
\* the choice of a next task that differs from current: the lock stays held,
\* flags is the interrupt state the incoming task will restore.
BeginSwitch(c, nxt, flags) ==
    /\ NotifySwitchIn(c, nxt)
    /\ previous_task' = [previous_task EXCEPT ![c] = Cur(c)]
    /\ switch_flags' = [switch_flags EXCEPT ![c] = flags]
    /\ switch_lock_held' = [switch_lock_held EXCEPT ![c] = TRUE]
    /\ current_task' = [current_task EXCEPT ![c] = nxt]
    /\ reschedule_pending' = [reschedule_pending EXCEPT ![c] = FALSE]
    /\ HoldLock(c)
    /\ phase' = [phase EXCEPT ![c] = "switch"]
    /\ intr' = [intr EXCEPT ![c] = FALSE]
    /\ UNCHANGED <<policy, stack, preemption_enabled>>

\* scheduler_schedule().  flags is the caller's saved EFLAGS, prf the value of
\* scheduler_preempt_restore_flags on entry, ks the kernel stacks to leave.
scheduler_schedule(c, flags, prf, ks) ==
    LET cur == Cur(c)
        requeue == Requeues(cur)
        q   == IF requeue THEN rr_enqueue(runq, cur) ELSE runq
        st  == IF requeue THEN [state EXCEPT ![cur] = "READY"] ELSE state
    IN  \E p \in 0..Policies : LET nxt == scheduler_pick_next(c, q, p) IN
        /\ LockFree
        /\ PickBand(q, p)
        /\ runq' = AfterPick(q, p)
        /\ state' = [st EXCEPT ![nxt] = "RUNNING"]
        /\ kstack' = ks
        /\ UNCHANGED cleanVars
        /\ \/ /\ nxt = cur          \* early return: still the same task
              /\ NotifySwitchIn(c, nxt)
              /\ reschedule_pending' = [reschedule_pending EXCEPT ![c] = FALSE]
              /\ preempt_restore_flags' = [preempt_restore_flags EXCEPT ![c] = prf]
              /\ intr' = [intr EXCEPT ![c] = (flags = "if1")]
              /\ UNCHANGED <<policy, handVars, switch_flags, preemption_enabled>>
           \/ /\ nxt # cur
              /\ IF ~switch_lock_held[c] /\ switch_flags[c] # "zero"
                   THEN /\ BeginSwitch(c, nxt, switch_flags[c])
                        /\ preempt_restore_flags' = [preempt_restore_flags EXCEPT ![c] = prf]
                   ELSE /\ BeginSwitch(c, nxt, IF prf # "zero" THEN prf ELSE flags)
                        /\ preempt_restore_flags' = [preempt_restore_flags EXCEPT ![c] = "zero"]

\* arch_context_switch: the CPU leaves the old stack for the new one.
arch_context_switch(c) ==
    /\ phase[c] = "switch"
    /\ stack' = [stack EXCEPT ![c] = Cur(c)]
    /\ phase' = [phase EXCEPT ![c] = "finish"]
    /\ UNCHANGED <<runVars, flagVars, scheduler_lock, current_task, previous_task,
                   switch_lock_held, cpuVars, intr, kstack, cleanVars>>

\* What the switch left in cpu_t for this moment is taken out of it.
ClearHalf(c) ==
    /\ previous_task' = [previous_task EXCEPT ![c] = NULL]
    /\ switch_lock_held' = [switch_lock_held EXCEPT ![c] = FALSE]
    /\ UNCHANGED switch_flags
ClearHandoff(c) ==
    /\ previous_task' = [previous_task EXCEPT ![c] = NULL]
    /\ switch_lock_held' = [switch_lock_held EXCEPT ![c] = FALSE]
    /\ switch_flags' = [switch_flags EXCEPT ![c] = "zero"]

\* scheduler_finish_switch up to the release of the lock.  Its last call,
\* task_internal_finish_switch(previous), is left as a frame of the incoming
\* task, which interrupts may now precede.
scheduler_finish_switch(c) ==
    /\ phase[c] = "finish"
    /\ kstack' = Push(Cur(c), FOf("finish", previous_task[c]))
    /\ ClearHandoff(c)
    /\ scheduler_lock' = NULL
    /\ intr' = [intr EXCEPT ![c] = (switch_flags[c] = "if1")]
    /\ phase' = [phase EXCEPT ![c] = "run"]
    /\ UNCHANGED <<runVars, preempt_restore_flags, current_task, stack, cpuVars,
                   cleanVars>>

\* scheduler_block_current_wait(): the caller is already in a wait or sleep
\* queue; its state is published and the next task chosen under the lock.
scheduler_block_current_wait(c, block_state) ==
    /\ LockFree
    /\ state[Cur(c)] = "RUNNING"
    /\ \E p \in 0..Policies : LET nxt == scheduler_pick_next(c, runq, p) IN
           /\ PickBand(runq, p)
           /\ nxt # Cur(c)
           /\ runq' = AfterPick(runq, p)
           /\ state' = [state EXCEPT ![Cur(c)] = block_state, ![nxt] = "RUNNING"]
           /\ BeginSwitch(c, nxt, irqsave(c))
    /\ UNCHANGED <<preempt_restore_flags, kstack>>

-----------------------------------------------------------------------------
(* The tail of scheduler_finish_switch, executed by the incoming task       *)

\* The zombies the reaper can reach: the least set with cleanup_head in it that
\* follows cleanup_next.
FollowsNext(S) ==
    /\ cleanup_head # NULL => cleanup_head \in S
    /\ \A t \in S : cleanup_next[t] # NULL => cleanup_next[t] \in S
Queued == {t \in Task : \A S \in SUBSET Task : FollowsNext(S) => t \in S}

\* cleanup_queue_push(): z becomes the last, whether it is in the queue or not.
\* If it is, the link that led from it to the zombies behind it is gone.
LinkLast(z) == IF cleanup_tail = NULL THEN [cleanup_next EXCEPT ![z] = NULL]
               ELSE [cleanup_next EXCEPT ![z] = NULL, ![cleanup_tail] = z]
cleanup_queue_push(z) ==
    /\ cleanup_next' = LinkLast(z)
    /\ cleanup_head' = IF cleanup_tail = NULL THEN z ELSE cleanup_head
    /\ cleanup_tail' = z
    /\ cleanup_pending' = cleanup_pending + 1
    /\ requeued' = (requeued \/ z \in Queued)
    /\ cut_off' = (cut_off \cup Queued) \ Queued'

\* A pop that leaves cleanup_tail on the last zombie it takes.
pop_keeps_tail(destroyed) ==
    /\ cleanup_head' = cleanup_next[cleanup_head]
    /\ cleanup_next' = [cleanup_next EXCEPT ![cleanup_head] = NULL]
    /\ cleanup_pending' = IF destroyed THEN cleanup_pending - 1 ELSE cleanup_pending
    /\ UNCHANGED <<cleanup_tail, requeued, cut_off>>

\* cleanup_queue_pop() of a nonempty queue; destroyed: the task it returned is
\* completely destroyed, and only then no longer pending.
cleanup_queue_pop(destroyed) ==
    /\ cleanup_head' = cleanup_next[cleanup_head]
    /\ cleanup_tail' = IF cleanup_next[cleanup_head] = NULL THEN NULL ELSE cleanup_tail
    /\ cleanup_next' = [cleanup_next EXCEPT ![cleanup_head] = NULL]
    /\ cleanup_pending' = IF destroyed THEN cleanup_pending - 1 ELSE cleanup_pending
    /\ UNCHANGED <<requeued, cut_off>>

\* task_internal_finish_switch: reads previous->state now, after the lock was
\* released.  previous may have been freed by then; what the freed block holds
\* is not defined, so either outcome of the test is possible.
task_internal_finish_switch(c) ==
    LET t == Cur(c)
        z == TopTask(t)
    IN  /\ Executing(c) /\ Top(t) = "finish"
        /\ \/ /\ state[z] \in {"ZOMBIE", "FREED"}
              /\ cleanup_queue_push(z)
              /\ kstack' = Become(t, F("signal"))
           \/ /\ state[z] # "ZOMBIE"
              /\ kstack' = Pop(t)
              /\ UNCHANGED queueVars
        /\ UNCHANGED <<runVars, flagVars, handVars, cpuVars, intr, cleanup_count,
                       reaper_waits>>

\* semaphore_signal(&cleanup_semaphore): one permit; the waiter it pops is
\* woken after the semaphore's own lock is released.
semaphore_signal(c) ==
    LET t == Cur(c)
    IN  /\ Executing(c) /\ Top(t) = "signal"
        /\ cleanup_count' = cleanup_count + 1
        /\ reaper_waits' = FALSE
        /\ kstack' = IF reaper_waits THEN Become(t, FOf("wake", reaper)) ELSE Pop(t)
        /\ UNCHANGED <<runVars, flagVars, handVars, cpuVars, intr, queueVars>>

-----------------------------------------------------------------------------
(* Making tasks runnable                                                   *)

WakeEffect(c, t) ==
    /\ LockFree
    /\ IF state[t] \in {"BLOCKED", "SLEEPING"}
         THEN /\ state' = [state EXCEPT ![t] = "READY"]
              /\ runq' = rr_enqueue(runq, t)
              /\ reschedule_pending' = [reschedule_pending EXCEPT ![c] = TRUE]
         ELSE UNCHANGED <<state, runq, reschedule_pending>>
    /\ UNCHANGED <<policy, elapsed_ticks, flagVars, handVars, preemption_enabled,
                   intr, cleanVars>>

\* scheduler_wake() from kernel code or from an interrupt handler, for a task
\* its caller has just popped from a wait or sleep queue.
scheduler_wake(c, t) ==
    /\ InKernel(c) \/ (Executing(c) /\ Top(Cur(c)) = "irq")
    /\ state[t] \in {"BLOCKED", "SLEEPING"}
    /\ WakeEffect(c, t)
    /\ UNCHANGED kstack

\* The scheduler_wake() call that ends semaphore_signal.
scheduler_wake_reaper(c) ==
    /\ Executing(c) /\ Top(Cur(c)) = "wake"
    /\ WakeEffect(c, TopTask(Cur(c)))
    /\ kstack' = Pop(Cur(c))

\* allocate_task().  A user thread starts in the kernel and enters user mode
\* through iret.
allocate_task(c, t, p) ==
    /\ InKernel(c)
    /\ state[t] = "UNUSED"
    /\ state' = [state EXCEPT ![t] = "NEW"]
    /\ policy' = [policy EXCEPT ![t] = p]
    /\ kstack' = [kstack EXCEPT ![t] = IF t \in UserTask THEN <<F("iret")>> ELSE <<>>]
    /\ UNCHANGED <<runq, elapsed_ticks, flagVars, handVars, cpuVars, intr, cleanVars>>

\* destroy_unpublished_task()
destroy_unpublished_task(c, t) ==
    /\ InKernel(c)
    /\ state[t] = "NEW"
    /\ state' = [state EXCEPT ![t] = "FREED"]
    /\ UNCHANGED <<policy, runq, elapsed_ticks, flagVars, handVars, cpuVars, intr,
                   kstack, cleanVars>>

\* task_publish() / scheduler_make_ready()
scheduler_make_ready(c, t) ==
    /\ InKernel(c) /\ LockFree
    /\ state[t] = "NEW"
    /\ state' = [state EXCEPT ![t] = "READY"]
    /\ runq' = rr_enqueue(runq, t)
    /\ UNCHANGED <<policy, elapsed_ticks, flagVars, handVars, cpuVars, intr,
                   kstack, cleanVars>>

\* scheduler_remove()
scheduler_remove(c, t) ==
    /\ InKernel(c) /\ LockFree
    /\ state[t] = "READY"
    /\ runq' = rr_dequeue(runq, t)
    /\ state' = [state EXCEPT ![t] = "NEW"]
    /\ UNCHANGED <<policy, elapsed_ticks, flagVars, handVars, cpuVars, intr,
                   kstack, cleanVars>>

\* scheduler_set_policy(): a READY task moves to the tail of its new band.
StayInBand(t, p) == runq
MoveBand(t, p) == IF state[t] = "READY"
                    THEN [rr_dequeue(runq, t) EXCEPT ![p] = Append(@, t)]
                    ELSE runq
scheduler_set_policy(c, t, p) ==
    /\ InKernel(c) /\ LockFree
    /\ state[t] \notin {"UNUSED", "FREED"}
    /\ policy[t] # p
    /\ runq' = MoveBand(t, p)
    /\ policy' = [policy EXCEPT ![t] = p]
    /\ reschedule_pending' = [reschedule_pending EXCEPT ![c] = TRUE]
    /\ UNCHANGED <<state, elapsed_ticks, flagVars, handVars, preemption_enabled,
                   intr, kstack, cleanVars>>

-----------------------------------------------------------------------------
(* Interrupts and system calls                                             *)

\* An interrupt gate: taken only with IF set; the CPU clears IF.  A halted
\* idle task is woken by it.
irq(c) ==
    /\ phase[c] \in {"run", "hlt"}
    /\ intr[c]
    /\ Len(kstack[Cur(c)]) < MaxDepth
    /\ kstack' = Push(Cur(c), F("irq"))
    /\ intr' = [intr EXCEPT ![c] = FALSE]
    /\ phase' = [phase EXCEPT ![c] = "run"]
    /\ UNCHANGED <<runVars, flagVars, scheduler_lock, current_task, previous_task,
                   switch_lock_held, stack, cpuVars, cleanVars>>

\* scheduler_tick(), the last thing the timer handler does.
scheduler_tick(c) ==
    LET cur == Cur(c)
        p == policy[cur]
        expired == rr_tick(p)
    IN  /\ Executing(c) /\ Top(cur) = "irq"
        /\ kstack' = Become(cur, F("exit"))
        /\ IF cur = idle[c] \/ state[cur] # "RUNNING"
             THEN UNCHANGED <<elapsed_ticks, reschedule_pending>>
             ELSE /\ LockFree
                  /\ elapsed_ticks' = [elapsed_ticks EXCEPT
                                         ![p] = IF expired THEN 0 ELSE @ + 1]
                  /\ reschedule_pending' = [reschedule_pending EXCEPT
                                              ![c] = @ \/ expired]
        /\ UNCHANGED <<state, policy, runq, flagVars, handVars, preemption_enabled,
                       intr, cleanVars>>

\* lapic_reschedule_handler(): the reschedule IPI of another CPU.
lapic_reschedule_handler(c) ==
    /\ \E d \in CPU : d # c
    /\ Executing(c) /\ Top(Cur(c)) = "irq"
    /\ kstack' = Become(Cur(c), F("exit"))
    /\ reschedule_pending' = [reschedule_pending EXCEPT ![c] = TRUE]
    /\ UNCHANGED <<runVars, flagVars, handVars, preemption_enabled, intr, cleanVars>>

\* scheduler_handle_safe_preemption_point(frame->eflags), on the way out of a
\* device interrupt or a system call: the interrupted code had IF set.
safe_preemption_point(c) ==
    LET cur == Cur(c)
        ks  == Become(cur, F("iret"))
    IN  /\ Executing(c) /\ Top(cur) \in {"irq", "exit", "syscall"}
        /\ IF preemption_enabled[c] /\ reschedule_pending[c]
             THEN scheduler_schedule(c, irqsave(c), "if1", ks)
             ELSE /\ kstack' = ks
                  /\ UNCHANGED <<runVars, flagVars, handVars, cpuVars, intr,
                                 cleanVars>>

iret(c) ==
    /\ Executing(c) /\ Top(Cur(c)) = "iret"
    /\ kstack' = Pop(Cur(c))
    /\ intr' = [intr EXCEPT ![c] = TRUE]
    /\ UNCHANGED <<runVars, flagVars, handVars, cpuVars, cleanVars>>

\* int 0x80 from user mode, through an interrupt gate.
syscall(c) ==
    /\ Executing(c) /\ Top(Cur(c)) = "body" /\ Cur(c) \in UserTask
    /\ kstack' = Push(Cur(c), F("syscall"))
    /\ intr' = [intr EXCEPT ![c] = FALSE]
    /\ UNCHANGED <<runVars, flagVars, handVars, cpuVars, cleanVars>>

-----------------------------------------------------------------------------
(* What the contexts do                                                    *)

\* scheduler_enable_preemption(); interrupt_enable(): the end of kernel_main.
kernel_main_enable(c) ==
    /\ Executing(c) /\ Cur(c) = boot[c] /\ Top(boot[c]) = "body"
    /\ ~preemption_enabled[c]
    /\ preemption_enabled' = [preemption_enabled EXCEPT ![c] = TRUE]
    /\ intr' = [intr EXCEPT ![c] = TRUE]
    /\ UNCHANGED <<runVars, flagVars, handVars, reschedule_pending, kstack, cleanVars>>

\* scheduler_yield(), from kernel code or as the yield an idle or reaper loop
\* makes at its end.
scheduler_yield(c) ==
    \/ /\ InKernel(c)
       /\ Cur(c) = boot[c] => preemption_enabled[c]
       /\ scheduler_schedule(c, irqsave(c), preempt_restore_flags[c], kstack)
    \/ /\ Executing(c) /\ Top(Cur(c)) = "yield"
       /\ scheduler_schedule(c, irqsave(c), preempt_restore_flags[c], Pop(Cur(c)))

\* A task blocks on a wait queue or goes to sleep.
block(c) ==
    /\ InKernel(c) /\ Cur(c) \in Task
    /\ \E s \in {"BLOCKED", "SLEEPING"} : scheduler_block_current_wait(c, s)
    /\ UNCHANGED cleanVars

\* task_exit(): interrupts go off, the state is published, and then the task
\* leaves its stack for good.
task_exit(c) ==
    /\ InKernel(c) /\ Cur(c) \in KernelTask \cup UserTask
    /\ state' = [state EXCEPT ![Cur(c)] = "ZOMBIE"]
    /\ intr' = [intr EXCEPT ![c] = FALSE]
    /\ kstack' = Push(Cur(c), F("dying"))
    /\ UNCHANGED <<policy, runq, elapsed_ticks, flagVars, handVars, cpuVars, cleanVars>>

task_exit_schedule(c) ==
    /\ Executing(c) /\ Top(Cur(c)) = "dying"
    /\ scheduler_schedule(c, irqsave(c), preempt_restore_flags[c], kstack)

\* idle_thread: sti; hlt; scheduler_yield().
idle_hlt(c) ==
    /\ Executing(c) /\ Cur(c) = idle[c] /\ Top(idle[c]) = "body"
    /\ kstack' = Push(idle[c], F("yield"))
    /\ intr' = [intr EXCEPT ![c] = TRUE]
    /\ phase' = [phase EXCEPT ![c] = "hlt"]
    /\ UNCHANGED <<runVars, flagVars, scheduler_lock, current_task, previous_task,
                   switch_lock_held, stack, cpuVars, cleanVars>>

\* task_reaper_thread: with a permit, destroy the zombie at the head, then yield;
\* a permit that finds the queue empty is used up.
\* An entry that is not a zombie with its address space still attached (one
\* already destroyed) stops the machine in task_halt_forever().
reaper_destroy(c) ==
    LET z == cleanup_head
        good == z \in Task \ {reaper} /\ state[z] = "ZOMBIE"
    IN  /\ Executing(c) /\ Cur(c) = reaper /\ Top(reaper) = "body"
        /\ cleanup_count > 0
        /\ cleanup_count' = cleanup_count - 1
        /\ IF z = NULL
             THEN UNCHANGED <<state, queueVars, kstack, phase>>
             ELSE /\ cleanup_queue_pop(good)
                  /\ IF good
                       THEN /\ state' = [state EXCEPT ![z] = "FREED"]
                            /\ kstack' = Push(reaper, F("yield"))
                            /\ UNCHANGED phase
                       ELSE /\ phase' = [phase EXCEPT ![c] = "halted"]
                            /\ UNCHANGED <<state, kstack>>
        /\ UNCHANGED <<policy, runq, elapsed_ticks, flagVars, scheduler_lock,
                       current_task, previous_task, switch_lock_held, stack,
                       cpuVars, intr, reaper_waits>>

\* task_reaper_thread without a permit: semaphore_wait blocks it.
reaper_block(c) ==
    /\ Executing(c) /\ Cur(c) = reaper /\ Top(reaper) = "body"
    /\ cleanup_count = 0
    /\ reaper_waits' = TRUE
    /\ scheduler_block_current_wait(c, "BLOCKED")
    /\ UNCHANGED <<queueVars, cleanup_count>>

-----------------------------------------------------------------------------
Switching(c) == arch_context_switch(c) \/ scheduler_finish_switch(c)
FinishTail(c) == task_internal_finish_switch(c) \/ semaphore_signal(c)
                    \/ scheduler_wake_reaper(c)
Interrupt(c) == irq(c) \/ scheduler_tick(c) \/ safe_preemption_point(c) \/ iret(c)
Program(c) == syscall(c) \/ kernel_main_enable(c) \/ scheduler_yield(c) \/ block(c)
                    \/ task_exit(c) \/ task_exit_schedule(c) \/ idle_hlt(c)
                    \/ reaper_destroy(c) \/ reaper_block(c)
Call(c, t) == \/ scheduler_wake(c, t) \/ scheduler_make_ready(c, t)
              \/ scheduler_remove(c, t) \/ destroy_unpublished_task(c, t)
              \/ \E p \in Policy : allocate_task(c, t, p) \/ scheduler_set_policy(c, t, p)

\* A step a CPU takes by itself, and the one another CPU makes it take.
Step(c) == \/ Switching(c) \/ FinishTail(c) \/ Interrupt(c) \/ Program(c)
           \/ \E t \in KernelTask \cup UserTask : Call(c, t)

Next == \E c \in CPU : Step(c) \/ lapic_reschedule_handler(c)

Spec == Init /\ [][Next]_vars

-----------------------------------------------------------------------------
(* Properties                                                              *)

\* Types; elapsed_ticks of round_robin_tick never reaches the quantum.
TypeOK ==
    /\ state \in [Ctx -> TaskState]
    /\ policy \in [Ctx -> Policy]
    /\ runq \in [Policy -> Seq(Task)]
    /\ elapsed_ticks \in [Policy -> 0..(Quantum - 1)]
    /\ scheduler_lock \in CPU \cup {NULL}
    /\ current_task \in [CPU -> Ctx]
    /\ previous_task \in [CPU -> Ctx \cup {NULL}]
    /\ switch_lock_held \in [CPU -> BOOLEAN]
    /\ switch_flags \in [CPU -> Flags]
    /\ preempt_restore_flags \in [CPU -> Flags]
    /\ reschedule_pending \in [CPU -> BOOLEAN]
    /\ preemption_enabled \in [CPU -> BOOLEAN]
    /\ stack \in [CPU -> Ctx]
    /\ intr \in [CPU -> BOOLEAN]
    /\ phase \in [CPU -> Phase]
    /\ kstack \in [Ctx -> Seq(Frame)]
    /\ cleanup_head \in Ctx \cup {NULL}
    /\ cleanup_tail \in Ctx \cup {NULL}
    /\ cleanup_next \in [Ctx -> Ctx \cup {NULL}]
    /\ cleanup_pending \in Int   \* never below the permits: ReaperPermits
    /\ requeued \in BOOLEAN
    /\ cut_off \subseteq Task
    /\ cleanup_count \in Nat
    /\ reaper_waits \in BOOLEAN

\* The run queues and task->state agree: a task is READY exactly when it is in
\* the band of its policy, and it is there once.  A task in two bands, twice in
\* one, or READY and in none would be run twice or never.
QueuedAreReady(st, pol, q) ==
    \A p \in Policy : \A i \in 1..Len(q[p]) :
        st[q[p][i]] = "READY" /\ pol[q[p][i]] = p
QueuedOnce(q) ==
    \A p \in Policy : \A i, j \in 1..Len(q[p]) : q[p][i] = q[p][j] => i = j
ReadyAreQueued(st, pol, q) ==
    \A t \in Task : st[t] = "READY" => \E i \in 1..Len(q[pol[t]]) : q[pol[t]][i] = t
QueuesAgree(st, pol, q) ==
    QueuedAreReady(st, pol, q) /\ QueuedOnce(q) /\ ReadyAreQueued(st, pol, q)
RunQueueConsistent == QueuesAgree(state, policy, runq)

\* What a CPU's current_task says: its own idle or bootstrap context or a task
\* that is running or dying, the current task of no other CPU; and the stack the
\* CPU is on is that task's, but for the moment of the physical switch, when it
\* is still the stack of the previous task, which no CPU may have picked yet.
CurrentExact ==
    \A c \in CPU :
        /\ current_task[c] \in Task \cup {idle[c], boot[c]}
        /\ current_task[c] \in Task => state[current_task[c]] \in {"RUNNING", "ZOMBIE", "FREED"}
        /\ phase[c] # "switch" => stack[c] = current_task[c]
        /\ phase[c] = "switch" => /\ stack[c] = previous_task[c]
                                  /\ \A d \in CPU : current_task[d] # previous_task[c]
        /\ \A d \in CPU : c # d => current_task[c] # current_task[d]

\* No two CPUs ever execute on one kernel stack, although a task that yields is
\* back in a global run queue before its CPU has left its stack: the lock held
\* across arch_context_switch is what keeps the others away.
StackExclusive == \A c, d \in CPU : c # d => stack[c] # stack[d]

\* The CPU-local hand-over fields are in use exactly while a switch is under
\* way, and then by the CPU that holds scheduler_lock: nothing is left over
\* that the next switch of this CPU could take for its own.
HandoffExact ==
    \A c \in CPU :
        /\ phase[c] \in {"switch", "finish"} <=> scheduler_lock = c
        /\ switch_lock_held[c] <=> scheduler_lock = c
        /\ switch_flags[c] # "zero" <=> scheduler_lock = c
        /\ previous_task[c] # NULL <=> scheduler_lock = c
        /\ scheduler_lock = c => ~intr[c]

\* A switch hands a CPU over: what it leaves in the CPU's fields is for the incoming
\* task alone, and the stack it leaves is nobody else's until it has been left
\* (scheduler_schedule, arch_context_switch, scheduler_finish_switch).
SwitchExact == HandoffExact /\ StackExclusive

\* A task that exits is never forgotten: until it is destroyed it is current,
\* being switched away from, in a finish_switch still to run, or reachable from
\* cleanup_head; but for the zombies a second push of one before them cut off, and
\* there are none of those before such a push.
Frames(t) == {kstack[t][i] : i \in 1..Len(kstack[t])}
ZombieTracked ==
    /\ \A z \in Task : state[z] = "ZOMBIE" =>
          \/ \E c \in CPU : z = current_task[c] \/ z = previous_task[c]
          \/ \E t \in Ctx : FOf("finish", z) \in Frames(t)
          \/ z \in Queued \cup cut_off
    /\ ~requeued => cut_off = {}

\* A task that has exited is never made runnable again: not by the requeue in
\* the scheduler_schedule call it leaves through, not by a wake-up.
DeadStaysDead ==
    [][\A t \in Task : state[t] = "ZOMBIE" => state'[t] \in {"ZOMBIE", "FREED"}]_vars

\* The permits of cleanup_semaphore, counting the signals preempted finish_switches
\* still owe, never fall short of the queued zombies; as long as no zombie was pushed
\* twice there is one for each, and always at most one for each zombie pending.  The
\* reaper sleeps only when there is no permit, unless its wake-up is already under way.
OwedSignals == UNION {{t} \X {i \in 1..Len(kstack[t]) : kstack[t][i].op = "signal"} : t \in Ctx}
Permits == cleanup_count + Cardinality(OwedSignals)
ReaperPermits ==
    /\ LET queued == Cardinality(Queued)
       IN  /\ queued <= Permits /\ Permits <= cleanup_pending
           /\ ~requeued => queued = Permits
    /\ reaper_waits => cleanup_count = 0
    /\ state[reaper] = "BLOCKED" =>
          reaper_waits \/ \E t \in Ctx : FOf("wake", reaper) \in Frames(t)

\* Between exit and destruction no zombie is lost on its way to the reaper, other
\* than behind one pushed twice; and the reaper does not sleep through one.
ReaperSeesAll == ZombieTracked /\ ReaperPermits

\* task.c, "Number of zombies that have been queued but not completely
\* destroyed": a zombie is handed to the reaper once, so what is pending is what is
\* in the queue and still to be destroyed.
HandedOverOnce ==
    cleanup_pending = Cardinality({z \in Queued : state[z] = "ZOMBIE"})

\* The reaper's promise of task.c, "One semaphore permit is produced for every zombie
\* inserted into the cleanup queue": no zombie drops out of the queue alive.
NoneCutOff == cut_off = {}
=============================================================================
