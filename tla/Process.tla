------------------------------ MODULE Process ------------------------------
(***************************************************************************)
(* The life of user processes: process/process.c (registry, reference      *)
(* counts, children, threads, waitpid), the reference protocol of          *)
(* process/spawn.c and process/user_thread.c, task_bind_process and the    *)
(* reaper of task/task.c, and the reference counts and stack slots of      *)
(* memory/address_space.c.                                                 *)
(*                                                                         *)
(* Every critical section is one step.  What a caller still has to do is   *)
(* kept in todo[a], a list of frames; a frame that carries a reference to  *)
(* a process or to its address space is where that reference is counted.   *)
(* An address space is named by the process created for it.                *)
(***************************************************************************)
EXTENDS Integers, Sequences, FiniteSets

CONSTANTS
    Task,      \* task_t objects of user threads
    NoTask,
    Spawner,   \* kernel threads that call process_spawn_user
    reaper,
    MaxPid,    \* bound: process ids that are handed out
    Status,    \* exit statuses
    Slots      \* ADDRESS_SPACE_USER_STACK_SLOT_COUNT

ASSUME ProcessAssumption ==
    /\ NoTask \notin Task /\ Task \cap Spawner = {}
    /\ reaper \notin Task \cup Spawner
    /\ IsFiniteSet(Task) /\ IsFiniteSet(Spawner)
    /\ MaxPid \in Nat \ {0} /\ Slots \in Nat \ {0} /\ 0 \in Status

Pid    == 1..MaxPid
kernel_process == 1
Actor  == Task \cup Spawner \cup {reaper}
Frame  == [op : {"load", "create", "context", "acquire", "retain", "add", "release", "space",
                 "free", "task", "bind", "attach", "publish", "exit", "detach", "reaped"},
           p : Pid, t : Task \cup {NoTask}]
F(op, p)     == [op |-> op, p |-> p, t |-> NoTask]
FT(op, p, t) == [op |-> op, p |-> p, t |-> t]

VARIABLES
    state, reference_count, live_threads, parent_id, children, exit_status,
    next_process_id, live_processes,
    space_refs,    \* reference_count of the address space
    stack_slots,   \* number of bits set in user_stack_slot_bitmap
    tstate,        \* "UNUSED", "NEW", "ALIVE" or "ZOMBIE"
    tproc,         \* task->process, or 0
    tspace,        \* task->address_space, or 0
    realtime,      \* the tasks, not dead, of SCHED_POLICY_REALTIME; the others are NORMAL
    held,          \* what a caller of spawn, or a new task, has not given back yet
    todo,
    panic          \* "none", or why the machine has stopped

procVars  == <<state, reference_count, live_threads, parent_id, children, exit_status>>
regVars   == <<next_process_id, live_processes>>
spaceVars == <<space_refs, stack_slots>>
taskVars  == <<tstate, tproc, tspace, realtime>>
vars == <<procVars, regVars, spaceVars, taskVars, held, todo, panic>>

\* process_initialize: the immortal process 1.
Init ==
    /\ state = [p \in Pid |-> IF p = kernel_process THEN "RUNNING" ELSE "UNBORN"]
    /\ reference_count = [p \in Pid |-> IF p = kernel_process THEN 1 ELSE 0]
    /\ live_threads = [p \in Pid |-> 0]
    /\ parent_id = [p \in Pid |-> 0]
    /\ children = [p \in Pid |-> {}]
    /\ exit_status = [p \in Pid |-> 0]
    /\ next_process_id = 2 /\ live_processes = 1
    /\ space_refs = [p \in Pid |-> 0] /\ stack_slots = [p \in Pid |-> 0]
    /\ tstate = [t \in Task |-> "UNUSED"]
    /\ tproc = [t \in Task |-> 0] /\ tspace = [t \in Task |-> 0] /\ realtime = {}
    /\ held = [a \in Actor |-> {}] /\ todo = [a \in Actor |-> <<>>]
    /\ panic = "none"

-----------------------------------------------------------------------------
Running == panic = "none"
Ready(a) == /\ Running /\ todo[a] = <<>>
            /\ a \in Task => tstate[a] = "ALIVE" /\ "launch" \notin held[a]
At(a, op) == Running /\ todo[a] # <<>> /\ Head(todo[a]).op = op
P(a) == Head(todo[a]).p
T(a) == Head(todo[a]).t
Then(a, fs)    == todo' = [todo EXCEPT ![a] = fs \o Tail(@)]
Instead(a, fs) == todo' = [todo EXCEPT ![a] = fs]
Registered(p) == state[p] \in {"NEW", "RUNNING", "EXITING", "ZOMBIE"}

-----------------------------------------------------------------------------
(* process.c                                                               *)

\* process_spawn_user_internal before there is a process.  Every stage may fail: frees
\* is what its error branch gives back, gets and drops what success adds and removes.
Stage(frees, gets, drops) == [frees |-> frees, gets |-> gets, drops |-> drops]
StageOpen == Stage({}, {"file"}, {})                       \* vfs_open
StageCheck == Stage({"file"}, {}, {})                      \* a regular file, its size
BufferKeepsFile == Stage({}, {"data"}, {})
StageBuffer == Stage({"file"}, {"data"}, {})               \* kmalloc
StageRead == Stage({"data", "file"}, {}, {"file"})         \* vfs_read to the end, vfs_close
StageLength == Stage({"data"}, {}, {})
StageImage == Stage({"data"}, {"directory"}, {"data"})     \* elf_load_user_image
StageVerify == Stage({"directory"}, {}, {})
StageContext == Stage({"directory"}, {"context"}, {})      \* kmalloc
StageDetach == Stage({"context", "directory"}, {}, {})     \* user_image_detach_directory
StageAdopt == Stage({"directory", "context"}, {}, {})      \* address_space_adopt_user
StageSlot == Stage({"directory", "context"}, {}, {})       \* stack slot 0
StageProcess == Stage({"directory", "context"}, {}, {})    \* the memory of process_create
Stages == <<StageOpen, StageCheck, StageBuffer, StageRead, StageLength, StageImage, StageVerify,
            StageContext, StageDetach, StageAdopt, StageSlot, StageProcess>>
HeldAfter == LET h[n \in 0..Len(Stages)] ==
                   IF n = 0 THEN {} ELSE (h[n - 1] \cup Stages[n].gets) \ Stages[n].drops
             IN  h

process_spawn_user(a) ==
    /\ a \in Task \cup Spawner /\ Ready(a) /\ next_process_id \in Pid
    /\ todo' = [todo EXCEPT ![a] = <<F("load", kernel_process)>>]
    /\ UNCHANGED <<procVars, regVars, spaceVars, taskVars, held, panic>>

spawn_load(a) ==
    /\ At(a, "load")
    /\ \/ /\ held' = [held EXCEPT ![a] = HeldAfter[Len(Stages)]]
          /\ Then(a, <<F("create", kernel_process)>>)
       \/ /\ \E rest \in {HeldAfter[n - 1] \ Stages[n].frees : n \in 1..Len(Stages)} :
               held' = [held EXCEPT ![a] = rest]
          /\ Then(a, <<>>)
    /\ UNCHANGED <<procVars, regVars, spaceVars, taskVars, panic>>

\* process_create up to the registration: the caller owns a reference to the space
\* (slot 0 taken) and one to the process.
process_create(a) ==
    LET p == next_process_id
        q == IF a \in Task THEN tproc[a] ELSE kernel_process
    IN  /\ At(a, "create") /\ p \in Pid
        /\ state' = [state EXCEPT ![p] = "NEW"]
        /\ reference_count' = [reference_count EXCEPT ![p] = 1]
        /\ parent_id' = [parent_id EXCEPT ![p] = q]
        /\ space_refs' = [space_refs EXCEPT ![p] = 2]
        /\ stack_slots' = [stack_slots EXCEPT ![p] = 1]
        /\ next_process_id' = p + 1
        /\ live_processes' = live_processes + 1
        /\ held' = [held EXCEPT ![a] = @ \ {"directory"}]
        /\ todo' = [todo EXCEPT ![a] = <<F("acquire", p)>>]
        /\ UNCHANGED <<live_threads, children, exit_status, taskVars, panic>>

\* What spawn gives up when the process or its task cannot be made.
Undo(p) == <<F("release", p), F("space", p), F("context", p)>>

free_context(a) ==
    /\ At(a, "context") /\ held' = [held EXCEPT ![a] = @ \ {"context"}] /\ Then(a, <<>>)
    /\ UNCHANGED <<procVars, regVars, spaceVars, taskVars, panic>>

\* process_acquire_by_id(parent_id)
process_acquire_by_id(a) ==
    LET p == P(a)
        q == parent_id[p]
    IN  /\ At(a, "acquire")
        /\ IF ~Registered(q)
             THEN /\ Instead(a, Undo(p))
                  /\ UNCHANGED reference_count
             ELSE /\ Instead(a, <<F("retain", p), F("release", q), F("task", p)>>)
                  /\ reference_count' = IF q = kernel_process THEN reference_count
                                        ELSE [reference_count EXCEPT ![q] = @ + 1]
        /\ UNCHANGED <<state, live_threads, parent_id, children, exit_status,
                       regVars, held, spaceVars, taskVars, panic>>

\* process_retain, of a process the caller knows to be alive.
NotRetained(p) == reference_count
Retained(p) == [reference_count EXCEPT ![p] = @ + 1]

\* process_add_child up to process_retain(child); the link may not be had.
process_retain_child(a) ==
    LET p == P(a)
    IN  /\ At(a, "retain")
        /\ \/ /\ reference_count' = Retained(p)
              /\ Then(a, <<F("add", p)>>)
           \/ /\ UNCHANGED reference_count
              /\ Instead(a, <<F("release", parent_id[p])>> \o Undo(p))
        /\ UNCHANGED <<state, live_threads, parent_id, children, exit_status,
                       regVars, held, spaceVars, taskVars, panic>>

\* The rest of process_add_child, under the lock of the parent.
process_add_child(a) ==
    LET p == P(a)
        q == parent_id[p]
    IN  /\ At(a, "add")
        /\ IF state[q] \in {"EXITING", "ZOMBIE", "DEAD"} \/ p \in children[q]
             THEN /\ Instead(a, <<F("release", p), F("release", q)>> \o Undo(p))
                  /\ UNCHANGED children
             ELSE /\ Then(a, <<>>)
                  /\ children' = [children EXCEPT ![q] = @ \cup {p}]
        /\ UNCHANGED <<state, reference_count, live_threads, parent_id, exit_status,
                       regVars, held, spaceVars, taskVars, panic>>

\* process_release: the section under the registry lock.  The last reference
\* unregisters the process; its space and its memory go afterwards.
process_release(a) ==
    LET p == P(a)
        last == p # kernel_process /\ reference_count[p] = 1
    IN  /\ At(a, "release")
        /\ IF p = kernel_process
             THEN UNCHANGED <<reference_count, panic>>
             ELSE /\ reference_count' = [reference_count EXCEPT
                                           ![p] = IF @ = 0 THEN 0 ELSE @ - 1]
                  /\ panic' = IF reference_count[p] = 0 THEN "reference-count underflow"
                              ELSE IF last /\ live_processes = 0
                                   THEN "live-process count underflow"
                              ELSE panic
        /\ state' = IF last THEN [state EXCEPT ![p] = "DEAD"] ELSE state
        /\ live_processes' = IF last THEN live_processes - 1 ELSE live_processes
        /\ Then(a, IF last THEN <<F("space", p), F("free", p)>> ELSE <<>>)
        /\ UNCHANGED <<live_threads, parent_id, children, exit_status,
                       next_process_id, held, spaceVars, taskVars>>

\* The end of process_release: the assertion, then kfree.
process_free(a) ==
    LET p == P(a)
    IN  /\ At(a, "free")
        /\ IF children[p] # {}
             THEN panic' = "destroying process with owned children" /\ UNCHANGED state
             ELSE state' = [state EXCEPT ![p] = "FREED"] /\ UNCHANGED panic
        /\ Then(a, <<>>)
        /\ UNCHANGED <<reference_count, live_threads, parent_id, children, exit_status,
                       regVars, held, spaceVars, taskVars>>

\* address_space_release; the callers all run on the kernel directory.
address_space_release(a) ==
    LET p == P(a)
    IN  /\ At(a, "space")
        /\ space_refs' = [space_refs EXCEPT ![p] = IF @ = 0 THEN 0 ELSE @ - 1]
        /\ panic' = IF space_refs[p] = 0 THEN "failed releasing address space" ELSE panic
        /\ Then(a, <<>>)
        /\ UNCHANGED <<procVars, regVars, held, stack_slots, taskVars>>

\* process_thread_attach, the end of task_bind_process: a process that is no
\* longer running takes no thread (and the caller halts the machine).
CanAttach(p) == state[p] \in {"NEW", "RUNNING"}
process_thread_attach(a) ==
    LET p == P(a)
    IN  /\ At(a, "attach")
        /\ IF CanAttach(p)
             THEN /\ live_threads' = [live_threads EXCEPT ![p] = @ + 1]
                  /\ state' = [state EXCEPT ![p] = "RUNNING"]
                  /\ tproc' = [tproc EXCEPT ![T(a)] = p]
                  /\ UNCHANGED panic
             ELSE /\ panic' = "failed binding"
                  /\ UNCHANGED <<live_threads, state, tproc>>
        /\ Then(a, <<>>)
        /\ UNCHANGED <<reference_count, parent_id, children, exit_status, regVars, held,
                       spaceVars, tstate, tspace, realtime>>

\* The state after a detach.
StaysRunning(p) == state[p]
AnyDetach(p)  == IF state[p] = "RUNNING" THEN "ZOMBIE" ELSE state[p]
LastDetach(p) == IF live_threads[p] = 1 /\ state[p] \in {"RUNNING", "EXITING"}
                   THEN "ZOMBIE" ELSE state[p]
process_thread_detach(a) ==
    LET p == P(a)
    IN  /\ At(a, "detach")
        /\ live_threads' = [live_threads EXCEPT ![p] = IF @ = 0 THEN 0 ELSE @ - 1]
        /\ panic' = IF live_threads[p] = 0 THEN "thread-count underflow" ELSE panic
        /\ state' = [state EXCEPT ![p] = LastDetach(p)]
        /\ Then(a, <<>>)
        /\ UNCHANGED <<reference_count, parent_id, children, exit_status, regVars, held,
                       spaceVars, taskVars>>

\* process_waitpid: under both locks a zombie child is unlinked; the reference
\* of the link is dropped afterwards.  Otherwise nothing happens.
process_waitpid(a, p) ==
    /\ a \in Task /\ Ready(a) /\ p \in children[tproc[a]] /\ state[p] = "ZOMBIE"
    /\ children' = [children EXCEPT ![tproc[a]] = @ \ {p}]
    /\ todo' = [todo EXCEPT ![a] = <<F("release", p)>>]
    /\ UNCHANGED <<state, reference_count, live_threads, parent_id, exit_status,
                   regVars, held, spaceVars, taskVars, panic>>

-----------------------------------------------------------------------------
(* spawn.c, user_thread.c, task.c                                          *)

\* task_create_user_unpublished for a new process; on success spawn binds the
\* task, drops its own two references and publishes.
spawn_task(a) ==
    LET p == P(a)
    IN  /\ At(a, "task")
        /\ \/ \E t \in Task :
                /\ tstate[t] = "UNUSED"
                /\ tstate' = [tstate EXCEPT ![t] = "NEW"]
                /\ tspace' = [tspace EXCEPT ![t] = p]
                /\ space_refs' = [space_refs EXCEPT ![p] = @ + 1]
                /\ held' = [held EXCEPT ![a] = @ \ {"context"}, ![t] = {"launch"}]
                /\ Then(a, <<FT("bind", p, t), F("release", p), F("space", p),
                             FT("publish", p, t)>>)
           \/ /\ Instead(a, Undo(p))
              /\ UNCHANGED <<tstate, tspace, space_refs, held>>
        /\ UNCHANGED <<procVars, regVars, stack_slots, tproc, realtime, panic>>

\* user_thread_create_current: a stack slot, a task, the binding, publication.
\* Without a free slot, or without memory for the task, the machine is halted.
NoFreeSlot(p) == stack_slots[p] = Slots
user_thread_create(a, t) ==
    LET p == tproc[a]
    IN  /\ a \in Task /\ Ready(a)
        /\ tstate[t] = "UNUSED"
        /\ \/ /\ panic' = IF NoFreeSlot(p) THEN "worker stack creation failed"
                           ELSE "failed allocating worker task"
              /\ UNCHANGED <<stack_slots, tstate, tspace, realtime, space_refs, held, todo>>
           \/ /\ ~NoFreeSlot(p)
              /\ stack_slots' = [stack_slots EXCEPT ![p] = @ + 1]
              /\ tstate' = [tstate EXCEPT ![t] = "NEW"]
              /\ tspace' = [tspace EXCEPT ![t] = p]
              /\ realtime' = realtime \cup {t}
              /\ space_refs' = [space_refs EXCEPT ![p] = @ + 1]
              /\ held' = [held EXCEPT ![t] = {"launch"}]
              /\ todo' = [todo EXCEPT ![a] = <<FT("bind", p, t), FT("publish", p, t)>>]
              /\ UNCHANGED panic
        /\ UNCHANGED <<procVars, regVars, tproc>>

\* task_bind_process up to process_retain.
task_bind_process(a) ==
    LET p == P(a)
    IN  /\ At(a, "bind")
        /\ reference_count' = Retained(p)
        /\ Then(a, <<FT("attach", p, T(a))>>)
        /\ UNCHANGED <<state, live_threads, parent_id, children, exit_status, regVars, held,
                       spaceVars, taskVars, panic>>

task_publish(a) ==
    /\ At(a, "publish")
    /\ tstate' = [tstate EXCEPT ![T(a)] = "ALIVE"]
    /\ Then(a, <<>>)
    /\ UNCHANGED <<procVars, regVars, held, spaceVars, tproc, tspace, realtime, panic>>

\* The first thing a user task does, process_user_task_entry or user_thread_kernel_entry:
\* it copies the context its creator left it, frees it and enters user mode.
task_entry(t) ==
    /\ Running /\ tstate[t] = "ALIVE" /\ "launch" \in held[t]
    /\ held' = [held EXCEPT ![t] = {}]
    /\ UNCHANGED <<procVars, regVars, spaceVars, taskVars, todo, panic>>

\* I386_SYSCALL_EXIT: process_set_exit_status, then task_exit.
process_set_exit_status(a, s) ==
    /\ a \in Task /\ Ready(a)
    /\ exit_status' = [exit_status EXCEPT ![tproc[a]] = s]
    /\ todo' = [todo EXCEPT ![a] = <<F("exit", tproc[a])>>]
    /\ UNCHANGED <<state, reference_count, live_threads, parent_id, children, regVars, held,
                   spaceVars, taskVars, panic>>

task_exit(a) ==
    /\ At(a, "exit")
    /\ tstate' = [tstate EXCEPT ![a] = "ZOMBIE"]
    /\ realtime' = realtime \ {a}
    /\ Then(a, <<>>)
    /\ UNCHANGED <<procVars, regVars, held, spaceVars, tproc, tspace, panic>>

\* task_reaper_thread: the process is detached, then the space and the
\* process are released, then the task is freed.
ReapFrames(p, t) == <<F("detach", p), F("space", p), F("release", p), FT("reaped", p, t)>>
task_reap(t) ==
    /\ Ready(reaper) /\ tstate[t] = "ZOMBIE"
    /\ todo' = [todo EXCEPT ![reaper] = ReapFrames(tproc[t], t)]
    /\ tproc' = [tproc EXCEPT ![t] = 0]
    /\ tspace' = [tspace EXCEPT ![t] = 0]
    /\ UNCHANGED <<procVars, regVars, held, spaceVars, tstate, realtime, panic>>

task_free(a) ==
    /\ At(a, "reaped")
    /\ tstate' = [tstate EXCEPT ![T(a)] = "UNUSED"]
    /\ Then(a, <<>>)
    /\ UNCHANGED <<procVars, regVars, held, spaceVars, tproc, tspace, realtime, panic>>

-----------------------------------------------------------------------------
Continue(a) ==
    \/ spawn_load(a) \/ process_create(a) \/ free_context(a)
    \/ process_acquire_by_id(a) \/ process_retain_child(a) \/ process_add_child(a)
    \/ process_release(a) \/ process_free(a) \/ address_space_release(a)
    \/ process_thread_attach(a) \/ process_thread_detach(a)
    \/ spawn_task(a) \/ task_bind_process(a) \/ task_publish(a)
    \/ task_exit(a) \/ task_free(a)
Reap == \E t \in Task : task_reap(t)

Next ==
    \/ \E a \in Actor : Continue(a) \/ process_spawn_user(a)
    \/ Reap
    \/ \E a \in Task : \/ task_entry(a)
                       \/ \E p \in Pid : process_waitpid(a, p)
                       \/ \E t \in Task : user_thread_create(a, t)
                       \/ \E s \in Status : process_set_exit_status(a, s)

\* scheduler_pick_next looks at a band only when those before it have nothing ready, and
\* round robin gives each task of one band its turn: a task is sure to get on while it is
\* REALTIME, or while no task that is REALTIME can run.  A task in user mode may run for ever.
RealtimeBusy == \E t \in realtime : tstate[t] = "ALIVE"
MayRun(a) == a \in realtime \/ ~RealtimeBusy

\* A call that has begun runs on when its task gets the CPU, and so does the reaper.
Work(a) == Continue(a) \/ (a = reaper /\ Reap)
Spec == Init /\ [][Next]_vars /\ \A a \in Actor : WF_vars(MayRun(a) /\ Work(a))

-----------------------------------------------------------------------------
\* References carried by frames of a given kind.
Carried(p, ops) ==
    Cardinality({x \in Actor \X (1..8) :
                   /\ x[2] <= Len(todo[x[1]])
                   /\ todo[x[1]][x[2]].p = p /\ todo[x[1]][x[2]].op \in ops})
Threads(p) == Cardinality({t \in Task : tproc[t] = p})

\* Types, and the bound on the length of a list of frames.
TypeOK ==
    /\ state \in [Pid -> {"UNBORN", "NEW", "RUNNING", "EXITING", "ZOMBIE", "DEAD", "FREED"}]
    /\ reference_count \in [Pid -> Nat] /\ live_threads \in [Pid -> Nat]
    /\ parent_id \in [Pid -> 0..MaxPid] /\ children \in [Pid -> SUBSET Pid]
    /\ exit_status \in [Pid -> Status]
    /\ next_process_id \in 2..(MaxPid + 1) /\ live_processes \in Nat
    /\ space_refs \in [Pid -> Nat] /\ stack_slots \in [Pid -> 0..Slots]
    /\ tstate \in [Task -> {"UNUSED", "NEW", "ALIVE", "ZOMBIE"}]
    /\ tproc \in [Task -> 0..MaxPid] /\ tspace \in [Task -> 0..MaxPid]
    /\ realtime \in SUBSET Task
    /\ \A a \in Actor : Len(todo[a]) <= 8 /\ \A i \in 1..Len(todo[a]) : todo[a][i] \in Frame

\* reference_count is the number of owners: the link of the parent, the
\* threads, and every caller that will still release (or pass on) a reference.
\* So nothing is released twice, and no count underflows.
ReferencesExact ==
    /\ Running => \A p \in Pid \ {kernel_process} :
          reference_count[p] =
              Cardinality({q \in Pid : p \in children[q]}) + Threads(p)
              + Carried(p, {"acquire", "task", "release", "add", "attach"})
    /\ panic \notin {"reference-count underflow", "live-process count underflow",
                     "thread-count underflow", "failed releasing address space",
                     "failed binding"}

\* The same for the address space: the process, the tasks, the spawner.
SpaceReferencesExact ==
    Running => \A p \in Pid \ {kernel_process} :
        space_refs[p] =
            (IF Registered(p) THEN 1 ELSE 0)
            + Cardinality({t \in Task : tspace[t] = p}) + Carried(p, {"acquire", "task", "space"})

\* live_threads counts the threads, and the process runs as long as there is one.
ThreadsExact ==
    Running => \A p \in Pid \ {kernel_process} :
        /\ live_threads[p] = Threads(p) + Carried(p, {"detach"})
        /\ state[p] = "RUNNING" <=> live_threads[p] > 0

\* The three counts together, whoever spawns, exits, waits or reaps in between.
CountsExact == TypeOK /\ ReferencesExact /\ SpaceReferencesExact /\ ThreadsExact

\* Wherever spawn fails, the file, the buffers and the directory it had acquired have
\* been given back when it returns, and the context of a new task has exactly one
\* owner until the task frees it (process_spawn_user_internal, process_user_task_entry,
\* user_thread_kernel_entry).
NothingLeaked ==
    Running => \A a \in Actor : todo[a] = <<>> =>
        held[a] \subseteq (IF a \in Task /\ tstate[a] \in {"NEW", "ALIVE"} THEN {"launch"} ELSE {})

\* Nobody is about to touch a process that has been freed, and no link of a
\* process that is still there leads to one.  A live task runs in a space that
\* exists, for a process that is registered.
NoUseAfterFree ==
    /\ \A a \in Actor : \A i \in 1..Len(todo[a]) :
          todo[a][i].op \notin {"space", "context", "publish", "reaped"} => state[todo[a][i].p] # "FREED"
    /\ \A q \in Pid : state[q] # "FREED" => \A p \in children[q] : Registered(p)
    /\ \A t \in Task : tstate[t] = "ALIVE" =>
          space_refs[tspace[t]] > 0 /\ state[tproc[t]] = "RUNNING"

\* What waitpid has reported stays true: a zombie takes no thread, and its
\* status does not change, until it is gone.
ZombieIsFinal ==
    [][\A p \in Pid : state[p] = "ZOMBIE" =>
          state'[p] \in {"ZOMBIE", "DEAD"} /\ exit_status'[p] = exit_status[p]
          /\ live_threads'[p] = 0]_vars

\* Once every thread of a process has called exit the process becomes a zombie, or is gone,
\* unless REALTIME workers, of whatever process, keep the reaper from running time and again.
Exited(p) == /\ state[p] = "RUNNING" /\ Threads(p) > 0
             /\ \A t \in Task : tproc[t] = p => tstate[t] = "ZOMBIE"
Collectable(p) == Exited(p) ~> (state[p] # "RUNNING" \/ ~Running)
ExitedBecomesZombie == <>[]~RealtimeBusy => \A p \in Pid : Collectable(p)

\* The same without the condition, as the comment at task.c:1167-1172 has it, which makes
\* the reaper NORMAL so that it cannot starve.  It is false (MCProcessStarve.cfg): workers
\* are REALTIME, and one that does not block keeps the reaper out.
ReaperNeverStarves == \A p \in Pid : Collectable(p)

\* The assertion at the end of process_release.
NoOwnedChildrenAtDestruction == panic # "destroying process with owned children"
=============================================================================
