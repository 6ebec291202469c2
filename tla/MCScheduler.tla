---------------------------- MODULE MCScheduler ----------------------------
(***************************************************************************)
(* Instances of Scheduler for TLC: the idle and bootstrap contexts of each *)
(* CPU, and which CPUs schedule.  In the shipped configuration the others  *)
(* are parked (multitasking/smp.c); the locking is written for all of them *)
(* to schedule.                                                            *)
(***************************************************************************)
EXTENDS Scheduler

VARIABLE online    \* the CPUs that are not parked

MCIdle == [c \in CPU |-> <<"idle", c>>]
MCBoot == [c \in CPU |-> <<"boot", c>>]

MCInit == Init /\ online \in {{CHOOSE c \in CPU : TRUE}, CPU}
MCNext == /\ \/ \E c \in online : Step(c)
             \/ Cardinality(online) > 1 /\ \E c \in online : lapic_reschedule_handler(c)
          /\ UNCHANGED online
MCSpec == MCInit /\ [][MCNext]_<<vars, online>>

\* Bounds: only kernel tasks change bands.  Several CPUs share the run queue with
\* one kernel task, in one band, and none is interrupted while it handles an
\* interrupt or the end of a switch.
FewMoves == \A t \in UserTask : policy[t] = 1
FewTasks == Cardinality(online) > 1 =>
    /\ \A t \in UserTask : state[t] = "UNUSED"
    /\ \A t \in Ctx : policy[t] = 1 /\ (Top(t) = "irq" => Len(kstack[t]) = 1)
=============================================================================
