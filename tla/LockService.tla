---------------------------- MODULE LockService ----------------------------
(***************************************************************************)
(* What a mutex promises: at most one owner, which only a free lock gets   *)
(* and only the owner gives up.                                            *)
(***************************************************************************)
CONSTANTS Task, NULL

VARIABLE owner

Init == owner = NULL

Acquire(t) == owner = NULL /\ owner' = t
Release(t) == owner = t /\ owner' = NULL

Next == \E t \in Task : Acquire(t) \/ Release(t)

Spec == Init /\ [][Next]_owner
=============================================================================
