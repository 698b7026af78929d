------------------------- MODULE ProcessRefinement -------------------------
(***************************************************************************)
(* Process implements ProcessLifecycle: the status of a process is what    *)
(* the table and the lists say of it.                                      *)
(***************************************************************************)
EXTENDS Process

\* A zombie waits to be collected as long as it is linked in a list.
StatusOf(p) ==
  CASE state[p] = "NONE"           -> "absent"
    [] state[p] = "ACTIVABLE"      -> "ready"
    [] state[p] = "CHOSEN"         -> "running"
    [] state[p] = "BLOCKED_ON_SEM" -> "blocked"
    [] state[p] = "ZOMBIE"         -> IF Linked(p) THEN "dead" ELSE "collected"

Life == INSTANCE ProcessLifecycle
          WITH Proc <- Pid, Idle <- Idle, status <- [p \in Pid |-> StatusOf(p)]

\* Every step of the scheduler and of the process primitives is one of the
\* steps ProcessLifecycle allows, or changes the status of no process.
ImplementsLifecycle == Life!LifeSpec
=============================================================================
