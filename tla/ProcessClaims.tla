--------------------------- MODULE ProcessClaims ---------------------------
(***************************************************************************)
(* What comments, assertions and tests of the repository say of the        *)
(* scheduler and that the code does not do.  Each is checked alone, and    *)
(* the README tells the execution that refutes it.                         *)
(***************************************************************************)
EXTENDS Process

\* queue.h:158: a link given to queue_del is linked.
QueueDelNeverFails == halted # "queue_del"

\* tests.c, test8 (waitpid(pid, &r) == pid for the pid start returned): start
\* returns the pid of the process it made.
StartNamesItsChild ==
  Running("start") /\ chosen # Idle => StartResult = local[chosen]
=============================================================================
